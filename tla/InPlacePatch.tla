---------------------------- MODULE InPlacePatch ----------------------------
(***************************************************************************)
(* The crash-safe in-place patch of a Matroska file: ReindexInPlace,       *)
(* RetimeTracks' in-place engine, RecoverInPlace and the journal they      *)
(* share (mkv/ops/reindex_inplace.go, mkv/ops/retime.go).                  *)
(*                                                                         *)
(* The file is what the code's recovery can tell apart of it:              *)
(*   zone[z]  the region patch z overwrites: "before" or "after" the patch,*)
(*            or "torn" by a write that landed in part;                    *)
(*   intent   the 64 bytes at the tail of the head Void: "zeros", a        *)
(*            "whole" intent record, the "head" of one (its first bytes,   *)
(*            then zeros), or "torn" (anything else);                      *)
(*   tail     what follows the original last byte: "none", the "lead" (the *)
(*            Cues a reindex appends for good), the "whole" append (lead,  *)
(*            journal payload, trailer), a "cut" one without its trailer,  *)
(*            a "corrupt" one whose trailer landed and payload did not;    *)
(*   surplus  a cut append lies below the size a retime took for the       *)
(*            original's: no later run will remove it;                     *)
(*   record   the last patch's journal has the intent's 64 bytes as a zone.*)
(* mZone, mIntent and mTail are, for each part, the set of values the      *)
(* storage medium may hold: a write adds to them, a sync leaves only the   *)
(* value read back. A power cut picks one value of each.                   *)
(***************************************************************************)
EXTENDS Naturals

CONSTANTS
    NumZones,    \* regions overwritten: Segment size, SeekHead slot, stale Cues; or block timecodes
    Jobs,        \* what is asked for: a "reindex", a "reindexFull" (no 64 zero bytes left in the head Void), a "retime"
    CrashModel,  \* "kill": between two calls; "torn": also in the middle of a write; "power": all since the last sync, in any order
    MaxCrashes,  \* bound: crashes explored
    MaxFaults    \* bound: calls that return an error explored

ASSUME ZonesAssumption  == NumZones \in Nat \ {0}
ASSUME JobsAssumption   == Jobs \subseteq {"reindex", "reindexFull", "retime"}
ASSUME CrashAssumption  == CrashModel \in {"kill", "torn", "power"}
ASSUME BoundsAssumption == MaxCrashes \in Nat /\ MaxFaults \in Nat

VARIABLES
    job,                          \* what is asked for, in this behaviour
    zone, intent, tail, surplus, record,  \* the file, as a process reads it back
    mZone, mIntent, mTail,        \* what the medium may hold of each part
    pc,                           \* the step the running call is at, "idle" when none runs
    goal,                         \* why: "patch", "recover" (RecoverInPlace), "undo" (a failed patch)
    k,                            \* the zone the patch or restore loop is at
    told,                         \* the answer of the last patch call
    crashes, faults               \* explored so far

file   == <<zone, intent, tail, surplus, record>>
medium == <<mZone, mIntent, mTail>>
vars   == <<job, file, medium, pc, goal, k, told, crashes, faults>>

Zones      == 1 .. NumZones
ZoneBytes  == {"before", "after", "torn"}
IntentBytes == {"zeros", "head", "whole", "torn"}
TailBytes  == {"none", "lead", "cut", "corrupt", "whole"}
Steps == {"idle", "readJournal", "findIntent", "cutToIntent", "clearFound",
          "syncRecovery", "scan", "writeIntent", "syncIntent", "append",
          "syncJournal", "patch", "syncPatches", "verify", "clearIntent",
          "syncCleared", "emit", "commit", "finalSync",
          "restore", "restoreIntent", "truncateBack", "syncBack"}
Answers == {"none", "done", "restored", "refused", "stuck", "uncommitted"}

\* The tail of a finished file: a reindex appends the Cues for good.
FinalTail == IF job = "retime" THEN "none" ELSE "lead"

\* The 64 bytes hold nothing a recovery would act on.
NoRecord == intent \in {"zeros", "torn"}

Unpatched == \A z \in Zones : zone[z] = "before"
Patched   == \A z \in Zones : zone[z] = "after"

Init ==
    /\ job \in Jobs
    /\ zone = [z \in Zones |-> "before"] /\ intent = "zeros" /\ tail = "none"
    /\ surplus = FALSE /\ record = FALSE
    /\ mZone = [z \in Zones |-> {"before"}] /\ mIntent = {"zeros"} /\ mTail = {"none"}
    /\ pc = "idle" /\ goal = "patch" /\ k = 1 /\ told = "none"
    /\ crashes = 0 /\ faults = 0

-----------------------------------------------------------------------------
(* Effects on the file. Each also says what the medium may hold after it.  *)

SetZone(z, v) ==
    /\ zone' = [zone EXCEPT ![z] = v]
    /\ mZone' = [mZone EXCEPT ![z] = IF v = zone[z] THEN @ ELSE @ \cup {v, "torn"}]
    /\ UNCHANGED <<intent, tail, surplus, record, mIntent, mTail>>

\* (A record of 64 bytes reaches the medium first bytes first.)
SetIntent(v) ==
    /\ intent' = v
    /\ mIntent' = IF v = intent THEN mIntent
                  ELSE mIntent \cup {v, IF v \in {"whole", "head"} THEN "head" ELSE "torn"}
    /\ UNCHANGED <<zone, tail, surplus, record, mZone, mTail>>

\* An append reaches the medium in pieces; a length change is atomic.
Append(v) ==
    /\ tail' = v
    /\ mTail' = mTail \cup {"cut", "corrupt", v}
    /\ UNCHANGED <<zone, intent, surplus, record, mZone, mIntent>>

Truncate(v) ==
    /\ tail' = v
    /\ mTail' = mTail \cup {v}
    /\ UNCHANGED <<zone, intent, surplus, record, mZone, mIntent>>

Sync ==
    /\ mZone' = [z \in Zones |-> {zone[z]}]
    /\ mIntent' = {intent}
    /\ mTail' = {tail}
    /\ UNCHANGED file

\* The write the running call is at, cut short: by an error or by the crash.
ShortWrite ==
    \/ pc = "writeIntent" /\ intent = "zeros" /\ SetIntent("head")
    \/ pc \in {"clearIntent", "clearFound", "restoreIntent"} /\ intent # "zeros" /\ SetIntent("torn")
    \/ pc = "append" /\ Append("cut")
    \/ pc = "patch" /\ SetZone(k, "torn")
    \/ pc = "restore" /\ zone[k] # "before" /\ SetZone(k, "torn")

-----------------------------------------------------------------------------
(* Control. *)

Goto(l) == pc' = l /\ UNCHANGED <<job, goal, k, told, crashes, faults>>

\* Mutant: the loop runs once too often.
NextZoneOffByOne(l) ==
    /\ IF k <= NumZones THEN pc' = pc /\ k' = k + 1 ELSE pc' = l /\ k' = 1
    /\ UNCHANGED <<job, goal, told, crashes, faults>>
\* The loop at zone k: the next zone, or the step after the loop.
NextZone(l) ==
    /\ IF k < NumZones THEN pc' = pc /\ k' = k + 1 ELSE pc' = l /\ k' = 1
    /\ UNCHANGED <<job, goal, told, crashes, faults>>

\* A patch call answers its caller; what RecoverInPlace answers is not kept.
Return(answer) ==
    /\ pc' = "idle" /\ k' = 1
    /\ told' = IF goal = "recover" THEN told ELSE answer
    /\ UNCHANGED <<job, goal, crashes>>

\* rollback(cause): undo the failed patch from the journal kept in memory.
Rollback == pc' = "restore" /\ k' = 1 /\ goal' = "undo" /\ UNCHANGED <<job, told, crashes>>

\* Recovery is over: beginInPlacePatch hands over to the patch, RecoverInPlace returns.
Recovered ==
    IF goal = "patch" THEN Goto("scan")
    ELSE pc' = "idle" /\ UNCHANGED <<job, goal, k, told, crashes, faults>>

Fault == faults < MaxFaults /\ faults' = faults + 1

-----------------------------------------------------------------------------
(* beginInPlacePatch and RecoverInPlace: undo what an earlier run left.    *)

\* A patch is asked for until the file is finished; a recovery at any time.
Begin(call) ==
    /\ pc = "idle" /\ pc' = "readJournal"
    /\ goal' = call
    /\ \/ call = "patch" /\ ~(Patched /\ tail = FinalTail) /\ told' = "none"
       \/ call = "recover" /\ told' = told
    /\ UNCHANGED <<job, file, medium, k, crashes, faults>>

\* Mutant: only RecoverInPlace rolls a journal back, the next patch does not.
ReadJournalByHand ==
    /\ pc = "readJournal"
    /\ IF tail = "whole" /\ goal = "recover" THEN Goto("restore") ELSE Goto("findIntent")
    /\ UNCHANGED <<file, medium>>
\* A journal is looked for at the end of the file, before any intent record.
ReadJournal ==
    /\ pc = "readJournal"
    /\ \/ tail = "whole" /\ Goto("restore")
       \/ tail = "corrupt" /\ Return("refused") /\ UNCHANGED faults
       \/ tail \in {"none", "lead", "cut"} /\ Goto("findIntent")
    /\ UNCHANGED <<file, medium>>

\* Mutant: the record is cleared and the cut append stays.
FindIntentKeepsTail ==
    /\ pc = "findIntent"
    /\ IF intent \in {"whole", "head"} THEN Goto("clearFound") ELSE Recovered
    /\ UNCHANGED <<file, medium>>
\* findIntent: a whole record names the original size, a torn one is recognised only by its head.
FindIntent ==
    /\ pc = "findIntent"
    /\ \/ intent = "whole" /\ Goto(IF tail = "none" THEN "clearFound" ELSE "cutToIntent")
       \/ intent = "head" /\ Goto("clearFound")
       \/ intent \in {"zeros", "torn"} /\ Recovered
    /\ UNCHANGED <<file, medium>>

CutToIntent  == pc = "cutToIntent" /\ Truncate("none") /\ Goto("clearFound")
ClearFound   == pc = "clearFound" /\ SetIntent("zeros") /\ Goto("syncRecovery")
SyncRecovery == pc = "syncRecovery" /\ Sync /\ Recovered

-----------------------------------------------------------------------------
(* ReindexInPlace and RetimeTracks: the patch itself.                      *)

\* An intent record goes where the head Void has zeros to spare.
RecordFits == job = "reindex" /\ intent = "zeros"

\* The read-only scan. A reindex refuses bytes past the Segment's end; a retime
\* does not look there and takes them for part of the original.
Scan ==
    /\ pc = "scan"
    /\ IF job # "retime" /\ tail # "none"
       THEN Return("refused") /\ UNCHANGED <<file, medium, faults>>
       ELSE /\ record' = RecordFits
            /\ surplus' = (surplus \/ tail # "none")
            /\ tail' = "none" /\ mTail' = IF tail = "none" THEN mTail ELSE {"none"}
            /\ Goto(IF RecordFits THEN "writeIntent" ELSE "append")
            /\ UNCHANGED <<zone, intent, mZone, mIntent>>

WriteIntent  == pc = "writeIntent" /\ SetIntent("whole") /\ Goto("syncIntent")
SyncIntent   == pc = "syncIntent" /\ Sync /\ Goto("append")
AppendTail   == pc = "append" /\ Append("whole") /\ Goto("syncJournal")
\* Mutants: a missing barrier, or a record left behind.
SyncClearedMissing == pc = "syncCleared" /\ Goto("emit") /\ UNCHANGED <<file, medium>>
FinalSyncMissing   == pc = "finalSync" /\ Return("done") /\ UNCHANGED <<file, medium, faults>>
VerifyKeepsIntent  == pc = "verify" /\ Goto("emit") /\ UNCHANGED <<file, medium>>
SyncJournal  == pc = "syncJournal" /\ Sync /\ Goto("patch")
ApplyPatch   == pc = "patch" /\ SetZone(k, "after") /\ NextZone("syncPatches")
SyncPatches  == pc = "syncPatches" /\ Sync /\ Goto("verify")
Verify       == /\ pc = "verify" /\ Goto(IF record THEN "clearIntent" ELSE "emit")
                /\ UNCHANGED <<file, medium>>
ClearIntent  == pc = "clearIntent" /\ SetIntent("zeros") /\ Goto("syncCleared")
SyncCleared  == pc = "syncCleared" /\ Sync /\ Goto("emit")
\* The rollback delta; a best-effort one that fails is not an error.
EmitRollback == pc = "emit" /\ Goto("commit") /\ UNCHANGED <<file, medium>>
Commit       == pc = "commit" /\ Truncate(FinalTail) /\ Goto("finalSync")
FinalSync    == pc = "finalSync" /\ Sync /\ Return("done") /\ UNCHANGED faults

-----------------------------------------------------------------------------
(* rollbackInPlaceJournal: the zones in journal order (the intent record's *)
(* is the last), the length, one sync.                                     *)

\* Mutant: the last zone is forgotten.
RestoreStopsShort  == /\ pc = "restore"
                      /\ IF k = NumZones THEN UNCHANGED <<file, medium>> ELSE SetZone(k, "before")
                      /\ NextZone(IF record THEN "restoreIntent" ELSE "truncateBack")
Restore       == /\ pc = "restore" /\ SetZone(k, "before")
                 /\ NextZone(IF record THEN "restoreIntent" ELSE "truncateBack")
RestoreIntent == pc = "restoreIntent" /\ SetIntent("zeros") /\ Goto("truncateBack")
TruncateBack  == pc = "truncateBack" /\ Truncate("none") /\ Goto("syncBack")
SyncBack      == /\ pc = "syncBack" /\ Sync
                 /\ IF goal = "undo" THEN Return("restored") /\ UNCHANGED faults ELSE Recovered

-----------------------------------------------------------------------------
(* Errors and crashes.                                                     *)

RecoverySteps   == {"readJournal", "findIntent", "cutToIntent", "clearFound", "syncRecovery", "scan"}
PatchSteps      == {"writeIntent", "syncIntent", "append", "syncJournal", "patch", "syncPatches",
                    "verify", "clearIntent", "syncCleared", "emit"}
CommitSteps     == {"commit", "finalSync"}
RollbackSteps   == {"restore", "restoreIntent", "truncateBack", "syncBack"}

\* The call at pc returns an error: a write may have landed in part.
Fails == Fault /\ (ShortWrite \/ UNCHANGED <<file, medium>>)

\* Mutant: a failed commit is rolled back.
FailCommittingUndone == pc \in CommitSteps /\ Fails /\ Rollback
FailRecovering == pc \in RecoverySteps /\ Fails /\ Return("refused")
FailPatching   == pc \in PatchSteps /\ Fails /\ Rollback
FailCommitting == pc \in CommitSteps /\ Fails /\ Return("uncommitted")
FailRollback   == pc \in RollbackSteps /\ Fails /\ Return(IF goal = "undo" THEN "stuck" ELSE "refused")

\* Each part of the file is one of the values the medium may hold of it.
PowerCut ==
    /\ zone' \in {img \in [Zones -> ZoneBytes] : \A z \in Zones : img[z] \in mZone[z]}
    /\ intent' \in mIntent
    /\ tail' \in mTail
    /\ UNCHANGED <<surplus, record>>
    /\ mZone' = [z \in Zones |-> {zone'[z]}] /\ mIntent' = {intent'} /\ mTail' = {tail'}

\* The process dies, or the machine: the call's answer is lost with it.
Crash ==
    /\ crashes < MaxCrashes /\ crashes' = crashes + 1
    /\ pc' = "idle" /\ k' = 1 /\ goal' = "patch"
    /\ told' = IF pc = "idle" THEN told ELSE "none"
    /\ \/ CrashModel \in {"kill", "torn"} /\ UNCHANGED <<file, medium>>
       \/ CrashModel = "torn" /\ ShortWrite
       \/ CrashModel = "power" /\ PowerCut
    /\ UNCHANGED <<job, faults>>

Recovery == ReadJournal \/ FindIntent \/ CutToIntent \/ ClearFound \/ SyncRecovery
Patching == \/ Scan \/ WriteIntent \/ SyncIntent \/ AppendTail \/ SyncJournal \/ ApplyPatch
            \/ SyncPatches \/ Verify \/ ClearIntent \/ SyncCleared \/ EmitRollback
            \/ Commit \/ FinalSync
Undoing  == Restore \/ RestoreIntent \/ TruncateBack \/ SyncBack
Failing  == FailRecovering \/ FailPatching \/ FailCommitting \/ FailRollback

Next == \/ \E call \in {"patch", "recover"} : Begin(call)
        \/ Recovery \/ Patching \/ Undoing
        \/ Failing \/ Crash

Spec == Init /\ [][Next]_vars

\* A running call goes on, and whoever asked for the patch asks again.
FairSpec == Spec /\ WF_vars(Recovery \/ Patching \/ Undoing) /\ SF_vars(Begin("patch"))

-----------------------------------------------------------------------------
(* Properties.                                                             *)

TypeOK ==
    /\ zone \in [Zones -> ZoneBytes] /\ intent \in IntentBytes /\ tail \in TailBytes
    /\ surplus \in BOOLEAN /\ record \in BOOLEAN
    /\ mZone \in [Zones -> SUBSET ZoneBytes] /\ mIntent \in SUBSET IntentBytes
    /\ mTail \in SUBSET TailBytes
    /\ job \in Jobs /\ pc \in Steps /\ goal \in {"patch", "recover", "undo"} /\ k \in Zones
    /\ told \in Answers /\ crashes \in 0 .. MaxCrashes /\ faults \in 0 .. MaxFaults

Original == Unpatched /\ intent = "zeros" /\ tail = "none" /\ ~surplus
Finished == Patched /\ intent = "zeros" /\ tail = FinalTail /\ ~surplus
Durable  == /\ \A z \in Zones : mZone[z] = {zone[z]}
            /\ mIntent = {intent} /\ mTail = {tail}

\* What an undisturbed recovery brings back to Original or leaves Finished.
Recoverable ==
    /\ ~surplus
    /\ \/ tail = "whole"
       \/ Unpatched /\ tail \in {"none", "cut"} /\ intent = "whole"
       \/ Unpatched /\ tail = "none" /\ intent = "head"
       \/ Original \/ Finished

\* Whenever no call runs, the next recovery (beginInPlacePatch's or RecoverInPlace's)
\* brings the file back to its original bytes, or it is the finished file: no crash
\* leaves a file in between, and none leaves an intent record facing a finished file,
\* which would cut its index off.
NoLoss == pc = "idle" => Recoverable

\* One failing call, or one crash in the middle of any write, loses nothing of a file
\* whose head Void has room for an intent record.
SurvivesOne == job = "reindex" /\ crashes + faults <= 1 => NoLoss

\* Write-ahead, at every instant and through every crash, error and aborted rollback:
\* a file with a patched or torn byte still ends with the whole journal, or is finished.
WriteAhead == \/ Unpatched
              \/ tail = "whole"
              \/ Patched /\ tail = FinalTail

\* What ReindexInPlace and RetimeTracks answer is true of the medium, not only of
\* the page cache: after a success the finished file is durable and no journal or
\* record is left, after "original file restored" the original is.
AnswersHold ==
    /\ told = "done" => Patched /\ NoRecord /\ tail = FinalTail /\ Durable
    /\ told = "restored" => Unpatched /\ NoRecord /\ tail = "none" /\ Durable

\* The write barrier: no patch can reach the medium before the journal that undoes
\* it, and the journal is not dropped before every patch is on the medium.
Barrier ==
    /\ pc \in {"patch", "syncPatches", "verify", "clearIntent", "syncCleared", "emit"} => mTail = {"whole"}
    /\ pc \in {"commit", "finalSync"} => mIntent = {intent} /\ NoRecord /\ \A z \in Zones : mZone[z] = {"after"}

\* However often it is interrupted, the patch is eventually done, for good: no crash
\* leaves a file the next run refuses, and no later recovery undoes a finished one.
EventuallyFinished == <>[]Finished

-----------------------------------------------------------------------------
(* The patch as its caller may think of it: one atomic change.             *)

\* What the file stands for: what the recovery of it yields.
Content == IF Patched /\ tail = FinalTail THEN "finished"
           ELSE IF Unpatched \/ tail = "whole" THEN "original" ELSE "lost"
Reply   == IF told \in {"none", "done", "restored"} THEN told ELSE "failed"

Abstract == INSTANCE AtomicPatch WITH content <- Content, reply <- Reply
AtomicSpec == Abstract!Spec
=============================================================================
