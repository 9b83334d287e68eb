------------------------- MODULE InPlacePatchProofs -------------------------
(***************************************************************************)
(* Theorems about InPlacePatch, for every number of zones, layout, number  *)
(* of crashes and number of failing calls.                                 *)
(***************************************************************************)
EXTENDS InPlacePatch, TLAPS

USE ZonesAssumption, JobsAssumption, CrashAssumption, BoundsAssumption

-----------------------------------------------------------------------------
(* Type correctness. *)

\* The types of the file and of the medium, and of the control state.
FileType ==
    /\ zone \in [Zones -> ZoneBytes] /\ intent \in IntentBytes /\ tail \in TailBytes
    /\ surplus \in BOOLEAN /\ record \in BOOLEAN
    /\ mZone \in [Zones -> SUBSET ZoneBytes] /\ mIntent \in SUBSET IntentBytes
    /\ mTail \in SUBSET TailBytes
ControlType ==
    /\ job \in Jobs /\ pc \in Steps /\ goal \in {"patch", "recover", "undo"} /\ k \in Zones
    /\ told \in Answers /\ crashes \in 0 .. MaxCrashes /\ faults \in 0 .. MaxFaults

\* A write to a zone keeps the types of the file and of the medium.
LEMMA SetZoneType ==
    ASSUME FileType, NEW z \in Zones, NEW v \in ZoneBytes, SetZone(z, v)
    PROVE  FileType'
  BY DEF FileType, SetZone, ZoneBytes

\* So does a write to the intent record.
LEMMA SetIntentType ==
    ASSUME FileType, NEW v \in IntentBytes, SetIntent(v)
    PROVE  FileType'
  BY DEF FileType, SetIntent, IntentBytes

\* So do an append and a truncate.
LEMMA TailType ==
    ASSUME FileType, NEW v \in TailBytes, Append(v) \/ Truncate(v)
    PROVE  FileType'
  BY DEF FileType, Append, Truncate, TailBytes

\* So does a sync.
LEMMA SyncType == ASSUME FileType, Sync PROVE FileType'
  BY DEF FileType, Sync, file

\* So does a write cut short, wherever the call is.
LEMMA ShortWriteType == ASSUME FileType, ControlType, ShortWrite PROVE FileType'
  <1>1. CASE pc = "writeIntent" /\ intent = "zeros" /\ SetIntent("head")
    BY <1>1, SetIntentType DEF IntentBytes
  <1>2. CASE pc \in {"clearIntent", "clearFound", "restoreIntent"} /\ intent # "zeros" /\ SetIntent("torn")
    BY <1>2, SetIntentType DEF IntentBytes
  <1>3. CASE pc = "append" /\ Append("cut")
    BY <1>3, TailType DEF TailBytes
  <1>4. CASE pc = "patch" /\ SetZone(k, "torn")
    BY <1>4, SetZoneType DEF ControlType, ZoneBytes
  <1>5. CASE pc = "restore" /\ zone[k] # "before" /\ SetZone(k, "torn")
    BY <1>5, SetZoneType DEF ControlType, ZoneBytes
  <1> QED BY <1>1, <1>2, <1>3, <1>4, <1>5 DEF ShortWrite

\* So does a power cut.
LEMMA PowerCutType == ASSUME FileType, PowerCut PROVE FileType'
  BY DEF FileType, PowerCut

\* Nothing written: nothing changed.
LEMMA SameFileType == ASSUME FileType, UNCHANGED <<file, medium>> PROVE FileType'
  BY DEF FileType, file, medium

\* Every step keeps the types of the file and of the medium.
LEMMA FileTypeStep == ASSUME FileType, ControlType, [Next]_vars PROVE FileType'
  <1> USE DEF Goto
  <1>1. ASSUME NEW call \in {"patch", "recover"}, Begin(call) PROVE FileType'
    BY <1>1, SameFileType DEF Begin
  <1>2. CASE Recovery
    <2>1. CASE ReadJournal \/ FindIntent BY <2>1, SameFileType DEF ReadJournal, FindIntent
    <2>2. CASE CutToIntent BY <2>2, TailType DEF CutToIntent, TailBytes
    <2>3. CASE ClearFound BY <2>3, SetIntentType DEF ClearFound, IntentBytes
    <2>4. CASE SyncRecovery BY <2>4, SyncType DEF SyncRecovery
    <2> QED BY <1>2, <2>1, <2>2, <2>3, <2>4 DEF Recovery
  <1>3. CASE Patching
    <2>1. CASE Scan BY <2>1 DEF Scan, RecordFits, FileType, file, medium, TailBytes
    <2>2. CASE WriteIntent \/ ClearIntent
      BY <2>2, SetIntentType DEF WriteIntent, ClearIntent, IntentBytes
    <2>3. CASE SyncIntent \/ SyncJournal \/ SyncPatches \/ SyncCleared \/ FinalSync
      BY <2>3, SyncType DEF SyncIntent, SyncJournal, SyncPatches, SyncCleared, FinalSync
    <2>4. CASE AppendTail \/ Commit
      BY <2>4, TailType DEF AppendTail, Commit, FinalTail, TailBytes
    <2>5. CASE ApplyPatch BY <2>5, SetZoneType DEF ApplyPatch, ControlType, ZoneBytes
    <2>6. CASE Verify \/ EmitRollback BY <2>6, SameFileType DEF Verify, EmitRollback
    <2> QED BY <1>3, <2>1, <2>2, <2>3, <2>4, <2>5, <2>6 DEF Patching
  <1>4. CASE Undoing
    <2>1. CASE Restore BY <2>1, SetZoneType DEF Restore, ControlType, ZoneBytes
    <2>2. CASE RestoreIntent BY <2>2, SetIntentType DEF RestoreIntent, IntentBytes
    <2>3. CASE TruncateBack BY <2>3, TailType DEF TruncateBack, TailBytes
    <2>4. CASE SyncBack BY <2>4, SyncType DEF SyncBack
    <2> QED BY <1>4, <2>1, <2>2, <2>3, <2>4 DEF Undoing
  <1>5. CASE Failing
    BY <1>5, ShortWriteType, SameFileType
       DEF Failing, FailRecovering, FailPatching, FailCommitting, FailRollback, Fails
  <1>6. CASE Crash
    BY <1>6, ShortWriteType, SameFileType, PowerCutType DEF Crash
  <1>7. CASE UNCHANGED vars BY <1>7, SameFileType DEF vars
  <1> QED BY <1>1, <1>2, <1>3, <1>4, <1>5, <1>6, <1>7 DEF Next

\* Every step keeps the types of the control state.
LEMMA ControlTypeStep == ASSUME ControlType, [Next]_vars PROVE ControlType'
  <1> USE DEF ControlType, Steps, Answers, Zones
  <1>0. 1 \in Zones OBVIOUS
  <1>1. ASSUME NEW call \in {"patch", "recover"}, Begin(call) PROVE ControlType'
    BY <1>1 DEF Begin
  <1>2. CASE Recovery
    BY <1>0, <1>2 DEF Recovery, ReadJournal, FindIntent, CutToIntent, ClearFound, SyncRecovery,
                Recovered, Goto, Return
  <1>3. CASE Patching
    <2>1. CASE Scan BY <1>0, <2>1 DEF Scan, Goto, Return
    <2>2. CASE ApplyPatch BY <1>0, <2>2 DEF ApplyPatch, NextZone
    <2>3. CASE FinalSync BY <1>0, <2>3 DEF FinalSync, Return
    <2>4. CASE \/ WriteIntent \/ SyncIntent \/ AppendTail \/ SyncJournal \/ SyncPatches
               \/ Verify \/ ClearIntent \/ SyncCleared \/ EmitRollback \/ Commit
      BY <2>4 DEF WriteIntent, SyncIntent, AppendTail, SyncJournal, SyncPatches, Verify,
                  ClearIntent, SyncCleared, EmitRollback, Commit, Goto
    <2> QED BY <1>3, <2>1, <2>2, <2>3, <2>4 DEF Patching
  <1>4. CASE Undoing
    BY <1>0, <1>4 DEF Undoing, Restore, RestoreIntent, TruncateBack, SyncBack, NextZone,
                Recovered, Goto, Return
  <1>5. CASE Failing
    BY <1>0, <1>5 DEF Failing, FailRecovering, FailPatching, FailCommitting, FailRollback, Fails,
                Fault, Rollback, Return
  <1>6. CASE Crash BY <1>0, <1>6 DEF Crash
  <1>7. CASE UNCHANGED vars BY <1>7 DEF vars
  <1> QED BY <1>1, <1>2, <1>3, <1>4, <1>5, <1>6, <1>7 DEF Next

\* The initial state has the types.
LEMMA InitType == Init => FileType /\ ControlType
  <1>1. Init => FileType
    <2> SUFFICES ASSUME Init PROVE FileType OBVIOUS
    <2>1. zone \in [Zones -> ZoneBytes] BY DEF Init, ZoneBytes
    <2>2. mZone \in [Zones -> SUBSET ZoneBytes] BY DEF Init, ZoneBytes
    <2>3. /\ intent \in IntentBytes /\ mIntent \in SUBSET IntentBytes
          /\ tail \in TailBytes /\ mTail \in SUBSET TailBytes
      BY DEF Init, IntentBytes, TailBytes
    <2>4. surplus \in BOOLEAN /\ record \in BOOLEAN BY DEF Init
    <2> QED BY <2>1, <2>2, <2>3, <2>4 DEF FileType
  <1>2. Init => ControlType BY DEF Init, ControlType, Steps, Answers, Zones
  <1> QED BY <1>1, <1>2

\* The file, the medium and the control state of a patch keep their types.
THEOREM TypeCorrect == Spec => []TypeOK
  <1>1. TypeOK <=> FileType /\ ControlType
    BY DEF TypeOK, FileType, ControlType
  <1>2. FileType /\ ControlType /\ [Next]_vars => (FileType /\ ControlType)'
    BY FileTypeStep, ControlTypeStep
  <1> QED BY <1>1, <1>2, InitType, PTL DEF Spec

-----------------------------------------------------------------------------
(* The write-ahead rule. It is not inductive: whether a patch is undone by *)
(* the journal depends on where the call is, and on no intent record being *)
(* left beside a finished file.                                            *)

\* The file between two calls: the rule, and what an intent record may stand beside.
SafeFile ==
    /\ WriteAhead
    /\ ~Unpatched /\ tail # "whole" => NoRecord
    /\ ~record => NoRecord

\* Steps reached only with no patch applied, only behind the whole journal, only once
\* every patch is applied.
BeforeJournal == {"cutToIntent", "clearFound", "syncRecovery", "scan", "writeIntent", "syncIntent",
                  "append", "syncJournal", "restoreIntent", "truncateBack", "syncBack"}
BehindJournal == {"syncJournal", "patch", "syncPatches", "verify", "clearIntent", "syncCleared",
                  "emit", "commit"}
AllApplied    == {"syncPatches", "verify", "clearIntent", "syncCleared", "emit", "commit"}

\* What the file holds when the call is at each step.
Placed ==
    /\ pc = "readJournal" /\ goal = "patch" => Unpatched \/ tail = "whole"
    /\ pc = "findIntent" => tail # "whole" /\ (goal = "patch" => Unpatched)
    /\ pc \in BeforeJournal => Unpatched
    /\ pc \in BehindJournal => tail = "whole"
    /\ pc \in AllApplied => Patched
    /\ pc \in {"syncRecovery", "scan", "syncCleared", "emit", "commit", "truncateBack", "syncBack"}
         => NoRecord
    /\ pc = "finalSync" => Patched /\ tail = FinalTail
    /\ pc = "writeIntent" => record
    /\ pc = "patch" => \A z \in Zones : z < k => zone[z] = "after"
    /\ pc = "restore" => /\ Unpatched \/ tail = "whole"
                         /\ \A z \in Zones : z < k => zone[z] = "before"
    /\ pc \notin {"patch", "restore"} => k = 1

IInv == TypeOK /\ SafeFile /\ Placed

\* A step that changes no byte of the file keeps what is said of the file alone.
LEMMA SafeFileSame == ASSUME SafeFile, UNCHANGED <<job, file>> PROVE SafeFile'
  BY DEF SafeFile, WriteAhead, NoRecord, Unpatched, Patched, FinalTail, file

\* Recovery keeps the invariant: a journal undoes everything, an intent record is acted on
\* only where no patch was applied.
LEMMA RecoveryKeeps ==
    ASSUME IInv, \/ \E call \in {"patch", "recover"} : Begin(call)
                 \/ Recovery
    PROVE  SafeFile' /\ Placed'
  <1> USE DEF IInv, SafeFile, WriteAhead, NoRecord, FinalTail, Unpatched, Patched, Placed, BeforeJournal, BehindJournal,
              AllApplied, Goto, file
  <1>1. ASSUME NEW call \in {"patch", "recover"}, Begin(call) PROVE SafeFile' /\ Placed'
    BY <1>1 DEF Begin, FinalTail
  <1>2. CASE ReadJournal BY <1>2 DEF ReadJournal, Return, TypeOK, Zones
  <1>3. CASE FindIntent BY <1>3 DEF FindIntent, Recovered, TypeOK, IntentBytes
  <1>4. CASE CutToIntent BY <1>4 DEF CutToIntent, Truncate
  <1>5. CASE ClearFound BY <1>5 DEF ClearFound, SetIntent
  <1>6. CASE SyncRecovery BY <1>6 DEF SyncRecovery, Sync, Recovered
  <1> QED BY <1>1, <1>2, <1>3, <1>4, <1>5, <1>6 DEF Recovery

\* The patch keeps it: no zone is written before the journal is behind the file, the
\* intent record is gone before the journal is.
LEMMA PatchingKeeps == ASSUME IInv, Patching PROVE SafeFile' /\ Placed'
  <1> USE DEF IInv, SafeFile, WriteAhead, NoRecord, FinalTail, Unpatched, Patched, Placed, BeforeJournal, BehindJournal,
              AllApplied, Goto, file
  <1>1. CASE Scan BY <1>1 DEF Scan, Return
  <1>2. CASE WriteIntent BY <1>2 DEF WriteIntent, SetIntent
  <1>3. CASE SyncIntent BY <1>3 DEF SyncIntent, Sync
  <1>4. CASE AppendTail BY <1>4 DEF AppendTail, Append
  <1>5. CASE SyncJournal BY <1>5 DEF SyncJournal, Sync, Zones
  <1>6. CASE ApplyPatch BY <1>6 DEF ApplyPatch, SetZone, NextZone, TypeOK, Zones
  <1>7. CASE SyncPatches BY <1>7 DEF SyncPatches, Sync
  <1>8. CASE Verify BY <1>8 DEF Verify
  <1>9. CASE ClearIntent BY <1>9 DEF ClearIntent, SetIntent
  <1>10. CASE SyncCleared BY <1>10 DEF SyncCleared, Sync
  <1>11. CASE EmitRollback BY <1>11 DEF EmitRollback
  <1>12. CASE Commit BY <1>12 DEF Commit, Truncate
  <1>13. CASE FinalSync BY <1>13 DEF FinalSync, Sync, Return
  <1> QED BY <1>1, <1>2, <1>3, <1>4, <1>5, <1>6, <1>7, <1>8, <1>9, <1>10, <1>11, <1>12, <1>13
          DEF Patching

\* A rollback keeps it: the file is cut back only once every zone is restored.
LEMMA UndoingKeeps == ASSUME IInv, Undoing PROVE SafeFile' /\ Placed'
  <1> USE DEF IInv, SafeFile, WriteAhead, NoRecord, FinalTail, Unpatched, Patched, Placed, BeforeJournal, BehindJournal,
              AllApplied, Goto, file
  <1>1. CASE Restore BY <1>1 DEF Restore, SetZone, NextZone, TypeOK, Zones
  <1>2. CASE RestoreIntent BY <1>2 DEF RestoreIntent, SetIntent
  <1>3. CASE TruncateBack BY <1>3 DEF TruncateBack, Truncate
  <1>4. CASE SyncBack BY <1>4 DEF SyncBack, Sync, Return, Recovered
  <1> QED BY <1>1, <1>2, <1>3, <1>4 DEF Undoing

\* A write cut short keeps what is said of the file alone.
LEMMA ShortWriteKeeps == ASSUME IInv, ShortWrite PROVE SafeFile'
  <1> USE DEF IInv, SafeFile, WriteAhead, NoRecord, FinalTail, Unpatched, Patched, Placed, BeforeJournal, BehindJournal,
              AllApplied
  <1>1. CASE pc = "writeIntent" /\ intent = "zeros" /\ SetIntent("head")
    BY <1>1 DEF SetIntent
  <1>2. CASE pc \in {"clearIntent", "clearFound", "restoreIntent"} /\ intent # "zeros" /\ SetIntent("torn")
    BY <1>2 DEF SetIntent
  <1>3. CASE pc = "append" /\ Append("cut") BY <1>3 DEF Append
  <1>4. CASE pc = "patch" /\ SetZone(k, "torn") BY <1>4 DEF SetZone
  <1>5. CASE pc = "restore" /\ zone[k] # "before" /\ SetZone(k, "torn")
    BY <1>5 DEF SetZone, TypeOK
  <1> QED BY <1>1, <1>2, <1>3, <1>4, <1>5 DEF ShortWrite

\* An error keeps it: a patch that fails is rolled back from behind the journal or with
\* nothing applied, every other call just ends.
LEMMA FailingKeeps == ASSUME IInv, Failing PROVE SafeFile' /\ Placed'
  <1>1. SafeFile'
    BY SafeFileSame, ShortWriteKeeps
       DEF IInv, Failing, FailRecovering, FailPatching, FailCommitting, FailRollback, Fails,
           Rollback, Return, file
  <1>2. CASE FailRecovering \/ FailCommitting \/ FailRollback
    BY <1>1, <1>2 DEF FailRecovering, FailCommitting, FailRollback, Return, Placed,
                      BeforeJournal, BehindJournal, AllApplied
  <1>3. CASE FailPatching
    <2>1. Unpatched' \/ tail' = "whole"
      <3> USE DEF PatchSteps, IInv, Placed, BeforeJournal, BehindJournal, Unpatched
      <3>1. CASE UNCHANGED file BY <1>3, <3>1 DEF FailPatching, file
      <3>2. CASE ShortWrite
        BY <1>3, <3>2 DEF FailPatching, ShortWrite, SetIntent, Append, SetZone
      <3> QED BY <1>3, <3>1, <3>2 DEF FailPatching, Fails, file
    <2>2. pc' = "restore" /\ k' = 1 BY <1>3 DEF FailPatching, Rollback
    <2> QED BY <1>1, <2>1, <2>2 DEF Placed, BeforeJournal, BehindJournal, AllApplied, Zones
  <1> QED BY <1>1, <1>2, <1>3 DEF Failing

\* A crash that does not reorder writes keeps it.
LEMMA CrashKeeps == ASSUME IInv, Crash, CrashModel # "power" PROVE SafeFile' /\ Placed'
  <1>1. SafeFile' BY SafeFileSame, ShortWriteKeeps DEF IInv, Crash, file
  <1>2. Placed' BY DEF Crash, Placed, BeforeJournal, BehindJournal, AllApplied
  <1> QED BY <1>1, <1>2

\* It holds at first.
LEMMA InitIInv == Init => IInv
  <1>1. Init => TypeOK BY InitType DEF TypeOK, FileType, ControlType
  <1>2. Init => SafeFile /\ Placed
    BY DEF Init, SafeFile, WriteAhead, NoRecord, Unpatched, Placed, BeforeJournal, BehindJournal, AllApplied
  <1> QED BY <1>1, <1>2 DEF IInv

\* Every step keeps it, unless the crashes may reorder writes.
LEMMA NextIInv == ASSUME CrashModel # "power" PROVE IInv /\ [Next]_vars => IInv'
  <1> SUFFICES ASSUME IInv, [Next]_vars PROVE IInv' OBVIOUS
  <1>1. TypeOK'
    <2>1. TypeOK <=> FileType /\ ControlType BY DEF TypeOK, FileType, ControlType
    <2>2. FileType' /\ ControlType'
      BY <2>1, FileTypeStep, ControlTypeStep DEF IInv
    <2> QED BY <2>2 DEF TypeOK, FileType, ControlType
  <1>2. SafeFile' /\ Placed'
    <2>1. CASE UNCHANGED vars
      BY <2>1, SafeFileSame DEF vars, file, IInv, Placed, NoRecord, FinalTail, Unpatched, Patched
    <2> QED BY <2>1, RecoveryKeeps, PatchingKeeps, UndoingKeeps, FailingKeeps, CrashKeeps DEF Next
  <1> QED BY <1>1, <1>2 DEF IInv

\* Short of a power cut that reorders writes, through any number of crashes, torn writes,
\* failing calls and aborted rollbacks: a file with a patched or torn byte ends with the
\* whole journal that undoes it, or is the finished file.
THEOREM WriteAheadHolds == ASSUME CrashModel # "power" PROVE Spec => []WriteAhead
  <1>1. IInv => WriteAhead BY DEF IInv, SafeFile
  <1> QED BY InitIInv, NextIInv, <1>1, PTL DEF Spec

-----------------------------------------------------------------------------
(* The patch is atomic for its caller. *)

\* The invariant holds throughout.
LEMMA IInvHolds == ASSUME CrashModel # "power" PROVE Spec => []IInv
  BY InitIInv, NextIInv, PTL DEF Spec

\* The file stands for one content or the other, never for a lost one.
LEMMA ContentIs ==
    ASSUME IInv
    PROVE  /\ Content = IF Patched /\ tail = FinalTail THEN "finished" ELSE "original"
           /\ Unpatched \/ tail = "whole" => Content = "original"
  BY DEF IInv, SafeFile, WriteAhead, Content, Unpatched, Patched, FinalTail, Zones

\* What is asked for does not change.
LEMMA JobKept == ASSUME [Next]_vars PROVE job' = job
  <1>1. ASSUME NEW call \in {"patch", "recover"}, Begin(call) PROVE job' = job
    BY <1>1 DEF Begin
  <1>2. CASE Recovery \/ Undoing
    BY <1>2 DEF Recovery, ReadJournal, FindIntent, CutToIntent, ClearFound, SyncRecovery, Undoing,
          Restore, RestoreIntent, TruncateBack, SyncBack, NextZone, Recovered, Goto, Return
  <1>3. CASE Patching
    BY <1>3 DEF Patching, Scan, WriteIntent, SyncIntent, AppendTail, SyncJournal, ApplyPatch,
          SyncPatches, Verify, ClearIntent, SyncCleared, EmitRollback, Commit, FinalSync, Goto,
          NextZone, Return
  <1>4. CASE Failing \/ Crash
    BY <1>4 DEF Failing, FailRecovering, FailPatching, FailCommitting, FailRollback, Crash,
          Rollback, Return
  <1> QED BY <1>1, <1>2, <1>3, <1>4 DEF Next, vars

\* A step that writes nothing, or writes only while no patch is applied or behind the
\* journal, changes nothing of what the file stands for.
LEMMA ContentKept ==
    ASSUME IInv, IInv', [Next]_vars,
           \/ UNCHANGED file
           \/ (Unpatched \/ tail = "whole") /\ (Unpatched' \/ tail' = "whole")
    PROVE  Content' = Content
  <1>1. CASE UNCHANGED file BY <1>1, JobKept DEF Content, Patched, Unpatched, FinalTail, file
  <1>2. CASE (Unpatched \/ tail = "whole") /\ (Unpatched' \/ tail' = "whole")
    BY <1>2 DEF Content, Unpatched, Patched, FinalTail, Zones
  <1> QED BY <1>1, <1>2

\* Recovery and rollback never change what the file stands for.
LEMMA RecoveryContent ==
    ASSUME IInv, IInv', [Next]_vars,
                        \/ \E call \in {"patch", "recover"} : Begin(call)
                        \/ Recovery \/ Undoing
    PROVE  Content' = Content
  <1> USE ContentKept
  <1>1. CASE \/ \E call \in {"patch", "recover"} : Begin(call)
             \/ ReadJournal \/ FindIntent \/ SyncRecovery \/ SyncBack
    BY <1>1 DEF Begin, ReadJournal, FindIntent, SyncRecovery, SyncBack, Sync, file
  <1>2. CASE CutToIntent \/ ClearFound \/ RestoreIntent \/ TruncateBack
    BY <1>2 DEF CutToIntent, ClearFound, RestoreIntent, TruncateBack, Truncate, SetIntent, IInv,
                Placed, BeforeJournal, Unpatched
  <1>3. CASE Restore
    <2>1. Unpatched \/ tail = "whole" BY <1>3 DEF Restore, IInv, Placed
    <2>2. Unpatched' \/ tail' = "whole"
      BY <1>3, <2>1 DEF Restore, SetZone, Unpatched, IInv, TypeOK
    <2> QED BY <2>1, <2>2
  <1> QED BY <1>1, <1>2, <1>3 DEF Recovery, Undoing

\* Neither does any step of the patch but the commit.
LEMMA PatchingContent ==
    ASSUME IInv, IInv', [Next]_vars, Patching, ~Commit
    PROVE  Content' = Content
  <1> USE ContentKept
  <1>1. CASE \/ SyncIntent \/ SyncJournal \/ SyncPatches \/ SyncCleared \/ FinalSync
             \/ Verify \/ EmitRollback
    BY <1>1 DEF SyncIntent, SyncJournal, SyncPatches, SyncCleared, FinalSync, Sync, Verify,
                EmitRollback, file
  <1>2. CASE Scan \/ WriteIntent \/ AppendTail
    BY <1>2 DEF Scan, WriteIntent, AppendTail, SetIntent, Append, IInv, Placed, BeforeJournal,
                Unpatched, file
  <1>3. CASE ApplyPatch \/ ClearIntent
    BY <1>3 DEF ApplyPatch, ClearIntent, SetZone, SetIntent, IInv, Placed, BehindJournal
  <1> QED BY <1>1, <1>2, <1>3 DEF Patching

\* Neither does a write cut short.
LEMMA ShortWriteContent == ASSUME IInv, IInv', [Next]_vars, ShortWrite PROVE Content' = Content
  <1> USE ContentKept DEF IInv, Placed, BeforeJournal, BehindJournal
  <1>1. CASE pc \in {"writeIntent", "clearFound", "restoreIntent"}
    BY <1>1 DEF ShortWrite, SetIntent, Unpatched
  <1>2. CASE pc \in {"clearIntent", "patch"} BY <1>2 DEF ShortWrite, SetIntent, SetZone
  <1>3. CASE pc = "append" BY <1>3 DEF ShortWrite, Append, Unpatched
  <1>4. CASE pc = "restore"
    BY <1>4 DEF ShortWrite, SetZone, Unpatched, TypeOK
  <1> QED BY <1>1, <1>2, <1>3, <1>4 DEF ShortWrite

\* Neither does an error or a crash.
LEMMA FailureContent ==
    ASSUME IInv, IInv', [Next]_vars, Failing \/ Crash, CrashModel # "power"
    PROVE  Content' = Content
  BY ShortWriteContent, ContentKept
     DEF Failing, FailRecovering, FailPatching, FailCommitting, FailRollback, Fails, Crash

\* Short of a power cut that reorders writes, the journaled patch implements the atomic
\* one: the file stands for the original until the truncate that drops the journal and
\* for the finished content from there on, and what a call replies is true of it.
THEOREM PatchIsAtomic == ASSUME CrashModel # "power" PROVE Spec => AtomicSpec
  <1> USE DEF Reply
  <1>1. Init => Abstract!Init
    BY DEF Init, Abstract!Init, Content, Patched, Unpatched, FinalTail, Zones
  <1>2. IInv /\ IInv' /\ [Next]_vars => [Abstract!Next]_(Abstract!vars)
    <2> SUFFICES ASSUME IInv, IInv', [Next]_vars PROVE [Abstract!Next]_(Abstract!vars)
      OBVIOUS
    <2> USE DEF Abstract!Next, Abstract!vars, Abstract!Lose, Abstract!Commit, Abstract!Succeed,
                Abstract!Undo, Abstract!GiveUp
    <2>1. CASE \E call \in {"patch", "recover"} : Begin(call)
      <3>1. Content' = Content BY <2>1, RecoveryContent
      <3>2. told' \in {told, "none"} BY <2>1 DEF Begin
      <3> QED BY <3>1, <3>2
    <2>2. CASE Recovery
      <3>1. Content' = Content BY <2>2, RecoveryContent
      <3>2. told' \in {told, "refused"}
        BY <2>2 DEF Recovery, ReadJournal, FindIntent, CutToIntent, ClearFound, SyncRecovery,
                    Recovered, Goto, Return
      <3> QED BY <3>1, <3>2
    <2>3. CASE Commit
      <3>1. told' = told BY <2>3 DEF Commit, Goto
      <3>2. Content = "original"
        BY <2>3, ContentIs DEF Commit, IInv, Placed, BehindJournal
      <3>3. Content' = "finished"
        BY <2>3 DEF Commit, Truncate, Goto, Content, Patched, FinalTail, IInv, Placed, AllApplied
      <3> QED BY <3>1, <3>2, <3>3
    <2>4. CASE Patching /\ ~Commit
      <3>1. Content' = Content BY <2>4, PatchingContent
      <3>2. CASE FinalSync
        <4>1. Content = "finished"
          BY <3>2 DEF FinalSync, IInv, Placed, Content
        <4>2. told' \in {told, "done"} BY <3>2 DEF FinalSync, Return
        <4> QED BY <3>1, <4>1, <4>2
      <3>3. CASE ~FinalSync
        <4>1. told' \in {told, "refused"}
          BY <2>4, <3>3 DEF Patching, Scan, WriteIntent, SyncIntent, AppendTail, SyncJournal,
                ApplyPatch, SyncPatches, Verify, ClearIntent, SyncCleared, EmitRollback, Goto,
                NextZone, Return
        <4> QED BY <3>1, <4>1
      <3> QED BY <3>2, <3>3
    <2>5. CASE Undoing
      <3>1. Content' = Content BY <2>5, RecoveryContent
      <3>2. CASE SyncBack
        <4>1. Content = "original"
          BY <3>2, ContentIs DEF SyncBack, IInv, Placed, BeforeJournal
        <4>2. told' \in {told, "restored"} BY <3>2 DEF SyncBack, Return, Recovered, Goto
        <4> QED BY <3>1, <4>1, <4>2
      <3>3. CASE ~SyncBack
        <4>1. told' = told
          BY <2>5, <3>3 DEF Undoing, Restore, RestoreIntent, TruncateBack, NextZone, Goto
        <4> QED BY <3>1, <4>1
      <3> QED BY <3>2, <3>3
    <2>6. CASE Failing \/ Crash
      <3>1. Content' = Content BY <2>6, FailureContent
      <3>2. told' \in {told, "none", "refused", "uncommitted", "stuck"}
        BY <2>6 DEF Failing, FailRecovering, FailPatching, FailCommitting, FailRollback, Crash,
                    Rollback, Return
      <3> QED BY <3>1, <3>2
    <2>7. CASE UNCHANGED vars
      <3>1. Content' = Content BY <2>7 DEF vars, file, Content, Patched, Unpatched, FinalTail
      <3> QED BY <2>7, <3>1 DEF vars
    <2> QED BY <2>1, <2>2, <2>3, <2>4, <2>5, <2>6, <2>7 DEF Next
  <1> QED BY <1>1, <1>2, IInvHolds, PTL DEF Spec, AtomicSpec, Abstract!Spec
-----------------------------------------------------------------------------
(* The write barrier and the answers, which are about the medium: what a   *)
(* sync settled stays settled up to the step that relies on it.            *)

\* What is on the medium at each step of a patch, and where a call may be while an
\* earlier answer stands: in a recovery that finds nothing to do.
OnMedium ==
    /\ pc \in {"patch", "syncPatches", "verify", "clearIntent", "syncCleared", "emit"} => mTail = {"whole"}
    /\ pc \in {"verify", "clearIntent", "syncCleared", "emit", "commit", "finalSync"}
         => \A z \in Zones : mZone[z] = {"after"}
    /\ pc \in {"verify", "emit", "commit", "finalSync"} => mIntent = {intent}
    /\ pc = "finalSync" => NoRecord
    /\ pc = "syncBack" => tail = "none"
    /\ told \in {"done", "restored"} =>
         /\ pc \in {"idle", "readJournal", "findIntent"}
         /\ pc # "idle" => goal = "recover"

Answered == OnMedium /\ AnswersHold

\* A sync leaves on the medium what is read back, and only that.
LEMMA SyncIsDurable == ASSUME Sync PROVE Durable'
  BY DEF Sync, Durable, file

\* A step of a call that answers nothing forgets no answer the file still bears.
LEMMA AnswersSame ==
    ASSUME AnswersHold, UNCHANGED <<job, file, medium, told>> PROVE AnswersHold'
  BY DEF AnswersHold, Patched, Unpatched, NoRecord, FinalTail, Durable, file, medium

\* Recovery keeps it: while an answer stands there is nothing to recover.
LEMMA RecoveryAnswered ==
    ASSUME IInv, Answered, \/ \E call \in {"patch", "recover"} : Begin(call)
                           \/ Recovery
    PROVE  Answered'
  <1> USE DEF IInv, Answered, OnMedium
  <1>1. ASSUME NEW call \in {"patch", "recover"}, Begin(call) PROVE Answered'
    <2>1. CASE call = "patch" BY <1>1, <2>1 DEF Begin, AnswersHold
    <2>2. CASE call = "recover" BY <1>1, <2>2, AnswersSame DEF Begin
    <2> QED BY <2>1, <2>2
  <1>2. CASE ReadJournal
    <2>1. CASE told \in {"done", "restored"}
      <3>1. tail \in {"none", "lead"} BY <2>1 DEF AnswersHold, FinalTail
      <3> QED BY <1>2, <2>1, <3>1, AnswersSame DEF ReadJournal, Goto, Return
    <2>2. CASE told \notin {"done", "restored"}
      BY <1>2, <2>2 DEF ReadJournal, Goto, Return, AnswersHold
    <2> QED BY <2>1, <2>2
  <1>3. CASE FindIntent
    <2>1. CASE told \in {"done", "restored"}
      <3>1. NoRecord BY <2>1 DEF AnswersHold
      <3> QED BY <1>3, <2>1, <3>1, AnswersSame DEF FindIntent, Recovered, NoRecord
    <2>2. CASE told \notin {"done", "restored"}
      BY <1>3, <2>2 DEF FindIntent, Recovered, Goto, AnswersHold
    <2> QED BY <2>1, <2>2
  <1>4. CASE CutToIntent BY <1>4 DEF CutToIntent, Goto, AnswersHold
  <1>5. CASE ClearFound BY <1>5 DEF ClearFound, Goto, AnswersHold
  <1>6. CASE SyncRecovery BY <1>6 DEF SyncRecovery, Recovered, Goto, AnswersHold
  <1> QED BY <1>1, <1>2, <1>3, <1>4, <1>5, <1>6 DEF Recovery

\* The patch keeps it: each barrier settles what the steps after it rely on, and the
\* last one what is answered.
LEMMA PatchingAnswered == ASSUME IInv, Answered, Patching PROVE Answered'
  <1> USE DEF IInv, Placed, BeforeJournal, BehindJournal, AllApplied, Answered, OnMedium, Goto
  <1>1. CASE Scan BY <1>1 DEF Scan, Return, AnswersHold
  <1>2. CASE WriteIntent BY <1>2 DEF WriteIntent, AnswersHold
  <1>3. CASE SyncIntent BY <1>3 DEF SyncIntent, AnswersHold
  <1>4. CASE AppendTail BY <1>4 DEF AppendTail, AnswersHold
  <1>5. CASE SyncJournal BY <1>5 DEF SyncJournal, Sync, AnswersHold, file
  <1>6. CASE ApplyPatch BY <1>6 DEF ApplyPatch, SetZone, NextZone, AnswersHold
  <1>7. CASE SyncPatches BY <1>7 DEF SyncPatches, Sync, Patched, AnswersHold, file
  <1>8. CASE Verify BY <1>8 DEF Verify, AnswersHold, file, medium
  <1>9. CASE ClearIntent BY <1>9 DEF ClearIntent, SetIntent, AnswersHold
  <1>10. CASE SyncCleared BY <1>10 DEF SyncCleared, Sync, Patched, AnswersHold, file
  <1>11. CASE EmitRollback BY <1>11 DEF EmitRollback, NoRecord, AnswersHold, file, medium
  <1>12. CASE Commit BY <1>12 DEF Commit, Truncate, NoRecord, AnswersHold
  <1>13. CASE FinalSync
    <2>1. Durable' BY <1>13, SyncIsDurable DEF FinalSync
    <2>2. Patched' /\ NoRecord' /\ (tail = FinalTail)'
      BY <1>13 DEF FinalSync, Sync, Return, Patched, NoRecord, FinalTail, file
    <2>3. pc' = "idle" /\ told' \in {told, "done"} /\ told \notin {"done", "restored"}
      BY <1>13 DEF FinalSync, Return
    <2> QED BY <2>1, <2>2, <2>3 DEF AnswersHold
  <1> QED BY <1>1, <1>2, <1>3, <1>4, <1>5, <1>6, <1>7, <1>8, <1>9, <1>10, <1>11, <1>12, <1>13
          DEF Patching

\* A rollback keeps it: "restored" is answered behind its own sync.
LEMMA UndoingAnswered == ASSUME IInv, Answered, Undoing PROVE Answered'
  <1> USE DEF IInv, Placed, BeforeJournal, BehindJournal, AllApplied, Answered, OnMedium, Goto
  <1>1. CASE Restore BY <1>1 DEF Restore, NextZone, AnswersHold
  <1>2. CASE RestoreIntent BY <1>2 DEF RestoreIntent, AnswersHold
  <1>3. CASE TruncateBack BY <1>3 DEF TruncateBack, Truncate, AnswersHold
  <1>4. CASE SyncBack
    <2>1. Durable' BY <1>4, SyncIsDurable DEF SyncBack
    <2>2. Unpatched' /\ NoRecord' /\ tail' = "none"
      BY <1>4 DEF SyncBack, Sync, Unpatched, NoRecord, file
    <2>3. pc' \in {"idle", "scan"} /\ told' \in {told, "restored"} /\ told \notin {"done", "restored"}
      BY <1>4 DEF SyncBack, Return, Recovered
    <2>4. told' = "restored" => pc' = "idle"
      BY <1>4, <2>3 DEF SyncBack, Return, Recovered
    <2> QED BY <2>1, <2>2, <2>3, <2>4 DEF AnswersHold
  <1> QED BY <1>1, <1>2, <1>3, <1>4 DEF Undoing

\* An error keeps it: it takes the call out of every step the medium is relied on at,
\* and leaves the file alone while an answer stands.
LEMMA FailingAnswered == ASSUME IInv, Answered, Failing PROVE Answered'
  <1> USE DEF Answered, OnMedium
  <1>1. CASE told \in {"done", "restored"}
    <2>1. FailRecovering /\ goal = "recover"
      BY <1>1 DEF Failing, FailPatching, FailCommitting, FailRollback, PatchSteps, CommitSteps, RollbackSteps,
                  FailRecovering, RecoverySteps
    <2>2. UNCHANGED <<file, medium>>
      BY <1>1, <2>1 DEF FailRecovering, Fails, ShortWrite
    <2> QED BY <1>1, <2>1, <2>2, AnswersSame DEF FailRecovering, Return
  <1>2. CASE told \notin {"done", "restored"}
    <2>1. told' \notin {"done", "restored"} /\ pc' \in {"idle", "restore"}
      BY <1>2 DEF Failing, FailRecovering, FailPatching, FailCommitting, FailRollback, Return, Rollback
    <2> QED BY <2>1 DEF AnswersHold
  <1> QED BY <1>1, <1>2

\* A crash that does not reorder writes keeps it.
LEMMA CrashAnswered == ASSUME IInv, Answered, Crash, CrashModel # "power" PROVE Answered'
  <1> USE DEF Answered, OnMedium
  <1>1. pc' = "idle" /\ told' \in {told, "none"} BY DEF Crash
  <1>2. CASE told' \in {"done", "restored"}
    <2>1. pc = "idle" /\ told' = told BY <1>2 DEF Crash
    <2>2. UNCHANGED <<job, file, medium>> BY <2>1 DEF Crash, ShortWrite
    <2> QED BY <1>1, <2>1, <2>2, AnswersSame
  <1>3. CASE told' \notin {"done", "restored"} BY <1>1, <1>3 DEF AnswersHold
  <1> QED BY <1>2, <1>3

\* Every step keeps it.
LEMMA NextAnswered ==
    ASSUME CrashModel # "power" PROVE IInv /\ Answered /\ [Next]_vars => Answered'
  <1> SUFFICES ASSUME IInv, Answered, [Next]_vars PROVE Answered' OBVIOUS
  <1>1. CASE UNCHANGED vars
    <2>1. UNCHANGED <<job, file, medium, told, pc, goal, k>> BY <1>1 DEF vars
    <2> QED BY <2>1, AnswersSame DEF Answered, OnMedium, NoRecord, file, medium
  <1> QED BY <1>1, RecoveryAnswered, PatchingAnswered, UndoingAnswered, FailingAnswered, CrashAnswered DEF Next

\* It holds at first.
LEMMA InitAnswered == Init => Answered
  BY DEF Init, Answered, OnMedium, AnswersHold

\* The write barrier, through any number of crashes that do not reorder writes and of
\* failing calls: no patch is written before the journal that undoes it is on the medium,
\* the journal is not dropped before every patch is, nor beside an intent record.
THEOREM BarrierHolds == ASSUME CrashModel # "power" PROVE Spec => []Barrier
  <1>1. IInv /\ Answered => Barrier
    BY DEF Answered, OnMedium, Barrier, IInv, Placed
  <1> QED BY IInvHolds, InitAnswered, NextAnswered, <1>1, PTL DEF Spec

\* What a patch call answers is true of the medium for as long as the answer stands: after
\* "done" the finished file is durable, after "original file restored" the original.
THEOREM AnswersAreTrue == ASSUME CrashModel # "power" PROVE Spec => []AnswersHold
  <1>1. IInv /\ Answered => AnswersHold BY DEF Answered
  <1> QED BY IInvHolds, InitAnswered, NextAnswered, <1>1, PTL DEF Spec

-----------------------------------------------------------------------------
(* No loss, when a process is only ever killed between two calls: what     *)
(* NoLoss says of a file nobody works on holds at every instant.           *)

\* No write is ever cut short, and no step of the patch finds bytes after the original's end.
Unhurt ==
    /\ faults = 0 /\ intent \in {"zeros", "whole"} /\ tail \in {"none", "lead", "whole"}
    /\ Recoverable
    /\ pc \in {"clearFound", "syncRecovery", "writeIntent", "syncIntent", "append", "syncBack"} => tail = "none"
    /\ pc \in {"findIntent", "cutToIntent", "scan"} => tail # "whole"

LEMMA UnhurtSame == ASSUME Unhurt, UNCHANGED <<job, file, faults>>, pc' = "idle" \/ pc' = pc PROVE Unhurt'
  BY DEF Unhurt, Recoverable, Original, Finished, Unpatched, Patched, FinalTail, file

LEMMA NextUnhurt ==
    ASSUME CrashModel = "kill", MaxFaults = 0 PROVE IInv /\ Unhurt /\ [Next]_vars => Unhurt'
  <1> SUFFICES ASSUME IInv, Unhurt, [Next]_vars PROVE Unhurt' OBVIOUS
  <1> USE DEF Unhurt, Recoverable, Original, Finished, Unpatched, Patched, FinalTail, NoRecord, Goto, file
  <1>1. ASSUME NEW call \in {"patch", "recover"}, Begin(call) PROVE Unhurt'
    BY <1>1 DEF Begin
  <1>2. CASE Recovery
    <2>1. CASE ReadJournal BY <2>1 DEF ReadJournal, Return
    <2>2. CASE FindIntent BY <2>2 DEF FindIntent, Recovered
    <2>3. CASE CutToIntent BY <2>3 DEF CutToIntent, Truncate, IInv, Placed, BeforeJournal
    <2>4. CASE ClearFound BY <2>4 DEF ClearFound, SetIntent, IInv, Placed, BeforeJournal
    <2>5. CASE SyncRecovery BY <2>5 DEF SyncRecovery, Sync, Recovered
    <2> QED BY <1>2, <2>1, <2>2, <2>3, <2>4, <2>5 DEF Recovery
  <1>3. CASE Patching
    <2> USE DEF IInv, Placed, BeforeJournal, BehindJournal, AllApplied
    <2>1. CASE Scan
      <3>1. tail = "lead" => job # "retime" BY <2>1
      <3> QED BY <2>1, <3>1 DEF Scan, Return
    <2>2. CASE WriteIntent BY <2>2 DEF WriteIntent, SetIntent
    <2>3. CASE SyncIntent \/ SyncJournal \/ SyncPatches \/ SyncCleared
      BY <2>3 DEF SyncIntent, SyncJournal, SyncPatches, SyncCleared, Sync
    <2>4. CASE AppendTail BY <2>4 DEF AppendTail, Append
    <2>5. CASE ApplyPatch BY <2>5 DEF ApplyPatch, SetZone, NextZone
    <2>6. CASE Verify \/ EmitRollback BY <2>6 DEF Verify, EmitRollback
    <2>7. CASE ClearIntent BY <2>7 DEF ClearIntent, SetIntent
    <2>8. CASE Commit BY <2>8 DEF Commit, Truncate
    <2>9. CASE FinalSync BY <2>9 DEF FinalSync, Sync, Return
    <2> QED BY <1>3, <2>1, <2>2, <2>3, <2>4, <2>5, <2>6, <2>7, <2>8, <2>9 DEF Patching
  <1>4. CASE Undoing
    <2> USE DEF IInv, Placed, BeforeJournal
    <2>1. CASE Restore BY <2>1 DEF Restore, SetZone, NextZone
    <2>2. CASE RestoreIntent BY <2>2 DEF RestoreIntent, SetIntent
    <2>3. CASE TruncateBack BY <2>3 DEF TruncateBack, Truncate
    <2>4. CASE SyncBack BY <2>4 DEF SyncBack, Sync, Return, Recovered
    <2> QED BY <1>4, <2>1, <2>2, <2>3, <2>4 DEF Undoing
  <1>5. ~ Failing
    BY DEF Failing, FailRecovering, FailPatching, FailCommitting, FailRollback, Fails, Fault
  <1>6. CASE Crash BY <1>6, UnhurtSame DEF Crash
  <1>7. CASE UNCHANGED vars BY <1>7, UnhurtSame DEF vars
  <1> QED BY <1>1, <1>2, <1>3, <1>4, <1>5, <1>6, <1>7 DEF Next

\* However often the process is killed between two calls, and on whatever layout: the next
\* recovery brings the original's bytes back, or the file is the finished one.
THEOREM KillsLoseNothing ==
    ASSUME CrashModel = "kill", MaxFaults = 0 PROVE Spec => []NoLoss
  <1>1. Init => Unhurt
    BY DEF Init, Unhurt, Recoverable, Original, Unpatched
  <1>2. Unhurt => NoLoss BY DEF Unhurt, NoLoss
  <1>3. CrashModel # "power" OBVIOUS
  <1>4. Spec => []IInv BY <1>3, IInvHolds
  <1> QED BY <1>1, <1>2, <1>4, NextUnhurt, PTL DEF Spec

-----------------------------------------------------------------------------
(* No loss of a reindex with an intent record, through one crash in the    *)
(* middle of any write or one failing call.                                *)

\* What holds of a reindex until a second call fails or dies: an intent record is always one
\* the journal knows of, and each step finds the file as the step before it left it.
Once ==
    job = "reindex" /\ crashes + faults <= 1 =>
      /\ ~surplus /\ (intent # "zeros" => record)
      /\ pc \in {"idle", "readJournal", "findIntent"} => Recoverable
      /\ pc \in {"clearFound", "syncRecovery", "scan", "writeIntent", "syncIntent", "append", "syncBack"}
           => tail = "none"
      /\ pc \in {"syncRecovery", "scan", "writeIntent", "syncCleared", "emit", "commit", "finalSync",
                "truncateBack", "syncBack"} => intent = "zeros"
      /\ pc \in {"syncIntent", "append"} => intent = "whole"
      /\ pc = "clearIntent" => record
      /\ crashes + faults = 0 =>
           /\ pc \notin {"cutToIntent", "clearFound", "syncRecovery", "restore", "restoreIntent",
                         "truncateBack", "syncBack"}
           /\ pc \in {"idle", "readJournal", "findIntent"} => Original \/ Finished

\* The file may be given back to whoever looks at it next.
LEMMA OriginalIsRecoverable == Original \/ Finished => Recoverable
  BY DEF Recoverable, Original, Finished

\* A call that starts, and recovery, while at most one call failed or died.
LEMMA RecoveryOnce ==
    ASSUME IInv, Once, \/ \E call \in {"patch", "recover"} : Begin(call)
                       \/ Recovery
    PROVE  Once'
  <1> USE DEF IInv, Placed, Goto, Once
  <1>1. ASSUME NEW call \in {"patch", "recover"}, Begin(call) PROVE Once'
    <2>1. UNCHANGED <<job, file, crashes, faults>> /\ pc = "idle" /\ pc' = "readJournal"
      BY <1>1 DEF Begin
    <2> QED BY <2>1 DEF Recoverable, Original, Finished, Unpatched, Patched, FinalTail, file
  <1>2. CASE ReadJournal
    <2>1. UNCHANGED <<job, file, crashes>> /\ faults' = faults /\ pc = "readJournal"
      BY <1>2 DEF ReadJournal, Return
    <2>2. pc' \in {"restore", "idle", "findIntent"}
      BY <1>2 DEF ReadJournal, Return
    <2>3. crashes + faults = 0 /\ job = "reindex" => pc' \in {"idle", "findIntent"}
      BY <1>2, <2>1 DEF ReadJournal, Return, Original, Finished, FinalTail
    <2> QED
      BY <2>1, <2>2, <2>3 DEF Recoverable, Original, Finished, Unpatched, Patched, FinalTail, file
  <1>3. CASE FindIntent
    <2>1. UNCHANGED <<job, file, crashes, faults>> /\ pc = "findIntent"
      BY <1>3 DEF FindIntent, Recovered
    <2>2. (Recoverable \/ Original \/ Finished <=> (Recoverable \/ Original \/ Finished)')
          /\ (Original \/ Finished <=> (Original \/ Finished)') /\ (Recoverable <=> Recoverable')
      BY <2>1 DEF Recoverable, Original, Finished, Unpatched, Patched, FinalTail, file
    <2>3. CASE intent = "whole"
      <3>1. pc' = IF tail = "none" THEN "clearFound" ELSE "cutToIntent" BY <1>3, <2>3 DEF FindIntent
      <3>2. job = "reindex" /\ crashes + faults <= 1 => crashes + faults # 0
        BY <2>1, <2>3 DEF Original, Finished
      <3> QED BY <2>1, <3>1, <3>2 DEF file
    <2>4. CASE intent = "head"
      <3>1. pc' = "clearFound" BY <1>3, <2>4 DEF FindIntent
      <3>2. job = "reindex" /\ crashes + faults <= 1 => crashes + faults # 0 /\ tail = "none"
        BY <2>1, <2>4 DEF Original, Finished, Recoverable
      <3> QED BY <2>1, <3>1, <3>2 DEF file
    <2>5. CASE intent \in {"zeros", "torn"}
      <3>1. pc' = IF goal = "patch" THEN "scan" ELSE "idle" BY <1>3, <2>5 DEF FindIntent, Recovered
      <3>2. job = "reindex" /\ crashes + faults <= 1 /\ goal = "patch" => tail = "none" /\ intent = "zeros"
        BY <2>1, <2>5 DEF Original, Finished, Recoverable, Unpatched, Patched, Zones
      <3> QED BY <2>1, <2>2, <3>1, <3>2 DEF file
    <2> QED BY <2>3, <2>4, <2>5, <1>3 DEF FindIntent
  <1>4. CASE CutToIntent BY <1>4 DEF CutToIntent, Truncate
  <1>5. CASE ClearFound BY <1>5 DEF ClearFound, SetIntent
  <1>6. CASE SyncRecovery
    <2>1. UNCHANGED <<job, file, crashes, faults>> /\ pc = "syncRecovery" /\ pc' \in {"scan", "idle"}
      BY <1>6 DEF SyncRecovery, Sync, Recovered
    <2>2. job = "reindex" /\ crashes + faults <= 1 => Original'
      BY <2>1 DEF Original, BeforeJournal, Unpatched, file
    <2> QED BY <2>1, <2>2 DEF Recoverable, file, Original
  <1> QED BY <1>1, <1>2, <1>3, <1>4, <1>5, <1>6 DEF Recovery

\* So does the patch: the record is there before the append, and gone before the journal.
LEMMA PatchingOnce == ASSUME IInv, Once, Patching PROVE Once'
  <1> USE DEF IInv, Placed, Goto, Once
  <1>1. CASE Scan BY <1>1 DEF Scan, Return, RecordFits
  <1>2. CASE WriteIntent BY <1>2 DEF WriteIntent, SetIntent
  <1>3. CASE SyncIntent \/ SyncJournal \/ SyncPatches \/ SyncCleared
    BY <1>3 DEF SyncIntent, SyncJournal, SyncPatches, SyncCleared, Sync, file
  <1>4. CASE AppendTail BY <1>4 DEF AppendTail, Append
  <1>5. CASE ApplyPatch BY <1>5 DEF ApplyPatch, SetZone, NextZone
  <1>6. CASE Verify BY <1>6 DEF Verify, file
  <1>7. CASE ClearIntent BY <1>7 DEF ClearIntent, SetIntent
  <1>8. CASE EmitRollback BY <1>8 DEF EmitRollback, file
  <1>9. CASE Commit BY <1>9 DEF Commit, Truncate
  <1>10. CASE FinalSync
    <2>1. UNCHANGED <<job, file, crashes, faults>> /\ pc = "finalSync" /\ pc' = "idle"
      BY <1>10 DEF FinalSync, Sync, Return
    <2>2. job = "reindex" /\ crashes + faults <= 1 => Finished'
      BY <2>1 DEF Finished, Patched, FinalTail, file
    <2> QED BY <2>1, <2>2 DEF Recoverable, file
  <1> QED BY <1>1, <1>2, <1>3, <1>4, <1>5, <1>6, <1>7, <1>8, <1>9, <1>10 DEF Patching

\* So does a rollback: it takes the record with it.
LEMMA UndoingOnce == ASSUME IInv, Once, Undoing PROVE Once'
  <1> USE DEF IInv, Placed, Goto, Once
  <1>1. CASE Restore BY <1>1 DEF Restore, SetZone, NextZone
  <1>2. CASE RestoreIntent BY <1>2 DEF RestoreIntent, SetIntent
  <1>3. CASE TruncateBack BY <1>3 DEF TruncateBack, Truncate
  <1>4. CASE SyncBack
    <2>1. UNCHANGED <<job, file, crashes, faults>> /\ pc = "syncBack" /\ pc' \in {"scan", "idle"}
      BY <1>4 DEF SyncBack, Sync, Return, Recovered
    <2>2. job = "reindex" /\ crashes + faults <= 1 => Original'
      BY <2>1 DEF Original, BeforeJournal, Unpatched, file
    <2> QED BY <2>1, <2>2 DEF Recoverable, file, Original
  <1> QED BY <1>1, <1>2, <1>3, <1>4 DEF Undoing

\* The first write cut short leaves a file the next recovery brings back.
LEMMA FirstShortWrite ==
    ASSUME IInv, Once, job = "reindex", crashes + faults = 0, ShortWrite
    PROVE  Recoverable' /\ ~surplus' /\ (intent' # "zeros" => record') /\ pc \in PatchSteps
  <1> USE DEF IInv, Placed, BeforeJournal, BehindJournal, Once, Recoverable, PatchSteps
  <1>1. CASE pc = "writeIntent" /\ intent = "zeros" /\ SetIntent("head")
    BY <1>1 DEF SetIntent, Unpatched
  <1>2. CASE pc = "clearIntent" /\ SetIntent("torn") BY <1>2 DEF SetIntent
  <1>3. CASE pc = "append" /\ Append("cut") BY <1>3 DEF Append, Unpatched
  <1>4. CASE pc = "patch" /\ SetZone(k, "torn") BY <1>4 DEF SetZone
  <1> QED BY <1>1, <1>2, <1>3, <1>4 DEF ShortWrite

\* Up to the first crash or failing call, a recovery may come at any step.
LEMMA FirstTime ==
    ASSUME IInv, Once, job = "reindex", crashes + faults = 0 PROVE Recoverable
  <1> USE DEF IInv, Placed, Once
  <1>1. CASE pc \in {"idle", "readJournal", "findIntent"} BY <1>1
  <1>2. CASE pc \in BehindJournal BY <1>2 DEF Recoverable
  <1>3. CASE pc \in {"scan", "writeIntent", "syncIntent", "append"}
    BY <1>3 DEF Recoverable, Original, BeforeJournal
  <1>4. CASE pc = "finalSync" BY <1>4 DEF Recoverable, Finished
  <1> QED BY <1>1, <1>2, <1>3, <1>4 DEF BehindJournal, TypeOK, Steps

\* The file and the count of what went wrong after a call that fails or dies.
LEMMA FirstFailure ==
    ASSUME IInv, Once, Fails \/ (UNCHANGED faults /\ crashes' = crashes + 1 /\ (ShortWrite \/ UNCHANGED file)),
           UNCHANGED job, Fails => UNCHANGED crashes,
           crashes' + faults' <= 1, job = "reindex"
    PROVE  /\ crashes + faults = 0 /\ crashes' + faults' # 0
           /\ Recoverable' /\ ~surplus' /\ (intent' # "zeros" => record')
           /\ pc \notin {"cutToIntent", "clearFound", "syncRecovery", "restore", "restoreIntent",
                         "truncateBack", "syncBack"}
  <1>1. crashes \in Nat /\ faults \in Nat BY DEF IInv, TypeOK
  <1>2. crashes + faults = 0 /\ crashes' + faults' # 0 BY <1>1 DEF Fails, Fault
  <1>3. CASE ShortWrite BY <1>2, <1>3, FirstShortWrite DEF Once
  <1>4. CASE UNCHANGED file
    <2>1. Recoverable BY <1>2, FirstTime
    <2> QED
      BY <1>2, <1>4, <2>1
         DEF Once, Recoverable, Original, Finished, Unpatched, Patched, FinalTail, file
  <1> QED BY <1>2, <1>3, <1>4 DEF Fails

\* The first call that fails keeps it, and so does the first crash.
LEMMA FailureOnce ==
    ASSUME IInv, Once, Failing \/ Crash, CrashModel # "power" PROVE Once'
  <1> SUFFICES ASSUME job' = "reindex", crashes' + faults' <= 1 PROVE Once' BY DEF Once
  <1>1. job = "reindex" /\ UNCHANGED job
    BY DEF Failing, FailRecovering, FailPatching, FailCommitting, FailRollback, Crash, Return, Rollback
  <1>2. CASE Crash
    <2>1. UNCHANGED faults /\ crashes' = crashes + 1 /\ (ShortWrite \/ UNCHANGED file) /\ pc' = "idle"
      BY <1>2 DEF Crash
    <2>2. ~ Fails \/ UNCHANGED crashes
      <3>1. crashes \in Nat /\ faults \in Nat BY DEF IInv, TypeOK
      <3> QED BY <2>1, <3>1 DEF Fails, Fault
    <2>3. Recoverable' /\ ~surplus' /\ (intent' # "zeros" => record') /\ crashes' + faults' # 0
      BY <1>1, <2>1, <2>2, FirstFailure
    <2> QED BY <2>1, <2>3 DEF Once
  <1>3. CASE Failing
    <2>1. Fails /\ UNCHANGED crashes
      BY <1>3 DEF Failing, FailRecovering, FailPatching, FailCommitting, FailRollback, Return, Rollback
    <2>2. /\ Recoverable' /\ ~surplus' /\ (intent' # "zeros" => record') /\ crashes' + faults' # 0
      BY <1>1, <2>1, FirstFailure
    <2>3. pc' \in {"idle", "restore"}
      BY <1>3 DEF Failing, FailRecovering, FailPatching, FailCommitting, FailRollback, Return, Rollback
    <2> QED BY <2>2, <2>3 DEF Once
  <1> QED BY <1>2, <1>3

\* Every step keeps it.
LEMMA NextOnce == ASSUME CrashModel # "power" PROVE IInv /\ Once /\ [Next]_vars => Once'
  <1> SUFFICES ASSUME IInv, Once, [Next]_vars PROVE Once' OBVIOUS
  <1>1. CASE UNCHANGED vars
    BY <1>1 DEF vars, file, Once, Recoverable, Original, Finished, Unpatched, Patched, FinalTail
  <1> QED BY <1>1, RecoveryOnce, PatchingOnce, UndoingOnce, FailureOnce DEF Next

\* One crash in the middle of any write, or one failing call, loses nothing of a file whose
\* head Void has room for an intent record: the next recovery restores it or finds it finished.
THEOREM OneFailureLosesNothing == ASSUME CrashModel # "power" PROVE Spec => []SurvivesOne
  <1>1. Init => Once
    BY DEF Init, Once, Recoverable, Original, Unpatched
  <1>2. Once => SurvivesOne BY DEF Once, SurvivesOne, NoLoss
  <1> QED BY IInvHolds, NextOnce, <1>1, <1>2, PTL DEF Spec
-----------------------------------------------------------------------------
(* Power cuts, when no call fails.                                         *)

\* The steps at which everything is on the medium, and those behind the clearing of an intent record.
Settled == {"idle", "readJournal", "findIntent", "cutToIntent", "scan", "writeIntent", "append"}
Cleared == {"scan", "syncRecovery", "truncateBack", "syncBack", "syncCleared", "emit", "commit", "finalSync"}

\* What each sync settles for the steps behind it, however often the power was cut before: a
\* journal without the intent record's zone stands beside no record, and none comes back.
Steady ==
    /\ goal # "undo" /\ told # "restored"
    /\ pc \notin {"patch", "restore"} => k = 1
    /\ pc \in Settled => Durable
    /\ pc \in Cleared => NoRecord
    /\ pc = "writeIntent" => record
    /\ ~ record => NoRecord /\ mIntent \subseteq {"zeros", "torn"}
    /\ pc \in {"syncJournal", "patch", "syncPatches", "verify", "emit", "commit", "finalSync"} => mIntent = {intent}
    /\ pc \in BehindJournal => tail = "whole"
    /\ pc \in BehindJournal \ {"syncJournal"} => mTail = {"whole"}
    /\ pc = "patch" => \A z \in Zones : z < k => zone[z] = "after"
    /\ pc \in AllApplied => Patched
    /\ pc \in {"verify", "clearIntent", "syncCleared", "emit", "commit", "finalSync"} => \A z \in Zones : mZone[z] = {"after"}
    /\ pc = "finalSync" => Patched /\ tail = FinalTail /\ mTail \subseteq {"whole", FinalTail}
    /\ told = "done" => /\ pc \in {"idle", "readJournal", "findIntent"} /\ (pc # "idle" => goal = "recover")
                        /\ Patched /\ NoRecord /\ tail = FinalTail

LEMMA RecoverySteady ==
    ASSUME TypeOK, Steady, \/ \E call \in {"patch", "recover"} : Begin(call)
                           \/ Recovery
    PROVE  Steady'
  <1> USE DEF Steady, Settled, Cleared, BehindJournal, AllApplied
  <1>1. ASSUME NEW call \in {"patch", "recover"}, Begin(call) PROVE Steady'
    BY <1>1 DEF Begin, Durable, NoRecord, Patched, FinalTail, file, medium
  <1>2. CASE ReadJournal
    BY <1>2 DEF ReadJournal, Goto, Return, Durable, NoRecord, Patched, FinalTail, file, medium, Zones
  <1>3. CASE FindIntent
    BY <1>3 DEF FindIntent, Recovered, Goto, Durable, NoRecord, Patched, FinalTail, file, medium
  <1>4. CASE CutToIntent BY <1>4 DEF CutToIntent, Truncate, Goto, NoRecord
  <1>5. CASE ClearFound BY <1>5 DEF ClearFound, SetIntent, Goto, NoRecord
  <1>6. CASE SyncRecovery
    <2>1. Durable' BY <1>6, SyncIsDurable DEF SyncRecovery
    <2> QED BY <1>6, <2>1 DEF SyncRecovery, Sync, Recovered, Goto, NoRecord, file
  <1> QED BY <1>1, <1>2, <1>3, <1>4, <1>5, <1>6 DEF Recovery

LEMMA PatchingSteady == ASSUME TypeOK, Steady, Patching PROVE Steady'
  <1> USE DEF Steady, Settled, Cleared, BehindJournal, AllApplied, Goto
  <1>1. CASE Scan BY <1>1 DEF Scan, Return, RecordFits, Durable, NoRecord, file, medium
  <1>2. CASE WriteIntent BY <1>2 DEF WriteIntent, SetIntent, NoRecord
  <1>3. CASE SyncIntent
    <2>1. Durable' BY <1>3, SyncIsDurable DEF SyncIntent
    <2> QED BY <1>3, <2>1 DEF SyncIntent, Sync, NoRecord, file
  <1>4. CASE AppendTail BY <1>4 DEF AppendTail, Append, Durable, NoRecord
  <1>5. CASE SyncJournal BY <1>5 DEF SyncJournal, Sync, NoRecord, file, Zones
  <1>6. CASE ApplyPatch BY <1>6 DEF ApplyPatch, SetZone, NextZone, NoRecord, Patched, TypeOK, Zones
  <1>7. CASE SyncPatches BY <1>7 DEF SyncPatches, Sync, Patched, NoRecord, file
  <1>8. CASE Verify BY <1>8 DEF Verify, Patched, NoRecord, file, medium
  <1>9. CASE ClearIntent BY <1>9 DEF ClearIntent, SetIntent, Patched, NoRecord
  <1>10. CASE SyncCleared BY <1>10 DEF SyncCleared, Sync, Patched, NoRecord, file
  <1>11. CASE EmitRollback BY <1>11 DEF EmitRollback, Patched, NoRecord, file, medium
  <1>12. CASE Commit BY <1>12 DEF Commit, Truncate, Patched, NoRecord, FinalTail
  <1>13. CASE FinalSync
    <2>1. Durable' BY <1>13, SyncIsDurable DEF FinalSync
    <2> QED BY <1>13, <2>1 DEF FinalSync, Sync, Return, Patched, NoRecord, FinalTail, file
  <1> QED BY <1>1, <1>2, <1>3, <1>4, <1>5, <1>6, <1>7, <1>8, <1>9, <1>10, <1>11, <1>12, <1>13
          DEF Patching

LEMMA UndoingSteady == ASSUME TypeOK, Steady, Undoing PROVE Steady'
  <1> USE DEF Steady, Settled, Cleared, BehindJournal, AllApplied, Goto
  <1>1. CASE Restore BY <1>1 DEF Restore, SetZone, NextZone, NoRecord
  <1>2. CASE RestoreIntent BY <1>2 DEF RestoreIntent, SetIntent, NoRecord
  <1>3. CASE TruncateBack BY <1>3 DEF TruncateBack, Truncate, NoRecord
  <1>4. CASE SyncBack
    <2>1. Durable' BY <1>4, SyncIsDurable DEF SyncBack
    <2> QED BY <1>4, <2>1 DEF SyncBack, Sync, Recovered, NoRecord, file
  <1> QED BY <1>1, <1>2, <1>3, <1>4 DEF Undoing

\* A power cut leaves on the medium what it leaves; of a call that does not run, all.
LEMMA PowerCutSteady == ASSUME CrashModel = "power", TypeOK, Steady, Crash PROVE Steady'
  <1> USE DEF Steady, Settled, Cleared, BehindJournal, AllApplied
  <1>1. PowerCut /\ pc' = "idle" /\ k' = 1 /\ goal' = "patch" /\ told' = (IF pc = "idle" THEN told ELSE "none")
        /\ job' = job
    BY DEF Crash
  <1>2. Durable' BY <1>1 DEF PowerCut, Durable
  <1>3. ~ record' => NoRecord' /\ mIntent' \subseteq {"zeros", "torn"}
    BY <1>1 DEF PowerCut, NoRecord
  <1>4. CASE pc = "idle"
    <2>1. \A z \in Zones : zone'[z] = zone[z] BY <1>1, <1>4 DEF PowerCut, Durable
    <2>2. intent' = intent /\ tail' = tail BY <1>1, <1>4 DEF PowerCut, Durable
    <2>3. told' = told BY <1>1, <1>4
    <2> QED BY <1>1, <1>2, <1>3, <2>1, <2>2, <2>3 DEF Patched, NoRecord, FinalTail
  <1>5. CASE pc # "idle" BY <1>1, <1>2, <1>3, <1>5
  <1> QED BY <1>4, <1>5

LEMMA NextSteady ==
    ASSUME CrashModel = "power", MaxFaults = 0 PROVE TypeOK /\ Steady /\ [Next]_vars => Steady'
  <1> SUFFICES ASSUME TypeOK, Steady, [Next]_vars PROVE Steady' OBVIOUS
  <1>1. CASE UNCHANGED vars
    BY <1>1 DEF vars, file, medium, Steady, Durable, NoRecord, Patched, FinalTail
  <1>2. ~ Failing
    BY DEF Failing, FailRecovering, FailPatching, FailCommitting, FailRollback, Fails, Fault, TypeOK
  <1> QED BY <1>1, <1>2, RecoverySteady, PatchingSteady, UndoingSteady, PowerCutSteady DEF Next

LEMMA SteadyHolds == ASSUME CrashModel = "power", MaxFaults = 0 PROVE Spec => []Steady
  <1>1. Init => Steady
    BY DEF Init, Steady, Settled, Cleared, BehindJournal, AllApplied, Durable, NoRecord
  <1> QED BY <1>1, NextSteady, TypeCorrect, PTL DEF Spec

\* The write barrier through any number of power cuts that land any of the writes since the
\* last sync, when no call fails: the syncs are where they have to be, and the recovery of
\* each cut puts the file where the next patch can rely on them.
THEOREM BarrierHoldsThroughPowerCuts ==
    ASSUME CrashModel = "power", MaxFaults = 0 PROVE Spec => []Barrier
  <1>1. Steady => Barrier BY DEF Steady, Barrier, BehindJournal, AllApplied, Cleared
  <1> QED BY SteadyHolds, <1>1, PTL

\* "done" means on the disk, through any number of power cuts: no later one takes the Cues away,
\* brings the journal back or an intent record that would cut them off.
THEOREM AnswersSurvivePowerCuts ==
    ASSUME CrashModel = "power", MaxFaults = 0 PROVE Spec => []AnswersHold
  <1>1. Steady => AnswersHold BY DEF Steady, AnswersHold, Settled
  <1> QED BY SteadyHolds, <1>1, PTL

-----------------------------------------------------------------------------
(* The write-ahead rule, through one power cut of a run that does not fail.*)

\* Until the power is cut a run finds nothing to recover, and patches nothing before its journal
\* is on the medium.
Early ==
    crashes = 0 =>
      /\ pc \notin {"cutToIntent", "clearFound", "syncRecovery", "restore", "restoreIntent", "truncateBack", "syncBack"}
      /\ intent \in {"zeros", "whole"}
      /\ pc \in {"idle", "readJournal", "findIntent", "scan"} => intent = "zeros" /\ tail \in {"none", "lead"}
      /\ pc \in {"scan", "writeIntent", "syncIntent", "append", "syncJournal"} => \A z \in Zones : mZone[z] = {"before"}

\* Any step but a crash keeps it.
LEMMA NextEarly ==
    ASSUME IInv, Steady, Early, [Next]_vars, MaxFaults = 0 PROVE Early'
  <1> USE DEF IInv, Early
  <1>1. CASE UNCHANGED vars BY <1>1 DEF vars, file, medium
  <1>2. CASE crashes' # 0 BY <1>2
  <1>3. CASE crashes = 0 /\ ~ UNCHANGED vars
    <2> USE <1>3
    <2>1. ASSUME NEW call \in {"patch", "recover"}, Begin(call) PROVE Early' BY <2>1 DEF Begin, file, medium
    <2>2. CASE Recovery
      <3>1. CASE ReadJournal BY <2>2, <3>1 DEF ReadJournal, Goto, Return, file, medium
      <3>2. CASE FindIntent
        <4>1. pc' = "scan" => Unpatched /\ Durable
          BY <3>2 DEF FindIntent, Recovered, Goto, Placed, Steady, Settled
        <4> QED BY <3>2, <4>1 DEF FindIntent, Recovered, Goto, Unpatched, Durable, file, medium
      <3> QED BY <2>2, <3>1, <3>2 DEF Recovery, CutToIntent, ClearFound, SyncRecovery
    <2>3. CASE Patching
      <3> USE DEF Goto
      <3>1. CASE Scan BY <3>1 DEF Scan, Return, file, medium
      <3>2. CASE WriteIntent BY <3>2 DEF WriteIntent, SetIntent
      <3>3. CASE SyncIntent BY <3>3 DEF SyncIntent, Sync, Placed, BeforeJournal, Unpatched, file
      <3>4. CASE AppendTail BY <3>4 DEF AppendTail, Append
      <3>5. CASE FinalSync
        <4>1. intent' = intent /\ tail' = FinalTail /\ pc' = "idle"
          BY <3>5 DEF FinalSync, Sync, Return, Placed, file
        <4>2. intent = "zeros" BY <3>5 DEF FinalSync, Steady, Cleared, NoRecord
        <4> QED BY <4>1, <4>2 DEF FinalTail
      <3>6. CASE Patching /\ ~ (Scan \/ WriteIntent \/ SyncIntent \/ AppendTail \/ FinalSync)
        BY <3>6 DEF Patching, SyncJournal, ApplyPatch, SyncPatches, Verify, ClearIntent, SyncCleared,
                    EmitRollback, Commit, NextZone, Sync, SetIntent, SetZone, Truncate, file, medium
      <3> QED BY <2>3, <3>1, <3>2, <3>3, <3>4, <3>5, <3>6
    <2>4. ~ Undoing BY DEF Undoing, Restore, RestoreIntent, TruncateBack, SyncBack
    <2>5. ~ Failing
      BY DEF Failing, FailRecovering, FailPatching, FailCommitting, FailRollback, Fails, Fault, TypeOK
    <2>6. CASE Crash BY <2>6 DEF Crash, TypeOK
    <2> QED BY <2>1, <2>2, <2>3, <2>4, <2>5, <2>6 DEF Next
  <1>4. crashes' = 0 => crashes = 0
    BY DEF Next, Begin, Recovery, ReadJournal, FindIntent, CutToIntent, ClearFound, SyncRecovery, Recovered, Patching, Scan,
           WriteIntent, SyncIntent, AppendTail, SyncJournal, ApplyPatch, SyncPatches, Verify, ClearIntent, SyncCleared,
           EmitRollback, Commit, FinalSync, Undoing, Restore, RestoreIntent, TruncateBack, SyncBack, Failing,
           FailRecovering, FailPatching, FailCommitting, FailRollback, Rollback, Goto, Return, NextZone, Crash, TypeOK, vars
  <1> QED BY <1>1, <1>2, <1>3, <1>4

\* A power cut before any other leaves the file unpatched, or the whole journal, or a finished
\* file with no record beside it.
LEMMA FirstPowerCut ==
    ASSUME CrashModel = "power", MaxCrashes <= 1, IInv, Steady, Steady', Early, Crash
    PROVE  SafeFile' /\ Placed'
  <1>1. Placed' BY DEF Crash, Placed, BeforeJournal, BehindJournal, AllApplied
  <1>2. PowerCut /\ UNCHANGED job BY DEF Crash
  <1>3. crashes = 0 BY DEF Crash, IInv, TypeOK
  <1>4. ~ record' => NoRecord' BY DEF Steady
  <1>5. \A z \in Zones : zone'[z] \in mZone[z] BY <1>2 DEF PowerCut
  <1>6. CASE pc \in Settled
    <2>1. Durable BY <1>6 DEF Steady
    <2>2. \A z \in Zones : zone'[z] = zone[z] BY <1>5, <2>1 DEF Durable
    <2>3. UNCHANGED <<intent, tail, record>> BY <1>2, <2>1 DEF PowerCut, Durable
    <2>4. Unpatched' <=> Unpatched BY <2>2 DEF Unpatched
    <2>5. Patched' <=> Patched BY <2>2 DEF Patched
    <2> QED BY <1>1, <1>2, <1>4, <2>3, <2>4, <2>5 DEF IInv, SafeFile, WriteAhead, NoRecord, FinalTail
  <1>7. CASE pc \in {"syncIntent", "syncJournal"}
    <2>1. Unpatched' BY <1>3, <1>5, <1>7 DEF Early, Unpatched
    <2> QED BY <1>1, <1>4, <2>1 DEF SafeFile, WriteAhead
  <1>8. CASE pc \in BehindJournal \ {"syncJournal"}
    <2>1. tail' = "whole" BY <1>2, <1>8 DEF Steady, PowerCut
    <2> QED BY <1>1, <1>4, <2>1 DEF SafeFile, WriteAhead
  <1>9. CASE pc = "finalSync"
    <2>1. Patched' BY <1>5, <1>9 DEF Steady, Patched
    <2>2. tail' \in {"whole", FinalTail'} BY <1>2, <1>9 DEF Steady, PowerCut, FinalTail
    <2>3. NoRecord' BY <1>2, <1>9 DEF Steady, PowerCut, NoRecord, Cleared
    <2> QED BY <1>1, <2>1, <2>2, <2>3 DEF SafeFile, WriteAhead, FinalTail
  <1>10. pc \in Settled \cup {"syncIntent", "syncJournal", "finalSync"} \cup BehindJournal
    BY <1>3 DEF Early, IInv, TypeOK, Steps, Settled, BehindJournal
  <1> QED BY <1>1, <1>6, <1>7, <1>8, <1>9, <1>10

\* Every step of a run with at most one power cut and no failing call keeps the invariant.
LEMMA NextCutOnce ==
    ASSUME CrashModel = "power", MaxCrashes <= 1, MaxFaults = 0
    PROVE  IInv /\ Steady /\ Early /\ [Next]_vars => (IInv /\ Steady /\ Early)'
  <1> SUFFICES ASSUME IInv, Steady, Early, [Next]_vars PROVE (IInv /\ Steady /\ Early)' OBVIOUS
  <1>1. TypeOK /\ TypeOK'
    <2>1. TypeOK <=> FileType /\ ControlType BY DEF TypeOK, FileType, ControlType
    <2>2. FileType' /\ ControlType' BY <2>1, FileTypeStep, ControlTypeStep DEF IInv
    <2> QED BY <2>2 DEF IInv, TypeOK, FileType, ControlType
  <1>2. Steady' BY <1>1, NextSteady
  <1>3. Early' BY NextEarly
  <1>4. SafeFile' /\ Placed'
    <2>1. CASE UNCHANGED vars
      BY <2>1, SafeFileSame DEF vars, file, IInv, Placed, NoRecord, FinalTail, Unpatched, Patched
    <2> QED BY <2>1, <1>2, RecoveryKeeps, PatchingKeeps, UndoingKeeps, FailingKeeps, FirstPowerCut DEF Next
  <1> QED BY <1>1, <1>2, <1>3, <1>4 DEF IInv

\* The write-ahead rule through one power cut that lands any of the writes since the last sync,
\* and through the recovery after it, when no call fails: a file with a patched or torn byte
\* ends with the whole journal that undoes it, or is the finished file.
THEOREM WriteAheadSurvivesOnePowerCut ==
    ASSUME CrashModel = "power", MaxCrashes <= 1, MaxFaults = 0 PROVE Spec => []WriteAhead
  <1>1. Init => Steady
    BY DEF Init, Steady, Settled, Cleared, BehindJournal, AllApplied, Durable, NoRecord
  <1>2. Init => Early BY DEF Init, Early
  <1>3. IInv => WriteAhead BY DEF IInv, SafeFile
  <1> QED BY InitIInv, NextCutOnce, <1>1, <1>2, <1>3, PTL DEF Spec

=============================================================================
