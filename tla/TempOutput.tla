----------------------------- MODULE TempOutput -----------------------------
(***************************************************************************)
(* Runs that aim at one output (mkv/ops/output.go, reindex_replace.go,     *)
(* internal/tmplock): each writes dst.mkvgo.tmp under a flock and renames  *)
(* it onto dst. A run takes a temporary file nobody locks for what a       *)
(* killed run left, and removes it; one that is locked refuses the run.    *)
(*                                                                         *)
(* A file is named by the run that created it, Orig is what dst named at   *)
(* first. tmp, dst and bak are names of the directory; a lock belongs to   *)
(* the file, whatever names it, as flock's does. Every call the code makes *)
(* on a name acts on what the name stands for at that step.                *)
(*                                                                         *)
(* A run writes an output ("write", with Options.SyncOutput "writeSync")   *)
(* or rebuilds dst through a copy ("replace", with KeepBackup "keep").     *)
(***************************************************************************)
EXTENDS Naturals, FiniteSets

CONSTANTS
    Runs,
    Orig, None,
    Kinds,       \* the kinds of run there may be
    PowerCuts,   \* whether the power may fail, and not only processes die
    MaxCrashes,  \* bound: kills and power cuts
    MaxFaults    \* bound: calls that return an error

ASSUME RunsAssumption == Orig \notin Runs /\ None \notin Runs /\ Orig # None
ASSUME KindsAssumption == Kinds \subseteq {"write", "writeSync", "replace", "keep"}
ASSUME BoundsAssumption == PowerCuts \in BOOLEAN /\ MaxCrashes \in Nat /\ MaxFaults \in Nat

VARIABLES
    kind, pc,
    h,         \* the file the run's lock handle has open
    res,       \* what the run will answer, or has
    name,      \* the directory
    lock,      \* who holds the lock of a file
    whole,     \* the files that are written to the end
    synced,    \* those that are on the disk, whole
    medium,    \* what the disk may hold under dst and bak
    stolen,    \* a name was used for a file that no longer was this run's
    unflushed, \* the directory's flush failed after a rename
    crashes, faults

files == <<lock, whole, synced>>
dir   == <<name, medium>>
ghost == <<stolen, unflushed>>
vars  == <<kind, pc, h, res, files, dir, ghost, crashes, faults>>

Files == Runs \cup {Orig}
Names == {"tmp", "dst", "bak"}
Steps == {"new", "lstat", "open", "lock", "remove", "close", "source", "create", "takeOpen",
          "takeLock", "takeCheck", "copy", "flush", "abort", "fail", "check", "backup", "install",
          "restore", "flushDir", "release", "done"}

Replaces(r) == kind[r] \in {"replace", "keep"}
Live(r)     == pc[r] \notin {"new", "done"}
Install(d)  == [dst |-> d["dst"], bak |-> d["bak"]]

Init ==
    /\ kind = [r \in Runs |-> "write"] /\ pc = [r \in Runs |-> "new"]
    /\ h = [r \in Runs |-> None] /\ res = [r \in Runs |-> "none"]
    /\ name = [n \in Names |-> IF n = "dst" THEN Orig ELSE None]
    /\ lock = [f \in Files |-> None]
    /\ whole = {Orig} /\ synced = {Orig}
    /\ medium = {Install(name)}
    /\ stolen = FALSE /\ unflushed = FALSE
    /\ crashes = 0 /\ faults = 0

Goto(r, step)     == pc' = [pc EXCEPT ![r] = step]
Say(r, answer)    == res' = [res EXCEPT ![r] = answer]
Fault             == faults < MaxFaults /\ faults' = faults + 1
\* A directory operation that succeeds; the disk has it now or later, in order.
Rename(from, to)  == /\ name[from] # None
                     /\ name' = [name EXCEPT ![to] = name[from], ![from] = None]
                     /\ medium' = medium \cup {Install(name')}
RemoveTmp(r, own) == /\ name' = [name EXCEPT !["tmp"] = None]
                     /\ stolen' = (stolen \/ name["tmp"] \notin {own, None})
                     /\ UNCHANGED medium
Open(r)           == h' = [h EXCEPT ![r] = name["tmp"]]
CloseLock(r)      == /\ h' = [h EXCEPT ![r] = None]
                     /\ lock' = [f \in Files |-> IF lock[f] = r THEN None ELSE lock[f]]

-----------------------------------------------------------------------------
Begin(r) ==
    /\ pc[r] = "new"
    /\ \E k \in Kinds : kind' = [kind EXCEPT ![r] = k]
    /\ Goto(r, "lstat")
    /\ UNCHANGED <<h, res, files, dir, ghost, crashes, faults>>

\* createTemp and clearLeftover look at the temporary name first.
Lstat(r) ==
    /\ pc[r] = "lstat"
    /\ Goto(r, IF name["tmp"] # None THEN "open" ELSE IF Replaces(r) THEN "source" ELSE "create")
    /\ UNCHANGED <<kind, h, res, files, dir, ghost, crashes, faults>>

\* tmplock.Clear: what is there is opened, locked, and removed by its name.
ClearOpen(r) ==
    /\ pc[r] = "open"
    /\ Open(r) /\ Goto(r, IF name["tmp"] = None THEN "close" ELSE "lock")
    /\ UNCHANGED <<kind, res, files, dir, ghost, crashes, faults>>

\* Mutant: a file another run holds is removed as well.
LockAny(r) == Goto(r, "remove") /\ UNCHANGED <<lock, res>>
\* A lock that is held is not waited for: the run is refused.
LockFile(r) ==
    \/ lock[h[r]] = None /\ lock' = [lock EXCEPT ![h[r]] = r] /\ Goto(r, "remove") /\ UNCHANGED res
    \/ lock[h[r]] # None /\ Say(r, "busy") /\ Goto(r, "release") /\ UNCHANGED lock

ClearLock(r) ==
    /\ pc[r] = "lock" /\ LockFile(r)
    /\ UNCHANGED <<kind, h, whole, synced, dir, ghost, crashes, faults>>

ClearRemove(r) ==
    /\ pc[r] = "remove"
    /\ \/ RemoveTmp(r, h[r]) /\ Goto(r, "close") /\ UNCHANGED <<res, faults>>
       \/ Fault /\ Say(r, "failed") /\ Goto(r, "release") /\ UNCHANGED <<dir, stolen>>
    /\ UNCHANGED <<kind, h, files, unflushed, crashes>>

ClearClose(r) ==
    /\ pc[r] = "close"
    /\ CloseLock(r) /\ Goto(r, IF Replaces(r) THEN "source" ELSE "create")
    /\ UNCHANGED <<kind, res, whole, synced, dir, ghost, crashes, faults>>

\* Mutant: an earlier run's original is written over.
BackupTaken(r) == TRUE
\* backupFree: it never is.
BackupFree(r) == kind[r] = "keep" => name["bak"] = None

\* A replace reads dst: a backup in the way ends it, and so does a source that
\* does not open, once what stands at the temporary name is removed.
OpenSource(r) ==
    /\ pc[r] = "source"
    /\ \/ BackupFree(r) /\ name["dst"] # None /\ Goto(r, "create") /\ UNCHANGED <<res, faults>>
       \/ ~ BackupFree(r) /\ Say(r, "failed") /\ Goto(r, "release") /\ UNCHANGED faults
       \/ BackupFree(r) /\ name["dst"] = None /\ Goto(r, "fail") /\ UNCHANGED <<res, faults>>
       \/ BackupFree(r) /\ Fault /\ Goto(r, "fail") /\ UNCHANGED res
    /\ UNCHANGED <<kind, h, files, dir, ghost, crashes>>

\* An exclusive create; a file of that name is another run's.
Create(r) ==
    /\ pc[r] = "create"
    /\ \/ name["tmp"] = None /\ name' = [name EXCEPT !["tmp"] = r] /\ Goto(r, "takeOpen") /\ UNCHANGED res
       \/ name["tmp"] # None /\ Say(r, "busy") /\ Goto(r, "release") /\ UNCHANGED name
    /\ UNCHANGED <<kind, h, files, medium, ghost, crashes, faults>>

\* tmplock.Take: the name is opened again, locked, and compared with the file.
TakeOpen(r) ==
    /\ pc[r] = "takeOpen" /\ Open(r)
    /\ IF name["tmp"] = None
       THEN Say(r, "busy") /\ Goto(r, "release")
       ELSE Goto(r, "takeLock") /\ UNCHANGED res
    /\ UNCHANGED <<kind, files, dir, ghost, crashes, faults>>

TakeLock(r) ==
    /\ pc[r] = "takeLock"
    /\ IF lock[h[r]] = None
       THEN lock' = [lock EXCEPT ![h[r]] = r] /\ Goto(r, "takeCheck") /\ UNCHANGED res
       ELSE Say(r, "busy") /\ Goto(r, "release") /\ UNCHANGED lock
    /\ UNCHANGED <<kind, h, whole, synced, dir, ghost, crashes, faults>>

\* Mutant: whatever file was locked is taken for this run's.
SameFileAny(r) == TRUE
SameFile(r) == h[r] = r

TakeCheck(r) ==
    /\ pc[r] = "takeCheck"
    /\ IF SameFile(r)
       THEN Goto(r, "copy") /\ stolen' = (stolen \/ (h[r] = r /\ name["tmp"] # r)) /\ UNCHANGED res
       ELSE Say(r, "busy") /\ Goto(r, "release") /\ UNCHANGED stolen
    /\ UNCHANGED <<kind, h, files, dir, unflushed, crashes, faults>>

\* The operation writes the file through the handle it created, to the end or
\* until an error.
Copy(r) ==
    /\ pc[r] = "copy"
    /\ \/ /\ whole' = whole \cup {r} /\ UNCHANGED faults
          /\ Goto(r, CASE Replaces(r) -> "check" [] kind[r] = "writeSync" -> "flush" [] OTHER -> "install")
       \/ Fault /\ Goto(r, "abort") /\ UNCHANGED whole
    /\ UNCHANGED <<kind, h, res, lock, synced, dir, ghost, crashes>>

\* Mutant: the output is not flushed.
FlushNothing(r) == UNCHANGED synced
FlushFile(r) == synced' = synced \cup {r}

\* output.close under SyncOutput.
Flush(r) ==
    /\ pc[r] = "flush"
    /\ \/ FlushFile(r) /\ Goto(r, "install") /\ UNCHANGED faults
       \/ Fault /\ Goto(r, "abort") /\ UNCHANGED synced
    /\ UNCHANGED <<kind, h, res, lock, whole, dir, ghost, crashes>>

\* output.commit of a failed operation. A replace comes through here as well,
\* and removes the name a second time on its way out.
Abort(r) ==
    /\ pc[r] = "abort"
    /\ RemoveTmp(r, r)
    /\ IF Replaces(r) THEN Goto(r, "fail") /\ UNCHANGED res ELSE Say(r, "failed") /\ Goto(r, "release")
    /\ UNCHANGED <<kind, h, files, unflushed, crashes, faults>>

\* A replace that failed removes its copy by name.
Fail(r) ==
    /\ pc[r] = "fail"
    /\ RemoveTmp(r, r)
    /\ Say(r, "failed") /\ Goto(r, "release")
    /\ UNCHANGED <<kind, h, files, unflushed, crashes, faults>>

\* A replace verifies its copy, flushes it and gives it the original's mode,
\* each of them under the temporary name.
Check(r) ==
    /\ pc[r] = "check"
    /\ \/ /\ BackupFree(r) /\ name["tmp"] # None /\ name["dst"] # None
          /\ synced' = synced \cup ({name["tmp"]} \cap whole)
          /\ Goto(r, IF kind[r] = "keep" THEN "backup" ELSE "install") /\ UNCHANGED faults
       \/ (~ BackupFree(r) \/ name["tmp"] = None \/ name["dst"] = None) /\ Goto(r, "fail") /\ UNCHANGED <<synced, faults>>
       \/ Fault /\ Goto(r, "fail") /\ UNCHANGED synced
    /\ UNCHANGED <<kind, h, res, lock, whole, dir, ghost, crashes>>

Backup(r) ==
    /\ pc[r] = "backup"
    /\ \/ Rename("dst", "bak") /\ Goto(r, "install") /\ UNCHANGED faults
       \/ name["dst"] = None /\ Goto(r, "fail") /\ UNCHANGED <<dir, faults>>
       \/ Fault /\ Goto(r, "fail") /\ UNCHANGED dir
    /\ UNCHANGED <<kind, h, res, files, ghost, crashes>>

\* The file takes the output's name.
InstallTmp(r) ==
    /\ pc[r] = "install"
    /\ \/ /\ Rename("tmp", "dst") /\ UNCHANGED faults
          /\ IF kind[r] = "write" THEN Say(r, "ok") /\ Goto(r, "release") ELSE Goto(r, "flushDir") /\ UNCHANGED res
       \/ /\ \/ name["tmp"] = None /\ UNCHANGED faults
             \/ Fault
          /\ Goto(r, CASE kind[r] = "keep" -> "restore" [] kind[r] = "replace" -> "fail" [] OTHER -> "abort")
          /\ UNCHANGED <<res, dir>>
    /\ UNCHANGED <<kind, h, files, ghost, crashes>>

\* The original comes back, or the two errors are returned with it under .bak.
Restore(r) ==
    /\ pc[r] = "restore"
    /\ \/ Rename("bak", "dst") /\ Goto(r, "fail") /\ UNCHANGED <<res, faults>>
       \/ name["bak"] = None /\ Say(r, "failed") /\ Goto(r, "release") /\ UNCHANGED <<dir, faults>>
       \/ Fault /\ Say(r, "failed") /\ Goto(r, "release") /\ UNCHANGED dir
    /\ UNCHANGED <<kind, h, files, ghost, crashes>>

FlushNames(r) == medium' = {Install(name)}

\* An error of the flush is an error of a replace, and nothing to a write.
FlushDir(r) ==
    /\ pc[r] = "flushDir"
    /\ \/ FlushNames(r) /\ Say(r, "ok") /\ UNCHANGED <<unflushed, faults>>
       \/ Fault /\ unflushed' = TRUE /\ Say(r, IF Replaces(r) THEN "failed" ELSE "ok") /\ UNCHANGED medium
    /\ Goto(r, "release")
    /\ UNCHANGED <<kind, h, files, name, stolen, crashes>>

Release(r) ==
    /\ pc[r] = "release"
    /\ CloseLock(r) /\ Goto(r, "done")
    /\ UNCHANGED <<kind, res, whole, synced, dir, ghost, crashes, faults>>

\* A process that dies lets go of its lock; its temporary file stays.
Kill(r) ==
    /\ Live(r) /\ crashes < MaxCrashes /\ crashes' = crashes + 1
    /\ CloseLock(r) /\ Goto(r, "done") /\ Say(r, "killed")
    /\ UNCHANGED <<kind, whole, synced, dir, ghost, faults>>

\* Every run dies; a file that was not flushed comes back in part, and the
\* directory as it was after any of the renames since its last flush.
PowerCut ==
    /\ PowerCuts /\ crashes < MaxCrashes /\ crashes' = crashes + 1
    /\ \E d \in medium : \E left \in {None, name["tmp"], name["dst"]} \ {d["dst"], d["bak"]} :
          /\ name' = [n \in Names |-> IF n = "tmp" THEN left ELSE d[n]]
          /\ medium' = {d}
    /\ \E torn \in SUBSET (whole \ synced) : whole' = whole \ torn
    /\ synced' = whole'
    /\ pc' = [r \in Runs |-> IF Live(r) THEN "done" ELSE pc[r]]
    /\ res' = [r \in Runs |-> IF Live(r) THEN "killed" ELSE res[r]]
    /\ h' = [r \in Runs |-> None] /\ lock' = [f \in Files |-> None]
    /\ UNCHANGED <<kind, ghost, faults>>

Stopped == (\A r \in Runs : pc[r] = "done") /\ UNCHANGED vars

Work(r) ==
    \/ Begin(r) \/ Lstat(r) \/ ClearOpen(r) \/ ClearLock(r) \/ ClearRemove(r) \/ ClearClose(r)
    \/ OpenSource(r) \/ Create(r) \/ TakeOpen(r) \/ TakeLock(r) \/ TakeCheck(r) \/ Copy(r)
    \/ Flush(r) \/ Abort(r) \/ Fail(r) \/ Check(r) \/ Backup(r) \/ InstallTmp(r) \/ Restore(r)
    \/ FlushDir(r) \/ Release(r) \/ Kill(r)

Next == (\E r \in Runs : Work(r)) \/ PowerCut \/ Stopped

Spec == Init /\ [][Next]_vars

-----------------------------------------------------------------------------
TypeOK ==
    /\ kind \in [Runs -> {"write", "writeSync", "replace", "keep"}] /\ pc \in [Runs -> Steps]
    /\ h \in [Runs -> Files \cup {None}] /\ res \in [Runs -> {"none", "ok", "failed", "busy", "killed"}]
    /\ name \in [Names -> Files \cup {None}] /\ lock \in [Files -> Runs \cup {None}]
    /\ whole \subseteq Files /\ synced \subseteq whole
    /\ medium \subseteq [dst : Files \cup {None}, bak : Files \cup {None}]
    /\ stolen \in BOOLEAN /\ unflushed \in BOOLEAN
    /\ crashes \in 0 .. MaxCrashes /\ faults \in 0 .. MaxFaults

Unsynced == {r \in Runs : kind[r] = "write"}

\* "Nothing of the first's is touched": dst never names a file a run has not
\* written to the end.
NothingHalfWritten == name["dst"] \in Files => name["dst"] \in whole

\* That is so as long as no name was used for a file that another run had put
\* there since: the windows between a look at the name and its use, in Clear,
\* in Take and in the second removal of a replace, are the only ways to a half
\* written output. A power cut may leave one where the flush was not asked for.
OutputWhole == ~ stolen => name["dst"] \in whole \cup Unsynced \cup {None}

\* "A failed operation leaves the file dst already named as it was": a run that
\* answers an error has not replaced it, unless all that failed was to flush a
\* replace's directory.
FailureKeepsOutput ==
    ~ stolen => \A r \in Runs : res[r] \in {"failed", "busy"} /\ ~ unflushed => \A d \in medium : d["dst"] # r

\* "A completed output survives a power loss": what the disk may hold is the
\* flushed output of a run, and no longer the original, once a flushing run has
\* said so; where a backup has just been taken, it holds that output.
AckedSurvives ==
    ~ stolen /\ ~ unflushed /\ (\E r \in Runs \ Unsynced : res[r] = "ok") =>
        \A d \in medium : LET f == IF d["dst"] = None THEN d["bak"] ELSE d["dst"]
                          IN  f # Orig /\ (f \in synced \/ f \in Unsynced)

\* "KeepBackup preserves the original": while every file installed was a
\* backing replace's, the original is under one of the two names, and on the
\* disk, at every instant.
OriginalKept ==
    (\A r \in Runs : pc[r] # "new" => kind[r] = "keep") /\ ~ stolen =>
        \A d \in medium \cup {Install(name)} : Orig \in {d["dst"], d["bak"]}

=============================================================================
