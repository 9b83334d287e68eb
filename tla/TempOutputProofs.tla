-------------------------- MODULE TempOutputProofs --------------------------
(***************************************************************************)
(* For any number of runs, kills, power cuts and failing calls: as long as *)
(* no name was used for another run's file, an output is whole, a failure  *)
(* leaves it, an answer survives a power cut and a backup the original.    *)
(*                                                                         *)
(* Of the steps of a run, those in Mine are taken while the temporary name *)
(* stands for its file, so by one run at a time. Every directory that is,  *)
(* or that a power cut may leave, is then in order (InOrder): it names     *)
(* flushed files of runs that got as far as renaming theirs.               *)
(***************************************************************************)
EXTENDS TempOutput, TLAPS

Holding == {"copy", "flush", "abort", "check", "backup", "install", "restore"}
Mine    == {"copy", "flush", "check", "backup", "install", "restore"}

\* Who holds which lock, and what is open; it holds whatever names were stolen.
Locks == \A r \in Runs :
    /\ pc[r] \in {"lock", "takeLock"} => h[r] \in Files
    /\ pc[r] \in {"remove", "takeCheck"} => h[r] \in Files /\ lock[h[r]] = r
    /\ pc[r] \in Holding => h[r] = r /\ lock[r] = r

\* How far a run's own file is, by its step.
Stages == \A r \in Runs :
    /\ pc[r] = "flush" => kind[r] = "writeSync"
    /\ pc[r] = "check" => Replaces(r)
    /\ pc[r] \in {"backup", "restore"} => kind[r] = "keep"
    /\ pc[r] \in {"flush", "check", "backup", "install"} => r \in whole
    /\ pc[r] \notin {"release", "done"} => res[r] = "none"

\* What the names stand for while a run is at the steps in Mine.
Owned == \A r \in Runs :
    /\ pc[r] \in Mine => name["tmp"] = r
    /\ pc[r] = "backup" => name["bak"] = None
    /\ pc[r] = "restore" \/ (pc[r] = "install" /\ kind[r] = "keep") => name["dst"] = None
    /\ pc[r] = "backup" \/ (pc[r] = "install" /\ kind[r] # "write") => r \in synced

Safe(f)  == f \in synced \cup Unsynced
Renamed(r) ==
    \/ pc[r] = "flushDir"
    \/ pc[r] \in {"release", "done"} /\ (res[r] \in {"ok", "killed"} \/ unflushed)

\* The file a reader finds in directory d, dst's or else its backup.
Output(d)   == IF d.dst = None THEN d.bak ELSE d.dst
Replaced(d) == Output(d) \notin {Orig, None}
Acked       == ~ unflushed /\ \E r \in Runs \ Unsynced : res[r] = "ok"
OnlyKeeps   == \A r \in Runs : pc[r] # "new" => kind[r] = "keep"

InOrder(d) ==
    /\ Safe(d.dst) \/ d.dst = None
    /\ Safe(d.bak) \/ d.bak = None
    /\ \A r \in Runs : r \in {d.dst, d.bak} => Renamed(r)
    /\ Acked => Replaced(d)
    /\ OnlyKeeps => Orig \in {d.dst, d.bak}

Directories ==
    /\ \A d \in medium \cup {Install(name)} : InOrder(d)
    /\ (\E r \in Runs : pc[r] = "flushDir") => Replaced(Install(name))

\* What no step takes back.
Onward ==
    /\ synced \subseteq synced' /\ (unflushed => unflushed')
    /\ \A r \in Runs : pc[r] # "new" => kind'[r] = kind[r] /\ pc'[r] # "new"

\* What a step does to the directory.
Quiet ==
    /\ medium' \subseteq medium \cup {Install(name)}
    /\ name'["dst"] = name["dst"] /\ name'["bak"] = name["bak"]
    /\ \A r \in Runs : pc'[r] = "flushDir" => pc[r] = "flushDir"
DirectoryStep ==
    \/ Quiet
    \/ \E r \in Runs : Backup(r) /\ Rename("dst", "bak")
    \/ \E r \in Runs : Restore(r) /\ Rename("bak", "dst")
    \/ \E r \in Runs : InstallTmp(r) /\ Rename("tmp", "dst")
    \/ PowerCut

IInv == TypeOK /\ Locks /\ Stages /\ (~ stolen => Owned /\ Directories)

-----------------------------------------------------------------------------
(* The parts that hold whatever was stolen.                                *)

LEMMA TypesKept == TypeOK /\ Stages /\ [Next]_vars => TypeOK'
  <1> SUFFICES ASSUME TypeOK, Stages, [Next]_vars PROVE TypeOK'
    OBVIOUS
  <1> USE BoundsAssumption, KindsAssumption, RunsAssumption DEF TypeOK, Files, Names, Steps
  <1>1. ASSUME NEW r \in Runs, Work(r) PROVE TypeOK'
    <2>1. CASE Begin(r)
      BY <2>1 DEF Begin, Goto, files, dir, ghost
    <2>2. CASE Lstat(r)
      BY <2>2 DEF Lstat, Goto, Replaces, files, dir, ghost
    <2>3. CASE ClearOpen(r)
      BY <2>3 DEF ClearOpen, Goto, Open, files, dir, ghost
    <2>4. CASE ClearLock(r)
      BY <2>4 DEF ClearLock, LockFile, dir, ghost, Say, Goto
    <2>5. CASE ClearRemove(r)
      <3>1. UNCHANGED <<kind, h, files, unflushed, crashes>> /\ medium' = medium /\ stolen' \in BOOLEAN
        BY <2>5 DEF ClearRemove, RemoveTmp, dir
      <3>2. name' \in [Names -> Files \cup {None}] /\ faults' \in 0 .. MaxFaults
        BY <2>5 DEF ClearRemove, RemoveTmp, Fault, dir
      <3>3. pc' \in [Runs -> Steps] /\ res' \in [Runs -> {"none", "ok", "failed", "busy", "killed"}]
        BY <2>5 DEF ClearRemove, Goto, Say
      <3> QED
        BY <3>1, <3>2, <3>3 DEF files
    <2>6. CASE ClearClose(r)
      BY <2>6 DEF ClearClose, Goto, CloseLock, Replaces, dir, ghost
    <2>7. CASE OpenSource(r)
      BY <2>7 DEF OpenSource, Goto, Say, Fault, BackupFree, files, dir, ghost
    <2>8. CASE Create(r)
      BY <2>8 DEF Create, Goto, Say, files, ghost
    <2>9. CASE TakeOpen(r)
      BY <2>9 DEF TakeOpen, Goto, Say, Open, files, dir, ghost
    <2>10. CASE TakeLock(r)
      BY <2>10 DEF TakeLock, Goto, Say, dir, ghost
    <2>11. CASE TakeCheck(r)
      <3>1. UNCHANGED <<kind, h, files, dir, unflushed, crashes, faults>> /\ stolen' \in BOOLEAN
        BY <2>11 DEF TakeCheck
      <3>2. pc' \in [Runs -> Steps] BY <2>11 DEF TakeCheck, Goto
      <3>3. res' \in [Runs -> {"none", "ok", "failed", "busy", "killed"}] BY <2>11 DEF TakeCheck, Say
      <3> QED BY <3>1, <3>2, <3>3 DEF files, dir
    <2>12. CASE Copy(r)
      BY <2>12 DEF Copy, Goto, Fault, Replaces, dir, ghost
    <2>13. CASE Flush(r)
      <3>1. r \in whole
        BY <2>13 DEF Flush, Stages
      <3> QED
        BY <2>13, <3>1 DEF Flush, Goto, Fault, FlushFile, dir, ghost
    <2>14. CASE Abort(r)
      BY <2>14 DEF Abort, Goto, Say, RemoveTmp, Replaces, files, Install
    <2>15. CASE Fail(r)
      BY <2>15 DEF Fail, Goto, Say, RemoveTmp, files, Install
    <2>16. CASE Check(r)
      BY <2>16 DEF Check, Goto, Fault, BackupFree, dir, ghost
    <2>17. CASE Backup(r)
      BY <2>17 DEF Backup, Goto, Fault, Rename, files, dir, ghost, Install
    <2>18. CASE InstallTmp(r)
      BY <2>18 DEF InstallTmp, Goto, Say, Fault, Rename, files, dir, ghost, Install
    <2>19. CASE Restore(r)
      BY <2>19 DEF Restore, Goto, Say, Fault, Rename, files, dir, ghost, Install
    <2>20. CASE FlushDir(r)
      <3>1. UNCHANGED <<kind, h, files, name, stolen, crashes>>
        BY <2>20 DEF FlushDir
      <3>2. medium' \subseteq [dst : Files \cup {None}, bak : Files \cup {None}]
        BY <2>20 DEF FlushDir, FlushNames, Install
      <3>3. faults' \in 0 .. MaxFaults
        BY <2>20 DEF FlushDir, Fault
      <3>5. unflushed' \in BOOLEAN
        BY <2>20 DEF FlushDir
      <3>4. pc' \in [Runs -> Steps] /\ res' \in [Runs -> {"none", "ok", "failed", "busy", "killed"}]
        BY <2>20 DEF FlushDir, Goto, Say
      <3> QED
        BY <3>1, <3>2, <3>3, <3>4, <3>5 DEF files
    <2>21. CASE Release(r)
      BY <2>21 DEF Release, Goto, CloseLock, dir, ghost
    <2>22. CASE Kill(r)
      BY <2>22 DEF Kill, Goto, Say, CloseLock, Live, dir, ghost
    <2> QED
      BY <1>1, <2>1, <2>2, <2>3, <2>4, <2>5, <2>6, <2>7, <2>8, <2>9, <2>10, <2>11, <2>12, <2>13,
         <2>14, <2>15, <2>16, <2>17, <2>18, <2>19, <2>20, <2>21, <2>22 DEF Work
  <1>2. CASE PowerCut
    <2>1. UNCHANGED <<kind, stolen, unflushed, faults>> /\ crashes' \in 0 .. MaxCrashes
      BY <1>2 DEF PowerCut, ghost
    <2>2. PICK d \in medium : \E left \in {None, name["tmp"], name["dst"]} :
             /\ name' = [n \in Names |-> IF n = "tmp" THEN left ELSE d[n]]
             /\ medium' = {d}
      BY <1>2 DEF PowerCut
    <2>3. d \in [dst : Files \cup {None}, bak : Files \cup {None}]
      OBVIOUS
    <2>4. d["dst"] \in Files \cup {None} /\ d["bak"] \in Files \cup {None}
      BY <2>3
    <2>5. name' \in [Names -> Files \cup {None}]
      BY <2>2, <2>4
    <2>6. medium' \subseteq [dst : Files \cup {None}, bak : Files \cup {None}]
      BY <2>2, <2>3
    <2>7. whole' \subseteq Files /\ synced' \subseteq whole'
      BY <1>2 DEF PowerCut
    <2>8. /\ pc' \in [Runs -> Steps] /\ res' \in [Runs -> {"none", "ok", "failed", "busy", "killed"}]
          /\ h' \in [Runs -> Files \cup {None}] /\ lock' \in [Files -> Runs \cup {None}]
      BY <1>2 DEF PowerCut
    <2> QED
      BY <2>1, <2>5, <2>6, <2>7, <2>8
  <1>3. CASE Stopped \/ UNCHANGED vars
    BY <1>3 DEF Stopped, vars, files, dir, ghost
  <1> QED
    BY <1>1, <1>2, <1>3 DEF Next

LEMMA LocksKept == TypeOK /\ Locks /\ [Next]_vars => Locks'
  <1> SUFFICES ASSUME TypeOK, Locks, [Next]_vars PROVE Locks'
    OBVIOUS
  <1> USE RunsAssumption DEF TypeOK, Locks, Files, Names, Holding
  <1>1. ASSUME NEW r \in Runs, Work(r) PROVE Locks'
    <2>1. CASE Begin(r)
      BY <2>1 DEF Begin, Goto, files, dir, ghost
    <2>2. CASE Lstat(r)
      BY <2>2 DEF Lstat, Goto, Replaces, files, dir, ghost
    <2>3. CASE ClearOpen(r)
      BY <2>3 DEF ClearOpen, Goto, Open, files, dir, ghost
    <2>4. CASE ClearLock(r)
      BY <2>4 DEF ClearLock, LockFile, dir, ghost, Say, Goto
    <2>5. CASE ClearRemove(r)
      BY <2>5 DEF ClearRemove, Goto, Say, Fault, RemoveTmp, files, dir, Install
    <2>6. CASE ClearClose(r)
      BY <2>6 DEF ClearClose, Goto, CloseLock, Replaces, dir, ghost
    <2>7. CASE OpenSource(r)
      BY <2>7 DEF OpenSource, Goto, Say, Fault, BackupFree, files, dir, ghost
    <2>8. CASE Create(r)
      BY <2>8 DEF Create, Goto, Say, files, ghost
    <2>9. CASE TakeOpen(r)
      BY <2>9 DEF TakeOpen, Goto, Say, Open, files, dir, ghost
    <2>10. CASE TakeLock(r)
      BY <2>10 DEF TakeLock, Goto, Say, dir, ghost
    <2>11. CASE TakeCheck(r)
      BY <2>11 DEF TakeCheck, Goto, Say, SameFile, files, dir
    <2>12. CASE Copy(r)
      BY <2>12 DEF Copy, Goto, Fault, Replaces, dir, ghost
    <2>13. CASE Flush(r)
      BY <2>13 DEF Flush, Goto, Fault, FlushFile, dir, ghost
    <2>14. CASE Abort(r)
      BY <2>14 DEF Abort, Goto, Say, RemoveTmp, Replaces, files, Install
    <2>15. CASE Fail(r)
      BY <2>15 DEF Fail, Goto, Say, RemoveTmp, files, Install
    <2>16. CASE Check(r)
      BY <2>16 DEF Check, Goto, Fault, BackupFree, dir, ghost
    <2>17. CASE Backup(r)
      BY <2>17 DEF Backup, Goto, Fault, Rename, files, dir, ghost, Install
    <2>18. CASE InstallTmp(r)
      BY <2>18 DEF InstallTmp, Goto, Say, Fault, Rename, files, dir, ghost, Install
    <2>19. CASE Restore(r)
      BY <2>19 DEF Restore, Goto, Say, Fault, Rename, files, dir, ghost, Install
    <2>20. CASE FlushDir(r)
      BY <2>20 DEF FlushDir, Goto, Say, Fault, FlushNames, Replaces, files, Install
    <2>21. CASE Release(r)
      BY <2>21 DEF Release, Goto, CloseLock, dir, ghost
    <2>22. CASE Kill(r)
      BY <2>22 DEF Kill, Goto, Say, CloseLock, Live, dir, ghost
    <2> QED
      BY <1>1, <2>1, <2>2, <2>3, <2>4, <2>5, <2>6, <2>7, <2>8, <2>9, <2>10, <2>11, <2>12, <2>13,
         <2>14, <2>15, <2>16, <2>17, <2>18, <2>19, <2>20, <2>21, <2>22 DEF Work
  <1>2. CASE PowerCut
    BY <1>2 DEF PowerCut, Live
  <1>3. CASE Stopped \/ UNCHANGED vars
    BY <1>3 DEF Stopped, vars, files, dir, ghost
  <1> QED
    BY <1>1, <1>2, <1>3 DEF Next

LEMMA StagesKept == TypeOK /\ Stages /\ [Next]_vars => Stages'
  <1> SUFFICES ASSUME TypeOK, Stages, [Next]_vars PROVE Stages'
    OBVIOUS
  <1> USE RunsAssumption DEF TypeOK, Stages, Files, Names, Replaces
  <1>1. ASSUME NEW r \in Runs, Work(r) PROVE Stages'
    <2>1. CASE Begin(r)
      BY <2>1 DEF Begin, Goto, files, dir, ghost
    <2>2. CASE Lstat(r)
      BY <2>2 DEF Lstat, Goto, Replaces, files, dir, ghost
    <2>3. CASE ClearOpen(r)
      BY <2>3 DEF ClearOpen, Goto, Open, files, dir, ghost
    <2>4. CASE ClearLock(r)
      BY <2>4 DEF ClearLock, LockFile, dir, ghost, Say, Goto
    <2>5. CASE ClearRemove(r)
      BY <2>5 DEF ClearRemove, Goto, Say, Fault, RemoveTmp, files, dir, Install
    <2>6. CASE ClearClose(r)
      BY <2>6 DEF ClearClose, Goto, CloseLock, Replaces, dir, ghost
    <2>7. CASE OpenSource(r)
      BY <2>7 DEF OpenSource, Goto, Say, Fault, BackupFree, files, dir, ghost
    <2>8. CASE Create(r)
      BY <2>8 DEF Create, Goto, Say, files, ghost
    <2>9. CASE TakeOpen(r)
      BY <2>9 DEF TakeOpen, Goto, Say, Open, files, dir, ghost
    <2>10. CASE TakeLock(r)
      BY <2>10 DEF TakeLock, Goto, Say, dir, ghost
    <2>11. CASE TakeCheck(r)
      BY <2>11 DEF TakeCheck, Goto, Say, SameFile, files, dir
    <2>12. CASE Copy(r)
      BY <2>12 DEF Copy, Goto, Fault, Replaces, dir, ghost
    <2>13. CASE Flush(r)
      BY <2>13 DEF Flush, Goto, Fault, FlushFile, dir, ghost
    <2>14. CASE Abort(r)
      BY <2>14 DEF Abort, Goto, Say, RemoveTmp, Replaces, files, Install
    <2>15. CASE Fail(r)
      BY <2>15 DEF Fail, Goto, Say, RemoveTmp, files, Install
    <2>16. CASE Check(r)
      BY <2>16 DEF Check, Goto, Fault, BackupFree, dir, ghost
    <2>17. CASE Backup(r)
      BY <2>17 DEF Backup, Goto, Fault, Rename, files, dir, ghost, Install
    <2>18. CASE InstallTmp(r)
      BY <2>18 DEF InstallTmp, Goto, Say, Fault, Rename, files, dir, ghost, Install
    <2>19. CASE Restore(r)
      BY <2>19 DEF Restore, Goto, Say, Fault, Rename, files, dir, ghost, Install
    <2>20. CASE FlushDir(r)
      BY <2>20 DEF FlushDir, Goto, Say, Fault, FlushNames, Replaces, files, Install
    <2>21. CASE Release(r)
      BY <2>21 DEF Release, Goto, CloseLock, dir, ghost
    <2>22. CASE Kill(r)
      BY <2>22 DEF Kill, Goto, Say, CloseLock, Live, dir, ghost
    <2> QED
      BY <1>1, <2>1, <2>2, <2>3, <2>4, <2>5, <2>6, <2>7, <2>8, <2>9, <2>10, <2>11, <2>12, <2>13,
         <2>14, <2>15, <2>16, <2>17, <2>18, <2>19, <2>20, <2>21, <2>22 DEF Work
  <1>2. CASE PowerCut
    BY <1>2 DEF PowerCut, Live
  <1>3. CASE Stopped \/ UNCHANGED vars
    BY <1>3 DEF Stopped, vars, files, dir, ghost
  <1> QED
    BY <1>1, <1>2, <1>3 DEF Next

-----------------------------------------------------------------------------
(* The parts that hold while no name was stolen.                           *)

LEMMA StolenStays == [Next]_vars /\ ~ stolen' => ~ stolen
  BY DEF Next, Work, Begin, Lstat, ClearOpen, ClearLock, ClearRemove, ClearClose, OpenSource, Create,
     TakeOpen, TakeLock, TakeCheck, Copy, Flush, Abort, Fail, Check, Backup, InstallTmp, Restore,
     FlushDir, Release, Kill, PowerCut, Stopped, RemoveTmp, vars, dir, ghost

LEMMA OwnedKept == TypeOK /\ Locks /\ Stages /\ Owned /\ ~ stolen /\ ~ stolen' /\ [Next]_vars => Owned'
  <1> SUFFICES ASSUME TypeOK, Locks, Stages, Owned, ~ stolen, ~ stolen', [Next]_vars PROVE Owned'
    OBVIOUS
  <1> USE RunsAssumption DEF TypeOK, Locks, Stages, Owned, Holding, Mine, Files, Names, Replaces
  <1>1. ASSUME NEW r \in Runs, Work(r) PROVE Owned'
    <2>1. CASE Begin(r)
      BY <2>1 DEF Begin, Goto, files, dir, ghost
    <2>2. CASE Lstat(r)
      BY <2>2 DEF Lstat, Goto, Replaces, files, dir, ghost
    <2>3. CASE ClearOpen(r)
      BY <2>3 DEF ClearOpen, Goto, Open, files, dir, ghost
    <2>4. CASE ClearLock(r)
      BY <2>4 DEF ClearLock, LockFile, dir, ghost, Say, Goto
    <2>5. CASE ClearRemove(r)
      <3>1. name["tmp"] \in {h[r], None} \/ name' = name
        BY <2>5 DEF ClearRemove, RemoveTmp, dir
      <3>2. name' \in {name, [name EXCEPT !["tmp"] = None]} /\ UNCHANGED <<kind, synced>>
        BY <2>5 DEF ClearRemove, RemoveTmp, files, dir
      <3>3. pc[r] = "remove" /\ \E step \in {"close", "release"} : pc' = [pc EXCEPT ![r] = step]
        BY <2>5 DEF ClearRemove, Goto
      <3> QED
        BY <3>1, <3>2, <3>3
    <2>6. CASE ClearClose(r)
      BY <2>6 DEF ClearClose, Goto, CloseLock, Replaces, dir, ghost
    <2>7. CASE OpenSource(r)
      BY <2>7 DEF OpenSource, Goto, Say, Fault, BackupFree, files, dir, ghost
    <2>8. CASE Create(r)
      BY <2>8 DEF Create, Goto, Say, files, ghost
    <2>9. CASE TakeOpen(r)
      BY <2>9 DEF TakeOpen, Goto, Say, Open, files, dir, ghost
    <2>10. CASE TakeLock(r)
      BY <2>10 DEF TakeLock, Goto, Say, dir, ghost
    <2>11. CASE TakeCheck(r)
      <3>1. pc' = [pc EXCEPT ![r] = "release"] \/ (pc' = [pc EXCEPT ![r] = "copy"] /\ name["tmp"] = r)
        BY <2>11 DEF TakeCheck, Goto, SameFile
      <3>2. UNCHANGED <<kind, name, synced>>
        BY <2>11 DEF TakeCheck, files, dir
      <3> QED
        BY <3>1, <3>2
    <2>12. CASE Copy(r)
      BY <2>12 DEF Copy, Goto, Fault, Replaces, dir, ghost
    <2>13. CASE Flush(r)
      BY <2>13 DEF Flush, Goto, Fault, FlushFile, dir, ghost
    <2>14. CASE Abort(r)
      <3>1. name["tmp"] \in {r, None}
        BY <2>14 DEF Abort, RemoveTmp
      <3>2. name' = [name EXCEPT !["tmp"] = None] /\ UNCHANGED <<kind, synced>>
        BY <2>14 DEF Abort, RemoveTmp, files
      <3>3. pc[r] = "abort" /\ \E step \in {"fail", "release"} : pc' = [pc EXCEPT ![r] = step]
        BY <2>14 DEF Abort, Goto
      <3> QED
        BY <3>1, <3>2, <3>3
    <2>15. CASE Fail(r)
      <3>1. name["tmp"] \in {r, None}
        BY <2>15 DEF Fail, RemoveTmp
      <3>2. name' = [name EXCEPT !["tmp"] = None] /\ UNCHANGED <<kind, synced>>
        BY <2>15 DEF Fail, RemoveTmp, files
      <3>3. pc[r] = "fail" /\ \E step \in {"release"} : pc' = [pc EXCEPT ![r] = step]
        BY <2>15 DEF Fail, Goto
      <3> QED
        BY <3>1, <3>2, <3>3
    <2>16. CASE Check(r)
      BY <2>16 DEF Check, Goto, Fault, BackupFree, dir, ghost
    <2>17. CASE Backup(r)
      BY <2>17 DEF Backup, Goto, Fault, Rename, files, dir, ghost, Install
    <2>18. CASE InstallTmp(r)
      BY <2>18 DEF InstallTmp, Goto, Say, Fault, Rename, files, dir, ghost, Install
    <2>19. CASE Restore(r)
      BY <2>19 DEF Restore, Goto, Say, Fault, Rename, files, dir, ghost, Install
    <2>20. CASE FlushDir(r)
      BY <2>20 DEF FlushDir, Goto, Say, Fault, FlushNames, Replaces, files, Install
    <2>21. CASE Release(r)
      BY <2>21 DEF Release, Goto, CloseLock, dir, ghost
    <2>22. CASE Kill(r)
      BY <2>22 DEF Kill, Goto, Say, CloseLock, Live, dir, ghost
    <2> QED
      BY <1>1, <2>1, <2>2, <2>3, <2>4, <2>5, <2>6, <2>7, <2>8, <2>9, <2>10, <2>11, <2>12, <2>13,
         <2>14, <2>15, <2>16, <2>17, <2>18, <2>19, <2>20, <2>21, <2>22 DEF Work
  <1>2. CASE PowerCut
    BY <1>2 DEF PowerCut, Live
  <1>3. CASE Stopped \/ UNCHANGED vars
    BY <1>3 DEF Stopped, vars, files, dir, ghost
  <1> QED
    BY <1>1, <1>2, <1>3 DEF Next

\* What no step takes back.
LEMMA Monotone ==
    ASSUME TypeOK, [Next]_vars
    PROVE  Onward
  <1> USE DEF TypeOK, Onward, Files, Names
  <1>1. ASSUME NEW r \in Runs, Work(r) PROVE Onward
    <2>1. CASE Begin(r)
      BY <2>1 DEF Begin, Goto, files, dir, ghost
    <2>2. CASE Lstat(r)
      BY <2>2 DEF Lstat, Goto, Replaces, files, dir, ghost
    <2>3. CASE ClearOpen(r)
      BY <2>3 DEF ClearOpen, Goto, Open, files, dir, ghost
    <2>4. CASE ClearLock(r)
      BY <2>4 DEF ClearLock, LockFile, dir, ghost, Say, Goto
    <2>5. CASE ClearRemove(r)
      BY <2>5 DEF ClearRemove, Goto, Say, Fault, RemoveTmp, files, dir, Install
    <2>6. CASE ClearClose(r)
      BY <2>6 DEF ClearClose, Goto, CloseLock, Replaces, dir, ghost
    <2>7. CASE OpenSource(r)
      BY <2>7 DEF OpenSource, Goto, Say, Fault, BackupFree, files, dir, ghost
    <2>8. CASE Create(r)
      BY <2>8 DEF Create, Goto, Say, files, ghost
    <2>9. CASE TakeOpen(r)
      BY <2>9 DEF TakeOpen, Goto, Say, Open, files, dir, ghost
    <2>10. CASE TakeLock(r)
      BY <2>10 DEF TakeLock, Goto, Say, dir, ghost
    <2>11. CASE TakeCheck(r)
      BY <2>11 DEF TakeCheck, Goto, Say, SameFile, files, dir
    <2>12. CASE Copy(r)
      BY <2>12 DEF Copy, Goto, Fault, Replaces, dir, ghost
    <2>13. CASE Flush(r)
      BY <2>13 DEF Flush, Goto, Fault, FlushFile, dir, ghost
    <2>14. CASE Abort(r)
      BY <2>14 DEF Abort, Goto, Say, RemoveTmp, Replaces, files, Install
    <2>15. CASE Fail(r)
      BY <2>15 DEF Fail, Goto, Say, RemoveTmp, files, Install
    <2>16. CASE Check(r)
      BY <2>16 DEF Check, Goto, Fault, BackupFree, dir, ghost
    <2>17. CASE Backup(r)
      BY <2>17 DEF Backup, Goto, Fault, Rename, files, dir, ghost, Install
    <2>18. CASE InstallTmp(r)
      BY <2>18 DEF InstallTmp, Goto, Say, Fault, Rename, files, dir, ghost, Install
    <2>19. CASE Restore(r)
      BY <2>19 DEF Restore, Goto, Say, Fault, Rename, files, dir, ghost, Install
    <2>20. CASE FlushDir(r)
      BY <2>20 DEF FlushDir, Goto, Say, Fault, FlushNames, Replaces, files, Install
    <2>21. CASE Release(r)
      BY <2>21 DEF Release, Goto, CloseLock, dir, ghost
    <2>22. CASE Kill(r)
      BY <2>22 DEF Kill, Goto, Say, CloseLock, Live, dir, ghost
    <2> QED
      BY <1>1, <2>1, <2>2, <2>3, <2>4, <2>5, <2>6, <2>7, <2>8, <2>9, <2>10, <2>11, <2>12, <2>13,
         <2>14, <2>15, <2>16, <2>17, <2>18, <2>19, <2>20, <2>21, <2>22 DEF Work
  <1>2. CASE PowerCut
    BY <1>2 DEF PowerCut, Live, ghost
  <1>3. CASE Stopped \/ UNCHANGED vars
    BY <1>3 DEF Stopped, vars, files, dir, ghost
  <1> QED
    BY <1>1, <1>2, <1>3 DEF Next

\* A run that gave its file the name has done so for good.
LEMMA RenamedStays ==
    ASSUME TypeOK, NEW q \in Runs, Renamed(q), [Next]_vars
    PROVE  Renamed(q)'
  <1> USE DEF TypeOK, Renamed, Files, Names
  <1>1. ASSUME NEW r \in Runs, Work(r) PROVE Renamed(q)'
    <2>1. CASE Begin(r)
      BY <2>1 DEF Begin, Goto, files, dir, ghost
    <2>2. CASE Lstat(r)
      BY <2>2 DEF Lstat, Goto, Replaces, files, dir, ghost
    <2>3. CASE ClearOpen(r)
      BY <2>3 DEF ClearOpen, Goto, Open, files, dir, ghost
    <2>4. CASE ClearLock(r)
      BY <2>4 DEF ClearLock, LockFile, dir, ghost, Say, Goto
    <2>5. CASE ClearRemove(r)
      BY <2>5 DEF ClearRemove, Goto, Say, Fault, RemoveTmp, files, dir, Install
    <2>6. CASE ClearClose(r)
      BY <2>6 DEF ClearClose, Goto, CloseLock, Replaces, dir, ghost
    <2>7. CASE OpenSource(r)
      BY <2>7 DEF OpenSource, Goto, Say, Fault, BackupFree, files, dir, ghost
    <2>8. CASE Create(r)
      BY <2>8 DEF Create, Goto, Say, files, ghost
    <2>9. CASE TakeOpen(r)
      BY <2>9 DEF TakeOpen, Goto, Say, Open, files, dir, ghost
    <2>10. CASE TakeLock(r)
      BY <2>10 DEF TakeLock, Goto, Say, dir, ghost
    <2>11. CASE TakeCheck(r)
      BY <2>11 DEF TakeCheck, Goto, Say, SameFile, files, dir
    <2>12. CASE Copy(r)
      BY <2>12 DEF Copy, Goto, Fault, Replaces, dir, ghost
    <2>13. CASE Flush(r)
      BY <2>13 DEF Flush, Goto, Fault, FlushFile, dir, ghost
    <2>14. CASE Abort(r)
      BY <2>14 DEF Abort, Goto, Say, RemoveTmp, Replaces, files, Install
    <2>15. CASE Fail(r)
      BY <2>15 DEF Fail, Goto, Say, RemoveTmp, files, Install
    <2>16. CASE Check(r)
      BY <2>16 DEF Check, Goto, Fault, BackupFree, dir, ghost
    <2>17. CASE Backup(r)
      BY <2>17 DEF Backup, Goto, Fault, Rename, files, dir, ghost, Install
    <2>18. CASE InstallTmp(r)
      BY <2>18 DEF InstallTmp, Goto, Say, Fault, Rename, files, dir, ghost, Install
    <2>19. CASE Restore(r)
      BY <2>19 DEF Restore, Goto, Say, Fault, Rename, files, dir, ghost, Install
    <2>20. CASE FlushDir(r)
      BY <2>20 DEF FlushDir, Goto, Say, Fault, FlushNames, Replaces, files, Install
    <2>21. CASE Release(r)
      BY <2>21 DEF Release, Goto, CloseLock, dir, ghost
    <2>22. CASE Kill(r)
      BY <2>22 DEF Kill, Goto, Say, CloseLock, Live, dir, ghost
    <2> QED
      BY <1>1, <2>1, <2>2, <2>3, <2>4, <2>5, <2>6, <2>7, <2>8, <2>9, <2>10, <2>11, <2>12, <2>13,
         <2>14, <2>15, <2>16, <2>17, <2>18, <2>19, <2>20, <2>21, <2>22 DEF Work
  <1>2. CASE PowerCut
    BY <1>2 DEF PowerCut, Live, ghost
  <1>3. CASE Stopped \/ UNCHANGED vars
    BY <1>3 DEF Stopped, vars, files, dir, ghost
  <1> QED
    BY <1>1, <1>2, <1>3 DEF Next

\* Only a flush makes an answer that is to survive a power cut.
LEMMA AckedByFlush ==
    ASSUME TypeOK, Stages, Acked', ~ Acked, [Next]_vars
    PROVE  \E s \in Runs : FlushDir(s) /\ medium' = {Install(name)}
  <1> USE DEF TypeOK, Stages, Acked, Unsynced, Files, Names, Replaces
  <1>1. ASSUME NEW r \in Runs, Work(r) PROVE \E s \in Runs : FlushDir(s) /\ medium' = {Install(name)}
    <2>1. CASE Begin(r)
      BY <2>1 DEF Begin, Goto, files, dir, ghost
    <2>2. CASE Lstat(r)
      BY <2>2 DEF Lstat, Goto, Replaces, files, dir, ghost
    <2>3. CASE ClearOpen(r)
      BY <2>3 DEF ClearOpen, Goto, Open, files, dir, ghost
    <2>4. CASE ClearLock(r)
      BY <2>4 DEF ClearLock, LockFile, dir, ghost, Say, Goto
    <2>5. CASE ClearRemove(r)
      BY <2>5 DEF ClearRemove, Goto, Say, Fault, RemoveTmp, files, dir, Install
    <2>6. CASE ClearClose(r)
      BY <2>6 DEF ClearClose, Goto, CloseLock, Replaces, dir, ghost
    <2>7. CASE OpenSource(r)
      BY <2>7 DEF OpenSource, Goto, Say, Fault, BackupFree, files, dir, ghost
    <2>8. CASE Create(r)
      BY <2>8 DEF Create, Goto, Say, files, ghost
    <2>9. CASE TakeOpen(r)
      BY <2>9 DEF TakeOpen, Goto, Say, Open, files, dir, ghost
    <2>10. CASE TakeLock(r)
      BY <2>10 DEF TakeLock, Goto, Say, dir, ghost
    <2>11. CASE TakeCheck(r)
      BY <2>11 DEF TakeCheck, Goto, Say, SameFile, files, dir
    <2>12. CASE Copy(r)
      BY <2>12 DEF Copy, Goto, Fault, Replaces, dir, ghost
    <2>13. CASE Flush(r)
      BY <2>13 DEF Flush, Goto, Fault, FlushFile, dir, ghost
    <2>14. CASE Abort(r)
      BY <2>14 DEF Abort, Goto, Say, RemoveTmp, Replaces, files, Install
    <2>15. CASE Fail(r)
      BY <2>15 DEF Fail, Goto, Say, RemoveTmp, files, Install
    <2>16. CASE Check(r)
      BY <2>16 DEF Check, Goto, Fault, BackupFree, dir, ghost
    <2>17. CASE Backup(r)
      BY <2>17 DEF Backup, Goto, Fault, Rename, files, dir, ghost, Install
    <2>18. CASE InstallTmp(r)
      BY <2>18 DEF InstallTmp, Goto, Say, Fault, Rename, files, dir, ghost, Install
    <2>19. CASE Restore(r)
      BY <2>19 DEF Restore, Goto, Say, Fault, Rename, files, dir, ghost, Install
    <2>20. CASE FlushDir(r)
      BY <2>20 DEF FlushDir, Goto, Say, Fault, FlushNames, Replaces, files, Install
    <2>21. CASE Release(r)
      BY <2>21 DEF Release, Goto, CloseLock, dir, ghost
    <2>22. CASE Kill(r)
      BY <2>22 DEF Kill, Goto, Say, CloseLock, Live, dir, ghost
    <2> QED
      BY <1>1, <2>1, <2>2, <2>3, <2>4, <2>5, <2>6, <2>7, <2>8, <2>9, <2>10, <2>11, <2>12, <2>13,
         <2>14, <2>15, <2>16, <2>17, <2>18, <2>19, <2>20, <2>21, <2>22 DEF Work
  <1>2. CASE PowerCut
    BY <1>2 DEF PowerCut, Live, ghost
  <1>3. CASE Stopped \/ UNCHANGED vars
    BY <1>3 DEF Stopped, vars, files, dir, ghost
  <1> QED
    BY <1>1, <1>2, <1>3 DEF Next

\* What a step does to the directory.
LEMMA QuietOrRenames ==
    ASSUME TypeOK, [Next]_vars
    PROVE  DirectoryStep
  <1> USE DEF TypeOK, DirectoryStep, Quiet, Files, Names
  <1>1. ASSUME NEW r \in Runs, Work(r) PROVE DirectoryStep
    <2>1. CASE Begin(r)
      BY <2>1 DEF Begin, Goto, files, dir, ghost
    <2>2. CASE Lstat(r)
      BY <2>2 DEF Lstat, Goto, Replaces, files, dir, ghost
    <2>3. CASE ClearOpen(r)
      BY <2>3 DEF ClearOpen, Goto, Open, files, dir, ghost
    <2>4. CASE ClearLock(r)
      BY <2>4 DEF ClearLock, LockFile, dir, ghost, Say, Goto
    <2>5. CASE ClearRemove(r)
      BY <2>5 DEF ClearRemove, Goto, Say, Fault, RemoveTmp, files, dir, Install
    <2>6. CASE ClearClose(r)
      BY <2>6 DEF ClearClose, Goto, CloseLock, Replaces, dir, ghost
    <2>7. CASE OpenSource(r)
      BY <2>7 DEF OpenSource, Goto, Say, Fault, BackupFree, files, dir, ghost
    <2>8. CASE Create(r)
      BY <2>8 DEF Create, Goto, Say, files, ghost
    <2>9. CASE TakeOpen(r)
      BY <2>9 DEF TakeOpen, Goto, Say, Open, files, dir, ghost
    <2>10. CASE TakeLock(r)
      BY <2>10 DEF TakeLock, Goto, Say, dir, ghost
    <2>11. CASE TakeCheck(r)
      BY <2>11 DEF TakeCheck, Goto, Say, SameFile, files, dir
    <2>12. CASE Copy(r)
      BY <2>12 DEF Copy, Goto, Fault, Replaces, dir, ghost
    <2>13. CASE Flush(r)
      BY <2>13 DEF Flush, Goto, Fault, FlushFile, dir, ghost
    <2>14. CASE Abort(r)
      BY <2>14 DEF Abort, Goto, Say, RemoveTmp, Replaces, files, Install
    <2>15. CASE Fail(r)
      BY <2>15 DEF Fail, Goto, Say, RemoveTmp, files, Install
    <2>16. CASE Check(r)
      BY <2>16 DEF Check, Goto, Fault, BackupFree, dir, ghost
    <2>17. CASE Backup(r)
      BY <2>17 DEF Backup, Goto, Fault, Rename, files, dir, ghost, Install
    <2>18. CASE InstallTmp(r)
      BY <2>18 DEF InstallTmp, Goto, Say, Fault, Rename, files, dir, ghost, Install
    <2>19. CASE Restore(r)
      BY <2>19 DEF Restore, Goto, Say, Fault, Rename, files, dir, ghost, Install
    <2>20. CASE FlushDir(r)
      BY <2>20 DEF FlushDir, Goto, Say, Fault, FlushNames, Replaces, files, Install
    <2>21. CASE Release(r)
      BY <2>21 DEF Release, Goto, CloseLock, dir, ghost
    <2>22. CASE Kill(r)
      BY <2>22 DEF Kill, Goto, Say, CloseLock, Live, dir, ghost
    <2> QED
      BY <1>1, <2>1, <2>2, <2>3, <2>4, <2>5, <2>6, <2>7, <2>8, <2>9, <2>10, <2>11, <2>12, <2>13,
         <2>14, <2>15, <2>16, <2>17, <2>18, <2>19, <2>20, <2>21, <2>22 DEF Work
  <1>2. CASE PowerCut
    BY <1>2
  <1>3. CASE Stopped \/ UNCHANGED vars
    BY <1>3 DEF Stopped, vars, files, dir, ghost
  <1> QED
    BY <1>1, <1>2, <1>3 DEF Next

LEMMA FieldsOf ==
    ASSUME TypeOK
    PROVE  /\ Install(name) \in [dst : Files \cup {None}, bak : Files \cup {None}]
           /\ Install(name).dst = name["dst"] /\ Install(name).bak = name["bak"]
  BY DEF TypeOK, Names, Install

\* A directory in order stays so; what an answer asks of it, it has.
LEMMA OrderStays ==
    ASSUME TypeOK, Stages, [Next]_vars,
           NEW d \in [dst : Files \cup {None}, bak : Files \cup {None}],
           InOrder(d), Acked' => Acked \/ Replaced(d)
    PROVE  InOrder(d)'
  <1>1. Onward
    BY Monotone
  <1>2. \A q \in Runs : Renamed(q) => Renamed(q)'
    BY RenamedStays
  <1>3. ASSUME NEW f \in {d.dst, d.bak}, Safe(f) \/ f = None
        PROVE  Safe(f)' \/ f = None
    <2>1. f \in Runs => pc[f] # "new"
      BY DEF InOrder, Renamed
    <2>2. CASE f \in synced
      BY <2>2, <1>1 DEF Onward, Safe
    <2>3. CASE f \in Unsynced
      BY <2>1, <2>3, <1>1 DEF Onward, Safe, Unsynced
    <2> QED
      BY <1>3, <2>2, <2>3 DEF Safe
  <1>4. OnlyKeeps' => OnlyKeeps
    BY <1>1 DEF Onward, OnlyKeeps
  <1> QED
    BY <1>2, <1>3, <1>4 DEF InOrder, Replaced, Output

LEMMA DirectoriesKept ==
    ASSUME TypeOK, TypeOK', Locks, Stages, Owned, Directories, ~ stolen, ~ stolen', [Next]_vars
    PROVE  Directories'
  \* The directory now and the next, as values.
  <1>a. PICK n : n = Install(name)
    OBVIOUS
  <1>b. PICK m : m = Install(name')
    OBVIOUS
  <1> DEFINE Flushing == \E s \in Runs : pc[s] = "flushDir"
  <1>1. /\ n \in [dst : Files \cup {None}, bak : Files \cup {None}] /\ n.dst = name["dst"] /\ n.bak = name["bak"]
        /\ medium \subseteq [dst : Files \cup {None}, bak : Files \cup {None}]
    BY <1>a, FieldsOf DEF TypeOK
  <1>2. m = [dst |-> name'["dst"], bak |-> name'["bak"]] /\ m.dst = name'["dst"] /\ m.bak = name'["bak"]
        /\ m \in [dst : Files \cup {None}, bak : Files \cup {None}]
    BY <1>b DEF TypeOK, Names, Install
  <1>3. InOrder(n) /\ \A d \in medium : InOrder(d)
    BY <1>a DEF Directories
  <1>4. Acked' => Acked \/ (medium' = {n} /\ Replaced(n))
    BY <1>a, AckedByFlush DEF FlushDir, Directories
  <1>5. \A d \in medium' : d \in medium \cup {n} => InOrder(d)'
    <2> SUFFICES ASSUME NEW d \in medium', d \in medium \cup {n} PROVE InOrder(d)'
      OBVIOUS
    <2>1. Acked' => Acked \/ Replaced(d)
      BY <1>4
    <2> QED
      BY <2>1, <1>1, <1>3, OrderStays
  <1>6. InOrder(n)'
    <2>1. Acked' => Acked \/ Replaced(n)
      BY <1>4
    <2> QED
      BY <2>1, <1>1, <1>3, OrderStays
  <1>7. ASSUME medium' \subseteq medium \cup {n, m}, InOrder(m)', Flushing' => Replaced(m)
        PROVE  Directories'
    <2>1. Install(name)' = m
      BY <1>b DEF Install
    <2>2. \A d \in medium' \cup {m} : InOrder(d)'
      BY <1>5, <1>7
    <2>3. Flushing' => Replaced(m)'
      BY <1>7 DEF Replaced, Output
    <2> QED
      BY <2>1, <2>2, <2>3 DEF Directories
  <1>8. Flushing => Replaced(n)
    BY <1>a DEF Directories
  \* What a rename asks of the directory it makes.
  <1>9. ASSUME medium' = medium \cup {m},
               m.dst \in {n.dst, n.bak, None}, m.bak \in {n.dst, n.bak, None},
               Output(m) = Output(n), Orig \in {n.dst, n.bak} => Orig \in {m.dst, m.bak},
               Flushing' => Flushing
        PROVE  Directories'
    <2>1. InOrder(m)'
      <3>1. Acked' => Replaced(m)
        BY <1>6, <1>9 DEF InOrder, Replaced
      <3> QED
        BY <1>6, <1>9, <3>1, RunsAssumption DEF InOrder, Replaced, Output
    <2>2. Flushing' => Replaced(m)
      BY <1>8, <1>9 DEF Replaced
    <2> QED
      BY <2>1, <2>2, <1>7, <1>9
  <1>10. CASE Quiet
    <2>1. m = n
      BY <1>a, <1>b, <1>10 DEF Quiet, Install
    <2> QED
      BY <1>a, <2>1, <1>6, <1>7, <1>8, <1>10 DEF Quiet
  <1>11. ASSUME NEW r \in Runs, Backup(r), Rename("dst", "bak") PROVE Directories'
    <2>1. n.bak = None /\ n.dst # None
      BY <1>1, <1>11 DEF Backup, Owned, Rename
    <2>2. m.dst = None /\ m.bak = n.dst
      BY <1>1, <1>2, <1>11 DEF Rename, TypeOK, Names
    <2>3. Flushing' => Flushing
      BY <1>11 DEF Backup, Goto, TypeOK
    <2>4. medium' = medium \cup {m}
      BY <1>b, <1>11 DEF Rename, Install
    <2> QED
      BY <2>1, <2>2, <2>3, <2>4, <1>9 DEF Output
  <1>12. ASSUME NEW r \in Runs, Restore(r), Rename("bak", "dst") PROVE Directories'
    <2>1. n.dst = None /\ n.bak # None
      BY <1>1, <1>12 DEF Restore, Owned, Rename
    <2>2. m.bak = None /\ m.dst = n.bak
      BY <1>1, <1>2, <1>12 DEF Rename, TypeOK, Names
    <2>3. Flushing' => Flushing
      BY <1>12 DEF Restore, Goto, TypeOK
    <2>4. medium' = medium \cup {m}
      BY <1>b, <1>12 DEF Rename, Install
    <2> QED
      BY <2>1, <2>2, <2>3, <2>4, <1>9 DEF Output
  <1>13. ASSUME NEW r \in Runs, InstallTmp(r), Rename("tmp", "dst") PROVE Directories'
    <2>1. pc[r] = "install" /\ name["tmp"] = r /\ name' # name /\ UNCHANGED <<kind, files>>
      BY <1>13, RunsAssumption DEF InstallTmp, Owned, Mine, Rename, TypeOK, Names
    <2>2. m.dst = r /\ m.bak = n.bak
      BY <2>1, <1>1, <1>2, <1>13 DEF Rename, TypeOK, Names
    <2>3. medium' = medium \cup {m}
      BY <1>b, <1>13 DEF Rename, Install
    <2>4. Safe(r)'
      BY <2>1, <1>13 DEF Owned, Safe, Unsynced, files
    <2>5. Renamed(r)'
      BY <2>1, <1>13 DEF InstallTmp, Goto, Say, Renamed, TypeOK, dir
    <2>6. Replaced(m)
      BY <2>2, RunsAssumption DEF Replaced, Output
    <2>7. OnlyKeeps' => Orig \in {m.dst, m.bak}
      <3>1. OnlyKeeps' => kind[r] = "keep" /\ n.dst = None
        BY <2>1, <1>1, <1>13, Monotone DEF OnlyKeeps, Onward, Owned
      <3> QED
        BY <3>1, <2>2, <1>6, RunsAssumption DEF InOrder
    <2>8. InOrder(m)'
      BY <2>2, <2>4, <2>5, <2>6, <2>7, <1>6 DEF InOrder, Replaced, Output
    <2> QED
      BY <2>3, <2>6, <2>8, <1>7
  <1>14. CASE PowerCut
    <2>1. PICK d \in medium : \E left \in {None, name["tmp"], name["dst"]} \ {d["dst"], d["bak"]} :
             /\ name' = [x \in Names |-> IF x = "tmp" THEN left ELSE d[x]]
             /\ medium' = {d}
      BY <1>14 DEF PowerCut
    <2>2. m = d
      <3>1. d \in [dst : Files \cup {None}, bak : Files \cup {None}]
        BY <1>1
      <3> QED
        BY <3>1, <2>1, <1>2 DEF Names
    <2>3. ~ Flushing'
      BY <1>14 DEF PowerCut, TypeOK, Live
    <2> QED
      BY <2>1, <2>2, <2>3, <1>5, <1>7
  <1> QED
    BY <1>10, <1>11, <1>12, <1>13, <1>14, QuietOrRenames DEF DirectoryStep

-----------------------------------------------------------------------------
LEMMA IInvInit == Init => IInv
  <1> SUFFICES ASSUME Init PROVE IInv
    OBVIOUS
  <1>1. TypeOK
    <2>1. name \in [Names -> Files \cup {None}] /\ name["dst"] = Orig /\ name["bak"] = None
      BY DEF Init, Names, Files
    <2>2. medium \subseteq [dst : Files \cup {None}, bak : Files \cup {None}]
      BY <2>1 DEF Init, Files, Install
    <2>3. crashes \in 0 .. MaxCrashes /\ faults \in 0 .. MaxFaults
      BY BoundsAssumption DEF Init
    <2>4. stolen \in BOOLEAN /\ unflushed \in BOOLEAN
      BY DEF Init
    <2> QED
      BY <2>1, <2>2, <2>3, <2>4 DEF Init, TypeOK, Files, Steps
  <1>2. Locks /\ Stages /\ Owned
    BY DEF Init, Locks, Stages, Owned, Holding, Mine
  <1>3. Install(name) = [dst |-> Orig, bak |-> None] /\ medium = {Install(name)}
    BY DEF Init, Names, Install
  <1>4. InOrder(Install(name))
    <2>1. ~ Acked
      BY DEF Init, Acked
    <2> QED
      BY <2>1, <1>3, RunsAssumption DEF Init, InOrder, Safe
  <1>5. Directories
    BY <1>3, <1>4 DEF Directories, Init
  <1> QED
    BY <1>1, <1>2, <1>5 DEF IInv

LEMMA IInvNext == IInv /\ [Next]_vars => IInv'
  <1> SUFFICES ASSUME IInv, [Next]_vars PROVE IInv'
    OBVIOUS
  <1>1. TypeOK' /\ Locks' /\ Stages'
    BY TypesKept, LocksKept, StagesKept DEF IInv
  <1>2. ASSUME ~ stolen' PROVE Owned' /\ Directories'
    BY <1>1, <1>2, StolenStays, OwnedKept, DirectoriesKept DEF IInv
  <1> QED
    BY <1>1, <1>2 DEF IInv

LEMMA Invariance == Spec => []IInv
  BY IInvInit, IInvNext, PTL DEF Spec

\* The variables keep their types, for any set of runs and any bounds.
THEOREM TypeCorrect == Spec => []TypeOK
  <1>1. IInv => TypeOK
    BY DEF IInv
  <1> QED
    BY <1>1, Invariance, PTL

\* While no name is stolen, dst names a file written to its end, but for one
\* whose flush was not asked for and that a power cut may have torn.
THEOREM OutputIsWhole == Spec => []OutputWhole
  <1>1. IInv => OutputWhole
    <2> SUFFICES ASSUME IInv, ~ stolen PROVE name["dst"] \in whole \cup Unsynced \cup {None}
      BY DEF OutputWhole
    <2>1. Safe(name["dst"]) \/ name["dst"] = None
      BY FieldsOf DEF IInv, Directories, InOrder
    <2> QED
      BY <2>1 DEF IInv, TypeOK, Safe
  <1> QED
    BY <1>1, Invariance, PTL

\* A run that answers an error has not put its file in dst's place, on the disk
\* either, unless what failed was the flush of the directory.
THEOREM FailuresKeepTheOutput == Spec => []FailureKeepsOutput
  <1>1. IInv => FailureKeepsOutput
    <2> SUFFICES ASSUME IInv, ~ stolen, ~ unflushed, NEW r \in Runs, res[r] \in {"failed", "busy"},
                        NEW d \in medium, d["dst"] = r
                 PROVE  FALSE
      BY DEF FailureKeepsOutput
    <2>1. Renamed(r)
      BY DEF IInv, Directories, InOrder, TypeOK
    <2> QED
      BY <2>1 DEF IInv, Stages, Renamed
  <1> QED
    BY <1>1, Invariance, PTL

\* An output that a run which flushes said was there is what a power cut
\* leaves, or a later one.
THEOREM AckedOutputsSurvive == Spec => []AckedSurvives
  <1>1. IInv => AckedSurvives
    <2> SUFFICES ASSUME IInv, ~ stolen, ~ unflushed, \E r \in Runs \ Unsynced : res[r] = "ok", NEW d \in medium
                 PROVE  LET f == IF d["dst"] = None THEN d["bak"] ELSE d["dst"]
                        IN  f # Orig /\ (f \in synced \/ f \in Unsynced)
      BY DEF AckedSurvives
    <2>1. InOrder(d) /\ d \in [dst : Files \cup {None}, bak : Files \cup {None}]
      BY DEF IInv, Directories, TypeOK
    <2>2. Replaced(d)
      BY <2>1 DEF InOrder, Acked
    <2> QED
      BY <2>1, <2>2 DEF InOrder, Replaced, Output, Safe
  <1> QED
    BY <1>1, Invariance, PTL

\* While every replace keeps a backup, the original has one of the two names at
\* every instant, and after a power cut at that instant.
THEOREM TheOriginalIsKept == Spec => []OriginalKept
  <1>1. IInv => OriginalKept
    <2> SUFFICES ASSUME IInv, ~ stolen, OnlyKeeps, NEW d \in medium \cup {Install(name)}
                 PROVE  Orig \in {d["dst"], d["bak"]}
      BY DEF OriginalKept, OnlyKeeps
    <2>1. InOrder(d) /\ d \in [dst : Files \cup {None}, bak : Files \cup {None}]
      BY FieldsOf DEF IInv, Directories, TypeOK
    <2> QED
      BY <2>1 DEF InOrder
  <1> QED
    BY <1>1, Invariance, PTL

=============================================================================
