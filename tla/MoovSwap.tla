------------------------------ MODULE MoovSwap ------------------------------
(***************************************************************************)
(* Editing an MP4 in place (mp4/editshift.go, mp4/editmeta.go): the new    *)
(* moov is appended and synced, then the old one, and any that earlier     *)
(* edits left behind, is turned into a free box by a flip of its type.     *)
(*                                                                         *)
(* Edits are numbered; box[i] is what follows the file as edit i found it: *)
(* the "moov" it appended (chapter titles included), a "free" box once     *)
(* retired, a "torn" append, "none". Box 0 is the original's moov. A       *)
(* reader takes the first moov of a walk from the head. A flip cut short   *)
(* leaves a type that is no moov either: it retires the box as well.       *)
(*                                                                         *)
(* may[i] is the set of values the medium may hold for box i: a write adds *)
(* to it, a sync leaves the value read back, a power cut picks one. An     *)
(* append over a truncated one has a box of its own here, so a cut may     *)
(* also find both whole, which two appends at one offset never leave.      *)
(***************************************************************************)
EXTENDS Naturals, FiniteSets

CONSTANTS
    MaxEdits,    \* bound: edits
    MaxCrashes,  \* bound: kills and power cuts
    MaxFaults    \* bound: calls that return an error

ASSUME MaxEditsAssumption == MaxEdits \in Nat \ {0}
ASSUME BoundsAssumption   == MaxCrashes \in Nat /\ MaxFaults \in Nat

VARIABLES
    box, may,
    pc,       \* the step of the running edit, "idle" when none runs
    edit,     \* the number of the last edit
    moovOff,  \* the moov it read and rewrites
    strays,   \* strayMoovs it still has to retire
    flipped,  \* the edits that began to retire the moov they replace
    acked,    \* the last edit that returned without an error
    cutShort, \* an append was cut by a crash, or not undone
    crashes, faults

vars == <<box, may, pc, edit, moovOff, strays, flipped, acked, cutShort, crashes, faults>>

Boxes  == 0 .. MaxEdits
States == {"none", "torn", "moov", "free"}
Steps  == {"idle", "open", "append", "undo", "sync", "strays", "syncStrays", "retire", "syncRetired", "orphans"}

\* The first moov of a forward walk, which desyncs on a torn append.
First(f, i) == f[i] = "moov" /\ \A j \in Boxes : j < i => f[j] \in {"free", "none"}

Init ==
    /\ box = [i \in Boxes |-> IF i = 0 THEN "moov" ELSE "none"]
    /\ may = [i \in Boxes |-> {box[i]}]
    /\ pc = "idle" /\ edit = 0 /\ moovOff = 0 /\ strays = {}
    /\ flipped = {} /\ acked = 0 /\ cutShort = FALSE
    /\ crashes = 0 /\ faults = 0

Goto(step) == pc' = step
Write(i, v) == box' = [box EXCEPT ![i] = v] /\ may' = [may EXCEPT ![i] = @ \cup {v}]
Sync == may' = [i \in Boxes |-> {box[i]}]
Fault == faults < MaxFaults /\ faults' = faults + 1

-----------------------------------------------------------------------------
Begin ==
    /\ pc = "idle" /\ edit < MaxEdits
    /\ edit' = edit + 1
    /\ Goto("open")
    /\ UNCHANGED <<box, may, moovOff, strays, flipped, acked, cutShort, crashes, faults>>

\* scanTopLevelLayout: the first moov is the one in use, the others strays.
Scan(i) ==
    /\ First(box, i)
    /\ strays' = {j \in Boxes : j > i /\ box[j] = "moov"}

\* The layout is whole, the edit is one the file takes, and its size is still
\* what it was when the append begins.
Open ==
    /\ pc = "open" /\ \A i \in Boxes : box[i] # "torn"
    /\ \E i \in Boxes : Scan(i) /\ moovOff' = i
    /\ Goto("append")
    /\ UNCHANGED <<box, may, edit, flipped, acked, cutShort, crashes, faults>>

\* A layout that does not walk, an edit the file cannot take, a handle without
\* Sync, a file another writer has grown: nothing was written.
Refuse ==
    /\ pc \in {"open", "append"}
    /\ Goto("idle")
    /\ UNCHANGED <<box, may, edit, moovOff, strays, flipped, acked, cutShort, crashes, faults>>

Append ==
    /\ pc = "append"
    /\ box' = [box EXCEPT ![edit] = "moov"]
    /\ may' = [may EXCEPT ![edit] = @ \cup {"torn", "moov"}]
    /\ Goto("sync")
    /\ UNCHANGED <<edit, moovOff, strays, flipped, acked, cutShort, crashes, faults>>

AppendFails ==
    /\ pc = "append" /\ Fault
    /\ \E v \in {"none", "torn", "moov"} :
          box' = [box EXCEPT ![edit] = v] /\ may' = [may EXCEPT ![edit] = @ \cup {v, "torn"}]
    /\ Goto("undo")
    /\ UNCHANGED <<edit, moovOff, strays, flipped, acked, cutShort, crashes>>

\* Mutant: the error is returned and what was appended stays.
UndoNothing ==
    /\ Goto("idle")
    /\ UNCHANGED <<box, may, cutShort, faults>>
\* The append is cut off again, when the handle can and the truncate, whose
\* error nobody looks at, works.
Undo ==
    /\ Goto("idle")
    /\ \/ Write(edit, "none") /\ UNCHANGED cutShort
       \/ cutShort' = TRUE /\ UNCHANGED <<box, may>>
    /\ UNCHANGED faults

FailAppend == pc = "undo" /\ Undo /\ UNCHANGED <<edit, moovOff, strays, flipped, acked, crashes>>

\* Mutant: the append is not synced.
SyncAppendLater ==
    /\ pc = "sync"
    /\ Goto("strays")
    /\ UNCHANGED <<box, may, edit, moovOff, strays, flipped, acked, cutShort, crashes, faults>>
SyncAppend ==
    /\ pc = "sync"
    /\ \/ Sync /\ Goto("strays") /\ UNCHANGED faults
       \/ Fault /\ Goto("undo") /\ UNCHANGED may
    /\ UNCHANGED <<box, edit, moovOff, strays, flipped, acked, cutShort, crashes>>

\* The strays go one by one, in file order.
RetireNext == \E i \in strays : (\A j \in strays : i <= j) /\ Write(i, "free") /\ strays' = strays \ {i}

RetireStray ==
    /\ pc = "strays" /\ strays # {}
    /\ \/ /\ RetireNext
          /\ Goto(IF strays' = {} THEN "syncStrays" ELSE "strays")
          /\ UNCHANGED faults
       \/ Fault /\ Goto("idle") /\ UNCHANGED <<box, may, strays>>
    /\ UNCHANGED <<edit, moovOff, flipped, acked, cutShort, crashes>>

NoStrays ==
    /\ pc = "strays" /\ strays = {}
    /\ Goto("retire")
    /\ UNCHANGED <<box, may, edit, moovOff, strays, flipped, acked, cutShort, crashes, faults>>

\* Mutant: the strays' flips and the live one share the last sync.
SyncStraysLater ==
    /\ pc = "syncStrays"
    /\ Goto("retire")
    /\ UNCHANGED <<box, may, edit, moovOff, strays, flipped, acked, cutShort, crashes, faults>>
SyncStrays ==
    /\ pc = "syncStrays"
    /\ \/ Sync /\ Goto("retire") /\ UNCHANGED faults
       \/ Fault /\ Goto("idle") /\ UNCHANGED may
    /\ UNCHANGED <<box, edit, moovOff, strays, flipped, acked, cutShort, crashes>>

\* The one flip that makes the appended moov the file's.
RetireMoov ==
    /\ pc = "retire"
    /\ \/ /\ Write(moovOff, "free")
          /\ flipped' = flipped \cup {edit}
          /\ Goto("syncRetired")
          /\ UNCHANGED faults
       \/ Fault /\ Goto("idle") /\ UNCHANGED <<box, may, flipped>>
    /\ UNCHANGED <<edit, moovOff, strays, acked, cutShort, crashes>>

\* Mutant: the edit returns without the last sync.
SyncRetiredNothing ==
    /\ pc = "syncRetired"
    /\ Goto("orphans")
    /\ UNCHANGED <<box, may, edit, moovOff, strays, flipped, acked, cutShort, crashes, faults>>
SyncRetired ==
    /\ pc = "syncRetired"
    /\ \/ Sync /\ Goto("orphans") /\ UNCHANGED faults
       \/ Fault /\ Goto("idle") /\ UNCHANGED may
    /\ UNCHANGED <<box, edit, moovOff, strays, flipped, acked, cutShort, crashes>>

\* The mdats of replaced chapter titles are retired too, and the edit returns:
\* no reader looks for them any more. A flip that fails is an error all the same.
RetireOrphans ==
    /\ pc = "orphans"
    /\ Goto("idle")
    /\ \/ acked' = edit /\ UNCHANGED faults
       \/ Fault /\ UNCHANGED acked
    /\ UNCHANGED <<box, may, edit, moovOff, strays, flipped, cutShort, crashes>>

\* The process is killed: a write may have landed in part.
Kill ==
    /\ pc # "idle" /\ crashes < MaxCrashes
    /\ crashes' = crashes + 1
    /\ Goto("idle")
    /\ IF pc = "append"
       THEN /\ cutShort' = TRUE
            /\ \E v \in {"none", "torn", "moov"} :
                  box' = [box EXCEPT ![edit] = v] /\ may' = [may EXCEPT ![edit] = @ \cup {v, "torn"}]
       ELSE /\ cutShort' = (cutShort \/ pc = "undo")
            /\ UNCHANGED <<box, may>>
    /\ UNCHANGED <<edit, moovOff, strays, flipped, acked, faults>>

\* What the medium may hold.
Media == {m \in [Boxes -> States] : \A i \in Boxes : m[i] \in may[i]}

PowerCut ==
    /\ crashes < MaxCrashes /\ crashes' = crashes + 1
    /\ box' \in Media
    /\ may' = [i \in Boxes |-> {box'[i]}]
    /\ Goto("idle") /\ cutShort' = TRUE
    /\ UNCHANGED <<edit, moovOff, strays, flipped, acked, faults>>

Next ==
    \/ Begin \/ Open \/ Refuse \/ Append \/ AppendFails \/ FailAppend \/ SyncAppend
    \/ RetireStray \/ NoStrays \/ SyncStrays \/ RetireMoov \/ SyncRetired \/ RetireOrphans
    \/ Kill \/ PowerCut

Spec == Init /\ [][Next]_vars

-----------------------------------------------------------------------------
TypeOK ==
    /\ box \in [Boxes -> States] /\ may \in [Boxes -> SUBSET States]
    /\ pc \in Steps /\ edit \in Boxes /\ moovOff \in Boxes /\ acked \in Boxes
    /\ flipped \subseteq Boxes /\ strays \subseteq {i \in Boxes : moovOff < i}
    /\ cutShort \in BOOLEAN /\ crashes \in 0 .. MaxCrashes /\ faults \in 0 .. MaxFaults

\* "At every instant the file carries one intact, authoritative moov": a reader
\* finds one now, and after a power cut at this instant.
AlwaysReadable == \A m \in Media \cup {box} : \E i \in Boxes : First(m, i)

\* An edit that failed or was interrupted before it retired the moov it
\* replaces is never read, whatever later edits do with what it left behind.
NeverHalfEdited == \A m \in Media \cup {box} : \A i \in Boxes : First(m, i) => i \in flipped \cup {0}

\* What an edit answered to its caller survives a power cut, and later edits
\* that fail.
EditKept == \A m \in Media \cup {box} : \A i \in Boxes : First(m, i) => acked <= i

\* An edit that returned leaves one moov in the file.
OneMoov == pc = "orphans" => \A i \in Boxes : may[i] \subseteq IF i = edit THEN {"moov"} ELSE {"none", "free"}

\* "A failed append is cut off again, so the file stays editable": only a crash
\* in an append, or a truncate that failed too, leaves a layout that does not walk.
StaysEditable == ~ cutShort /\ pc = "idle" => \A i \in Boxes : box[i] # "torn"

=============================================================================
