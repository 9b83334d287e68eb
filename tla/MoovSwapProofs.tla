--------------------------- MODULE MoovSwapProofs ---------------------------
(***************************************************************************)
(* For any number of edits, kills, power cuts and failing calls, an MP4    *)
(* edited in place is readable, shows no edit that did not reach its flip, *)
(* and keeps what was answered.                                            *)
(*                                                                         *)
(* The induction knows two boxes: b, the moov that is sure to be on the    *)
(* medium or retired, and f, the one every reader finds when b is retired. *)
(* They are one box once a sync has settled the last flip. What an edit    *)
(* has established at each of its steps is in Phase.                       *)
(***************************************************************************)
EXTENDS MoovSwap, TLAPS

Gone == {"none", "free"}

\* What the medium shows a reader: b, or f when b is retired.
Heads(b, f) ==
    /\ b <= f /\ acked <= b /\ {b, f} \subseteq flipped \cup {0}
    /\ may[f] = {"moov"} /\ may[b] \subseteq {"moov", "free"}
    /\ \A j \in Boxes : j < f /\ j # b => may[j] \subseteq Gone

Shape ==
    /\ \A i \in Boxes : box[i] \in may[i]
    /\ \A i \in Boxes : i > edit => may[i] = {"none"}
    /\ pc \in {"open", "append"} => may[edit] = {"none"}
    /\ flipped \subseteq 1 .. edit
    /\ pc \notin {"idle", "syncRetired", "orphans"} => edit \notin flipped
    /\ pc # "idle" => 0 < edit
    /\ acked <= edit
    /\ pc \notin {"idle", "orphans"} => acked < edit

Phase ==
    /\ pc \in {"append", "sync", "strays", "syncStrays", "retire"} =>
          /\ moovOff < edit /\ box[moovOff] = "moov"
          /\ strays \subseteq {j \in Boxes : moovOff < j /\ j < edit}
          /\ \A j \in Boxes : j < edit /\ j # moovOff /\ j \notin strays => box[j] \in Gone
    /\ pc \in {"strays", "syncStrays", "retire"} => Heads(moovOff, moovOff) /\ may[edit] = {"moov"}
    /\ (pc = "strays" /\ strays = {}) \/ pc = "retire" =>
          \A j \in Boxes : j < edit /\ j # moovOff => may[j] \subseteq Gone
    /\ pc = "syncStrays" => strays = {}
    /\ pc = "sync" => box[edit] = "moov"
    /\ pc = "syncRetired" => Heads(moovOff, edit) /\ box[moovOff] = "free"
    /\ pc = "orphans" => Heads(edit, edit)

IInv == TypeOK /\ Shape /\ Phase /\ \E b, f \in Boxes : Heads(b, f)

LEMMA IInvInit == Init => IInv
  <1> SUFFICES ASSUME Init PROVE IInv
    OBVIOUS
  <1>1. 0 \in Boxes /\ \A i \in Boxes : i \in Nat
    BY MaxEditsAssumption DEF Boxes
  <1>2. TypeOK
    <2>1. \A i \in Boxes : box[i] \in {"moov", "none"}
      BY <1>1 DEF Init
    <2>2. box \in [Boxes -> States] /\ may \in [Boxes -> SUBSET States]
      BY <2>1 DEF Init, States
    <2>3. crashes \in 0 .. MaxCrashes /\ faults \in 0 .. MaxFaults
      BY BoundsAssumption DEF Init
    <2> QED
      BY <1>1, <2>2, <2>3 DEF Init, TypeOK, Steps
  <1>4. Shape /\ Phase
    BY <1>1 DEF Init, Shape, Phase
  <1>3. Heads(0, 0)
    BY <1>1 DEF Init, Heads, Gone
  <1> QED
    BY <1>1, <1>2, <1>3, <1>4 DEF IInv

\* A write past f disturbs neither head.
LEMMA HeadsStay ==
    ASSUME IInv, NEW b \in Boxes, NEW f \in Boxes, Heads(b, f),
           \A j \in Boxes : j <= f => may'[j] = may[j],
           acked' = acked, flipped \subseteq flipped'
    PROVE  Heads(b, f)'
  <1>1. b \in Nat /\ f \in Nat /\ \A j \in Boxes : j \in Nat
    BY DEF Boxes
  <1> QED
    BY <1>1 DEF Heads

\* Until its flip, the running edit's box lies past both heads.
LEMMA HeadsBefore ==
    ASSUME IInv, pc \notin {"idle", "syncRetired", "orphans"},
           NEW b \in Boxes, NEW f \in Boxes, Heads(b, f)
    PROVE  f < edit
  <1>1. f \in flipped \cup {0} /\ flipped \subseteq 1 .. edit /\ edit \notin flipped /\ 0 < edit
    BY DEF Heads, IInv, Shape
  <1> QED
    BY <1>1 DEF IInv, TypeOK, Boxes

\* A sync settles the heads on the one a reader finds now.
LEMMA HeadsSettle ==
    ASSUME IInv, Sync, UNCHANGED <<box, acked, flipped>>,
           NEW b \in Boxes, NEW f \in Boxes, Heads(b, f)
    PROVE  /\ box[b] = "moov" => Heads(b, b)'
           /\ box[b] # "moov" => Heads(f, f)'
  <1>1. b \in Nat /\ f \in Nat /\ acked \in Nat /\ \A j \in Boxes : j \in Nat
    BY DEF Boxes, IInv, TypeOK
  <1>2. \A j \in Boxes : may'[j] = {box[j]} /\ box[j] \in may[j]
    BY DEF Sync, IInv, Shape
  <1>3. box[f] = "moov" /\ box[b] \in {"moov", "free"}
    BY <1>2 DEF Heads
  <1>4. \A j \in Boxes : j < f /\ j # b => box[j] \in Gone
    BY <1>2 DEF Heads
  <1>5. CASE box[b] = "moov"
    BY <1>1, <1>2, <1>4, <1>5 DEF Heads
  <1>6. CASE box[b] # "moov"
    <2>1. box[b] \in Gone
      BY <1>3, <1>6 DEF Gone
    <2>2. \A j \in Boxes : j < f => box[j] \in Gone
      BY <1>4, <2>1
    <2>3. \A j \in Boxes : j < f => may'[j] \subseteq Gone
      BY <1>2, <2>2
    <2>4. may'[f] = {"moov"} /\ acked <= f /\ f <= f
      BY <1>1, <1>2, <1>3 DEF Heads
    <2> QED
      BY <1>6, <2>3, <2>4 DEF Heads
  <1> QED
    BY <1>5, <1>6

\* A write to the running edit's box, before it is synced.
LEMMA WritePast ==
    ASSUME IInv, pc \in {"append", "undo"}, NEW v \in States, NEW more \in SUBSET States,
           v \in may[edit] \cup more,
           box' = [box EXCEPT ![edit] = v], may' = [may EXCEPT ![edit] = @ \cup more],
           UNCHANGED <<edit, moovOff, strays, flipped, acked>>
    PROVE  /\ box' \in [Boxes -> States] /\ may' \in [Boxes -> SUBSET States]
           /\ \A i \in Boxes : box'[i] \in may'[i]
           /\ \A i \in Boxes : i > edit => may'[i] = {"none"}
           /\ \E b, f \in Boxes : Heads(b, f)'
  <1>0. edit \in Boxes /\ box \in [Boxes -> States] /\ may \in [Boxes -> SUBSET States]
    BY DEF IInv, TypeOK
  <1>1. PICK b \in Boxes, f \in Boxes : Heads(b, f)
    BY DEF IInv
  <1>2. f < edit /\ edit \in Nat /\ f \in Nat /\ \A j \in Boxes : j \in Nat
    BY <1>1, HeadsBefore DEF IInv, TypeOK, Boxes
  <1>3. Heads(b, f)'
    BY <1>0, <1>1, <1>2, HeadsStay
  <1>4. box' \in [Boxes -> States] /\ may' \in [Boxes -> SUBSET States]
    BY <1>0
  <1>5. \A i \in Boxes : box'[i] \in may'[i]
    BY <1>0 DEF IInv, Shape
  <1>6. \A i \in Boxes : i > edit => may'[i] = {"none"}
    BY <1>0, <1>2 DEF IInv, Shape
  <1> QED
    BY <1>3, <1>4, <1>5, <1>6

LEMMA BeginKeeps == IInv /\ Begin => IInv'
  <1> SUFFICES ASSUME IInv, Begin PROVE IInv'
    OBVIOUS
  <1> USE DEF IInv, Begin, Goto
  <1>0. edit \in 0 .. MaxEdits /\ edit' = edit + 1 /\ MaxEdits \in Nat
    BY MaxEditsAssumption DEF TypeOK, Boxes
  <1>1. TypeOK'
    BY <1>0 DEF TypeOK, Boxes, Steps
  <1>2. \A i \in Boxes : i > edit' => i > edit
    BY <1>0 DEF Boxes
  <1>3. flipped \subseteq 1 .. edit' /\ edit' \notin flipped
    BY <1>0 DEF Shape
  <1>4. edit' \in Boxes /\ edit' > edit /\ acked < edit'
    BY <1>0 DEF Boxes, Shape, TypeOK
  <1>5. Shape'
    <2>1. may'[edit'] = {"none"} /\ \A i \in Boxes : box'[i] \in may'[i]
      BY <1>4 DEF Shape
    <2>2. \A i \in Boxes : i > edit' => may'[i] = {"none"}
      BY <1>2 DEF Shape
    <2>3. 0 < edit' /\ acked' <= edit' /\ acked' < edit' /\ pc' = "open"
      BY <1>0, <1>4 DEF TypeOK, Boxes
    <2> QED
      BY <1>3, <2>1, <2>2, <2>3 DEF Shape
  <1>6. Phase'
    BY DEF Phase
  <1>7. \E b, f \in Boxes : Heads(b, f)'
    BY DEF Heads
  <1> QED
    BY <1>1, <1>5, <1>6, <1>7

LEMMA OpenKeeps == IInv /\ Open => IInv'
  <1> SUFFICES ASSUME IInv, Open PROVE IInv'
    OBVIOUS
  <1> USE DEF IInv, Open, Goto
  <1>0. edit \in Nat /\ \A j \in Boxes : j \in Nat
    BY DEF TypeOK, Boxes
  <1>1. PICK i \in Boxes : Scan(i) /\ moovOff' = i
    OBVIOUS
  <1>2. box[i] = "moov" /\ \A j \in Boxes : j < i => box[j] \in Gone
    BY <1>1 DEF Scan, First, Gone
  <1>3. \A j \in Boxes : box[j] = "moov" => j < edit
    <2>1. \A j \in Boxes : j >= edit => box[j] = "none"
      <3>1. may[edit] = {"none"} /\ \A j \in Boxes : j > edit => may[j] = {"none"}
        BY DEF Shape
      <3>2. \A j \in Boxes : box[j] \in may[j]
        BY DEF Shape
      <3> QED
        BY <1>0, <3>1, <3>2
    <2> QED
      BY <1>0, <2>1
  <1>4. strays' = {j \in Boxes : j > i /\ box[j] = "moov"}
    BY <1>1 DEF Scan
  <1>5. TypeOK'
    BY <1>0, <1>1, <1>4 DEF TypeOK, Steps
  <1>6. Shape'
    BY DEF Shape
  <1>7. Phase'
    <2>1. i < edit /\ strays' \subseteq {j \in Boxes : i < j /\ j < edit}
      BY <1>0, <1>2, <1>3, <1>4
    <2>2. ASSUME NEW j \in Boxes, j # i, j \notin strays' PROVE box[j] \in Gone
      <3>1. CASE j < i
        BY <1>2, <3>1
      <3>2. CASE j > i
        <4>1. box[j] # "moov"
          BY <1>4, <2>2, <3>2
        <4> QED
          BY <4>1 DEF TypeOK, States, Gone
      <3> QED
        BY <1>0, <2>2, <3>1, <3>2
    <2> QED
      BY <1>1, <1>2, <2>1, <2>2 DEF Phase
  <1>8. \E b, f \in Boxes : Heads(b, f)'
    BY DEF Heads
  <1> QED
    BY <1>5, <1>6, <1>7, <1>8

LEMMA RefuseKeeps == IInv /\ Refuse => IInv'
  <1> SUFFICES ASSUME IInv, Refuse PROVE IInv'
    OBVIOUS
  <1> USE DEF IInv, Refuse, Goto
  <1>1. TypeOK' /\ Shape' /\ Phase'
    BY DEF TypeOK, Steps, Shape, Phase
  <1>2. \E b, f \in Boxes : Heads(b, f)'
    BY DEF Heads
  <1> QED
    BY <1>1, <1>2

LEMMA AppendKeeps == IInv /\ Append => IInv'
  <1> SUFFICES ASSUME IInv, Append PROVE IInv'
    OBVIOUS
  <1> USE DEF IInv, Append, Goto
  <1>0. edit \in Boxes /\ moovOff \in Boxes /\ edit \in Nat /\ \A j \in Boxes : j \in Nat
    BY DEF TypeOK, Boxes
  <1>1. /\ box' \in [Boxes -> States] /\ may' \in [Boxes -> SUBSET States]
        /\ \A i \in Boxes : box'[i] \in may'[i]
        /\ \A i \in Boxes : i > edit => may'[i] = {"none"}
        /\ \E b, f \in Boxes : Heads(b, f)'
    BY WritePast DEF States
  <1>2. TypeOK'
    BY <1>1 DEF TypeOK, Steps
  <1>3. Shape'
    BY <1>1 DEF Shape
  <1>4. \A j \in Boxes : j # edit => box'[j] = box[j]
    BY DEF TypeOK
  <1>5. box'[edit] = "moov"
    BY <1>0 DEF TypeOK
  <1>6. Phase'
    BY <1>0, <1>4, <1>5 DEF Phase
  <1> QED
    BY <1>1, <1>2, <1>3, <1>6

\* An append that an error or a kill cut short, or not.
LEMMA CutAppendKeeps ==
    ASSUME IInv, pc = "append", NEW v \in {"none", "torn", "moov"}, pc' \in {"idle", "undo"},
           box' = [box EXCEPT ![edit] = v], may' = [may EXCEPT ![edit] = @ \cup {v, "torn"}],
           UNCHANGED <<edit, moovOff, strays, flipped, acked>>,
           cutShort' \in BOOLEAN, crashes' \in 0 .. MaxCrashes, faults' \in 0 .. MaxFaults
    PROVE  IInv'
  <1> USE DEF IInv
  <1>1. /\ box' \in [Boxes -> States] /\ may' \in [Boxes -> SUBSET States]
        /\ \A i \in Boxes : box'[i] \in may'[i]
        /\ \A i \in Boxes : i > edit => may'[i] = {"none"}
        /\ \E b, f \in Boxes : Heads(b, f)'
    <2>1. v \in States /\ {v, "torn"} \in SUBSET States
      BY DEF States
    <2> QED
      BY <2>1, WritePast
  <1>2. TypeOK' /\ Shape' /\ Phase'
    BY <1>1 DEF TypeOK, Steps, Shape, Phase
  <1> QED
    BY <1>1, <1>2

LEMMA AppendFailsKeeps == IInv /\ AppendFails => IInv'
  <1> SUFFICES ASSUME IInv, AppendFails PROVE IInv'
    OBVIOUS
  <1>1. faults' \in 0 .. MaxFaults /\ cutShort' \in BOOLEAN /\ crashes' \in 0 .. MaxCrashes
    BY BoundsAssumption DEF IInv, TypeOK, AppendFails, Fault
  <1> QED
    BY <1>1, CutAppendKeeps DEF AppendFails, Goto

LEMMA FailAppendKeeps == IInv /\ FailAppend => IInv'
  <1> SUFFICES ASSUME IInv, FailAppend PROVE IInv'
    OBVIOUS
  <1> USE DEF IInv, FailAppend, Undo, Goto
  <1>1. CASE UNCHANGED <<box, may>>
    <2>1. TypeOK' /\ Shape' /\ Phase'
      BY <1>1 DEF TypeOK, Steps, Shape, Phase
    <2>2. \E b, f \in Boxes : Heads(b, f)'
      BY <1>1 DEF Heads
    <2> QED
      BY <2>1, <2>2
  <1>2. CASE Write(edit, "none") /\ UNCHANGED cutShort
    <2>1. /\ box' \in [Boxes -> States] /\ may' \in [Boxes -> SUBSET States]
          /\ \A i \in Boxes : box'[i] \in may'[i]
          /\ \A i \in Boxes : i > edit => may'[i] = {"none"}
          /\ \E b, f \in Boxes : Heads(b, f)'
      BY <1>2, WritePast DEF Write, States
    <2>2. TypeOK' /\ Shape' /\ Phase'
      BY <1>2, <2>1 DEF TypeOK, Steps, Shape, Phase
    <2> QED
      BY <2>1, <2>2
  <1> QED
    BY <1>1, <1>2

\* Nothing written: an error returned before the next write.
LEMMA StopKeeps ==
    ASSUME IInv, pc' \in {"idle", "undo"}, UNCHANGED <<box, may, edit, moovOff, strays, flipped, acked, cutShort, crashes>>,
           faults' \in 0 .. MaxFaults, pc' = "undo" => pc = "sync"
    PROVE  IInv'
  <1> USE DEF IInv
  <1>1. TypeOK' /\ Shape' /\ Phase'
    BY DEF TypeOK, Steps, Shape, Phase
  <1>2. \E b, f \in Boxes : Heads(b, f)'
    BY DEF Heads
  <1> QED
    BY <1>1, <1>2

LEMMA FaultType == IInv /\ Fault => faults' \in 0 .. MaxFaults
  BY BoundsAssumption DEF IInv, TypeOK, Fault

LEMMA SyncAppendKeeps == IInv /\ SyncAppend => IInv'
  <1> SUFFICES ASSUME IInv, SyncAppend PROVE IInv'
    OBVIOUS
  <1> USE DEF SyncAppend, Goto
  <1>1. CASE Fault /\ pc' = "undo" /\ UNCHANGED may
    BY <1>1, FaultType, StopKeeps
  <1>2. CASE Sync /\ pc' = "strays" /\ UNCHANGED faults
    <2>0. edit \in Boxes /\ moovOff \in Boxes /\ edit \in Nat /\ \A j \in Boxes : j \in Nat
      BY DEF IInv, TypeOK, Boxes
    <2>1. /\ moovOff < edit /\ box[moovOff] = "moov" /\ box[edit] = "moov"
          /\ \A j \in strays : moovOff < j
          /\ \A j \in Boxes : j < edit /\ j # moovOff /\ j \notin strays => box[j] \in Gone
      BY DEF IInv, Phase
    <2>2. may' = [i \in Boxes |-> {box[i]}]
      BY <1>2 DEF Sync
    <2>3. Heads(moovOff, moovOff)'
      <3>1. PICK b \in Boxes, f \in Boxes : Heads(b, f)
        BY DEF IInv
      <3>2. f < edit /\ b \in Nat /\ f \in Nat /\ b <= f
        BY <2>0, <3>1, HeadsBefore DEF Heads
      <3>3. box[f] = "moov" /\ \A j \in Boxes : j < f /\ j # b => box[j] \in Gone
        BY <3>1 DEF Heads, IInv, Shape
      <3>4. box[b] = "moov" => b = moovOff
        <4>1. ASSUME box[b] = "moov", b # moovOff PROVE FALSE
          <5>0. b < edit /\ box[b] \notin Gone
            BY <2>0, <3>2, <4>1 DEF Gone
          <5>1. b \in strays /\ moovOff < b
            BY <2>1, <4>1, <5>0
          <5>2. box[moovOff] \in Gone
            BY <2>0, <3>2, <3>3, <5>1
          <5> QED
            BY <2>1, <5>2 DEF Gone
        <4> QED
          BY <4>1
      <3>5. box[b] # "moov" => f = moovOff
        <4>1. ASSUME box[b] # "moov", f # moovOff PROVE FALSE
          <5>0. f < edit /\ box[f] \notin Gone
            BY <3>2, <3>3 DEF Gone
          <5>1. f \in strays /\ moovOff < f
            BY <2>1, <4>1, <5>0
          <5>2. box[moovOff] \in Gone
            BY <2>0, <2>1, <3>3, <4>1, <5>1
          <5> QED
            BY <2>1, <5>2 DEF Gone
        <4> QED
          BY <4>1
      <3>6. (box[b] = "moov" => Heads(b, b)') /\ (box[b] # "moov" => Heads(f, f)')
        BY <1>2, <3>1, HeadsSettle
      <3>7. UNCHANGED moovOff
        OBVIOUS
      <3>8. CASE box[b] = "moov"
        BY <3>4, <3>6, <3>7, <3>8 DEF Heads
      <3>9. CASE box[b] # "moov"
        BY <3>5, <3>6, <3>7, <3>9 DEF Heads
      <3> QED
        BY <3>8, <3>9
    <2>4. TypeOK'
      BY <1>2, <2>2 DEF IInv, TypeOK, Steps
    <2>5. Shape'
      BY <1>2, <2>0, <2>2 DEF IInv, Shape
    <2>6. Phase'
      <3>1. may'[edit] = {"moov"}
        BY <2>0, <2>1, <2>2
      <3>2. strays = {} => \A j \in Boxes : j < edit /\ j # moovOff => may'[j] \subseteq Gone
        BY <2>1, <2>2
      <3> QED
        BY <1>2, <2>1, <2>3, <3>1, <3>2 DEF IInv, Phase
    <2>7. \E b, f \in Boxes : Heads(b, f)'
      BY <2>0, <2>3 DEF Heads
    <2> QED
      BY <2>4, <2>5, <2>6, <2>7 DEF IInv
  <1> QED
    BY <1>1, <1>2

LEMMA RetireStrayKeeps == IInv /\ RetireStray => IInv'
  <1> SUFFICES ASSUME IInv, RetireStray PROVE IInv'
    OBVIOUS
  <1> USE DEF RetireStray, Goto
  <1>1. CASE Fault /\ pc' = "idle" /\ UNCHANGED <<box, may, strays>>
    BY <1>1, FaultType, StopKeeps
  <1>2. CASE RetireNext /\ pc' = (IF strays' = {} THEN "syncStrays" ELSE "strays") /\ UNCHANGED faults
    <2>0. edit \in Boxes /\ moovOff \in Boxes /\ edit \in Nat /\ \A j \in Boxes : j \in Nat
      BY DEF IInv, TypeOK, Boxes
    <2>1. PICK i \in strays : Write(i, "free") /\ strays' = strays \ {i}
      BY <1>2 DEF RetireNext
    <2>2. moovOff < edit /\ box[moovOff] = "moov" /\ may[edit] = {"moov"} /\ Heads(moovOff, moovOff)
          /\ i \in Boxes /\ moovOff < i /\ i < edit
          /\ strays \subseteq {j \in Boxes : moovOff < j /\ j < edit}
          /\ \A j \in Boxes : j < edit /\ j # moovOff /\ j \notin strays => box[j] \in Gone
      BY DEF IInv, Phase
    <2>12. i \in Boxes /\ moovOff < i /\ i < edit
      BY <2>2
    <2>3. box' = [box EXCEPT ![i] = "free"] /\ may' = [may EXCEPT ![i] = @ \cup {"free"}]
      BY <2>1 DEF Write
    <2>4. \A j \in Boxes : j # i => box'[j] = box[j] /\ may'[j] = may[j]
      BY <2>3 DEF IInv, TypeOK
    <2>5. box'[i] = "free" /\ may'[i] = may[i] \cup {"free"}
      BY <2>2, <2>3 DEF IInv, TypeOK
    <2>11. i # edit /\ \A j \in Boxes : j <= moovOff => j # i
      BY <2>0, <2>12
    <2>6. Heads(moovOff, moovOff)'
      <3>1. \A j \in Boxes : j <= moovOff => may'[j] = may[j]
        BY <2>4, <2>11
      <3> QED
        BY <2>0, <2>2, <3>1 DEF Heads
    <2>7. TypeOK'
      <3>1. box' \in [Boxes -> States] /\ may' \in [Boxes -> SUBSET States]
        BY <2>3 DEF IInv, TypeOK, States
      <3>2. strays' \subseteq strays
        BY <2>1
      <3> QED
        BY <1>2, <3>1, <3>2 DEF IInv, TypeOK, Steps
    <2>8. Shape'
      <3>1. \A j \in Boxes : box'[j] \in may'[j]
        BY <2>4, <2>5 DEF IInv, Shape
      <3>2. \A j \in Boxes : j > edit => may'[j] = {"none"}
        BY <2>0, <2>2, <2>4 DEF IInv, Shape
      <3> QED
        BY <1>2, <3>1, <3>2 DEF IInv, Shape
    <2>9. Phase'
      <3>1. \A j \in Boxes : j < edit /\ j # moovOff /\ j \notin strays' => box'[j] \in Gone
        <4> SUFFICES ASSUME NEW j \in Boxes, j < edit, j # moovOff, j \notin strays' PROVE box'[j] \in Gone
          OBVIOUS
        <4>1. CASE j = i
          BY <2>5, <4>1 DEF Gone
        <4>2. CASE j # i
          BY <2>1, <2>2, <2>4, <4>2
        <4> QED
          BY <4>1, <4>2
      <3>2. may'[edit] = {"moov"} /\ box'[moovOff] = "moov"
        BY <2>0, <2>2, <2>4, <2>11
      <3>3. strays' \subseteq {j \in Boxes : moovOff < j /\ j < edit}
        BY <2>1, <2>2
      <3>4. pc' \in {"strays", "syncStrays"} /\ (pc' = "strays" => strays' # {}) /\ (pc' = "syncStrays" => strays' = {})
        BY <1>2
      <3> QED
        BY <2>2, <2>6, <3>1, <3>2, <3>3, <3>4 DEF Phase
    <2>10. \E b, f \in Boxes : Heads(b, f)'
      BY <2>0, <2>6 DEF Heads
    <2> QED
      BY <2>7, <2>8, <2>9, <2>10 DEF IInv
  <1> QED
    BY <1>1, <1>2

LEMMA NoStraysKeeps == IInv /\ NoStrays => IInv'
  <1> SUFFICES ASSUME IInv, NoStrays PROVE IInv'
    OBVIOUS
  <1> USE DEF IInv, NoStrays, Goto
  <1>1. Heads(moovOff, moovOff)'
    BY DEF Phase, Heads
  <1>2. TypeOK' /\ Shape'
    BY DEF TypeOK, Steps, Shape
  <1>3. Phase'
    BY <1>1 DEF Phase
  <1>4. \E b, f \in Boxes : Heads(b, f)'
    BY DEF Heads
  <1> QED
    BY <1>2, <1>3, <1>4

LEMMA SyncStraysKeeps == IInv /\ SyncStrays => IInv'
  <1> SUFFICES ASSUME IInv, SyncStrays PROVE IInv'
    OBVIOUS
  <1> USE DEF SyncStrays, Goto
  <1>1. CASE Fault /\ pc' = "idle" /\ UNCHANGED may
    BY <1>1, FaultType, StopKeeps
  <1>2. CASE Sync /\ pc' = "retire" /\ UNCHANGED faults
    <2>0. edit \in Boxes /\ moovOff \in Boxes /\ edit \in Nat /\ \A j \in Boxes : j \in Nat
      BY DEF IInv, TypeOK, Boxes
    <2>1. moovOff < edit /\ box[moovOff] = "moov" /\ may[edit] = {"moov"} /\ Heads(moovOff, moovOff) /\ strays = {}
          /\ \A j \in Boxes : j < edit /\ j # moovOff => box[j] \in Gone
      BY DEF IInv, Phase
    <2>2. may' = [i \in Boxes |-> {box[i]}]
      BY <1>2 DEF Sync
    <2>3. Heads(moovOff, moovOff)'
      <3>1. UNCHANGED <<box, acked, flipped, moovOff>>
        OBVIOUS
      <3> QED
        BY <1>2, <2>0, <2>1, <3>1, HeadsSettle DEF Heads
    <2>4. TypeOK'
      BY <1>2, <2>2 DEF IInv, TypeOK, Steps
    <2>5. Shape'
      BY <1>2, <2>0, <2>2 DEF IInv, Shape
    <2>6. may'[edit] = {"moov"}
      BY <2>0, <2>1, <2>2 DEF IInv, Shape
    <2>7. Phase'
      BY <1>2, <2>1, <2>2, <2>3, <2>6 DEF Phase
    <2>8. \E b, f \in Boxes : Heads(b, f)'
      BY <2>0, <2>3 DEF Heads
    <2> QED
      BY <2>4, <2>5, <2>7, <2>8 DEF IInv
  <1> QED
    BY <1>1, <1>2

LEMMA RetireMoovKeeps == IInv /\ RetireMoov => IInv'
  <1> SUFFICES ASSUME IInv, RetireMoov PROVE IInv'
    OBVIOUS
  <1> USE DEF RetireMoov, Goto
  <1>1. CASE Fault /\ pc' = "idle" /\ UNCHANGED <<box, may, flipped>>
    BY <1>1, FaultType, StopKeeps
  <1>2. CASE Write(moovOff, "free") /\ flipped' = flipped \cup {edit} /\ pc' = "syncRetired" /\ UNCHANGED faults
    <2>0. edit \in Boxes /\ moovOff \in Boxes /\ edit \in Nat /\ \A j \in Boxes : j \in Nat
      BY DEF IInv, TypeOK, Boxes
    <2>1. moovOff < edit /\ may[edit] = {"moov"} /\ Heads(moovOff, moovOff)
          /\ \A j \in Boxes : j < edit /\ j # moovOff => may[j] \subseteq Gone
      BY DEF IInv, Phase
    <2>2. box' = [box EXCEPT ![moovOff] = "free"] /\ may' = [may EXCEPT ![moovOff] = @ \cup {"free"}]
      BY <1>2 DEF Write
    <2>3. \A j \in Boxes : j # moovOff => box'[j] = box[j] /\ may'[j] = may[j]
      BY <2>2 DEF IInv, TypeOK
    <2>4. box'[moovOff] = "free" /\ may'[moovOff] = {"moov", "free"}
      BY <2>0, <2>1, <2>2 DEF IInv, TypeOK, Heads
    <2>5. Heads(moovOff, edit)'
      <3>1. may'[edit] = {"moov"}
        BY <2>0, <2>1, <2>3
      <3>2. \A j \in Boxes : j < edit /\ j # moovOff => may'[j] \subseteq Gone
        BY <2>1, <2>3
      <3>3. moovOff <= edit /\ acked <= moovOff /\ {moovOff, edit} \subseteq flipped' \cup {0}
        BY <1>2, <2>0, <2>1 DEF Heads
      <3> QED
        BY <2>4, <3>1, <3>2, <3>3 DEF Heads
    <2>6. TypeOK'
      <3>1. box' \in [Boxes -> States] /\ may' \in [Boxes -> SUBSET States]
        BY <2>2 DEF IInv, TypeOK, States
      <3> QED
        BY <1>2, <2>0, <3>1 DEF IInv, TypeOK, Steps
    <2>7. Shape'
      <3>1. \A j \in Boxes : box'[j] \in may'[j]
        BY <2>3, <2>4 DEF IInv, Shape
      <3>2. \A j \in Boxes : j > edit => may'[j] = {"none"}
        BY <2>0, <2>1, <2>3 DEF IInv, Shape
      <3>3. flipped' \subseteq 1 .. edit
        <4>1. flipped \subseteq 1 .. edit /\ 0 < edit
          BY DEF IInv, Shape
        <4>2. edit \in 1 .. edit
          BY <2>0, <4>1
        <4> QED
          BY <1>2, <4>1, <4>2
      <3> QED
        BY <1>2, <3>1, <3>2, <3>3 DEF IInv, Shape
    <2>8. Phase'
      BY <1>2, <2>4, <2>5 DEF Phase
    <2>9. \E b, f \in Boxes : Heads(b, f)'
      BY <2>0, <2>5 DEF Heads
    <2> QED
      BY <2>6, <2>7, <2>8, <2>9 DEF IInv
  <1> QED
    BY <1>1, <1>2

LEMMA SyncRetiredKeeps == IInv /\ SyncRetired => IInv'
  <1> SUFFICES ASSUME IInv, SyncRetired PROVE IInv'
    OBVIOUS
  <1> USE DEF SyncRetired, Goto
  <1>1. CASE Fault /\ pc' = "idle" /\ UNCHANGED may
    BY <1>1, FaultType, StopKeeps
  <1>2. CASE Sync /\ pc' = "orphans" /\ UNCHANGED faults
    <2>0. edit \in Boxes /\ moovOff \in Boxes
      BY DEF IInv, TypeOK
    <2>1. Heads(moovOff, edit) /\ box[moovOff] = "free"
      BY DEF IInv, Phase
    <2>2. may' = [i \in Boxes |-> {box[i]}]
      BY <1>2 DEF Sync
    <2>3. Heads(edit, edit)'
      <3>1. UNCHANGED <<box, acked, flipped, edit>>
        OBVIOUS
      <3> QED
        BY <1>2, <2>0, <2>1, <3>1, HeadsSettle DEF Heads
    <2>4. TypeOK'
      BY <1>2, <2>2 DEF IInv, TypeOK, Steps
    <2>5. Shape'
      BY <1>2, <2>0, <2>2 DEF IInv, Shape
    <2>6. Phase'
      BY <1>2, <2>3 DEF Phase
    <2>7. \E b, f \in Boxes : Heads(b, f)'
      BY <2>0, <2>3 DEF Heads
    <2> QED
      BY <2>4, <2>5, <2>6, <2>7 DEF IInv
  <1> QED
    BY <1>1, <1>2

LEMMA RetireOrphansKeeps == IInv /\ RetireOrphans => IInv'
  <1> SUFFICES ASSUME IInv, RetireOrphans PROVE IInv'
    OBVIOUS
  <1> USE DEF RetireOrphans, Goto
  <1>1. CASE Fault /\ UNCHANGED acked
    BY <1>1, FaultType, StopKeeps
  <1>2. CASE acked' = edit /\ UNCHANGED faults
    <2>0. edit \in Boxes /\ edit \in Nat
      BY DEF IInv, TypeOK, Boxes
    <2>1. Heads(edit, edit)'
      BY <1>2, <2>0 DEF IInv, Phase, Heads
    <2>2. TypeOK' /\ Shape' /\ Phase'
      BY <1>2, <2>0 DEF IInv, TypeOK, Steps, Shape, Phase
    <2>3. \E b, f \in Boxes : Heads(b, f)'
      BY <2>0, <2>1 DEF Heads
    <2> QED
      BY <2>2, <2>3 DEF IInv
  <1> QED
    BY <1>1, <1>2

LEMMA KillKeeps == IInv /\ Kill => IInv'
  <1> SUFFICES ASSUME IInv, Kill PROVE IInv'
    OBVIOUS
  <1>0. cutShort' \in BOOLEAN /\ crashes' \in 0 .. MaxCrashes /\ faults' \in 0 .. MaxFaults
    <2>1. crashes \in 0 .. MaxCrashes /\ faults \in 0 .. MaxFaults /\ cutShort \in BOOLEAN
      BY DEF IInv, TypeOK
    <2>2. crashes < MaxCrashes /\ crashes' = crashes + 1 /\ faults' = faults
      BY DEF Kill
    <2>3. cutShort' = TRUE \/ cutShort' = (cutShort \/ pc = "undo")
      BY DEF Kill
    <2>4. cutShort' \in BOOLEAN
      BY <2>1, <2>3
    <2>5. crashes' \in 0 .. MaxCrashes
      BY <2>1, <2>2, BoundsAssumption
    <2> QED
      BY <2>1, <2>2, <2>4, <2>5
  <1>1. CASE pc = "append"
    BY <1>0, <1>1, CutAppendKeeps DEF Kill, Goto
  <1>2. CASE pc # "append"
    <2>1. UNCHANGED <<box, may, edit, moovOff, strays, flipped, acked>> /\ pc' = "idle"
      BY <1>2 DEF Kill, Goto
    <2>2. TypeOK' /\ Shape' /\ Phase'
      BY <1>0, <2>1 DEF IInv, TypeOK, Steps, Shape, Phase
    <2>3. \E b, f \in Boxes : Heads(b, f)'
      BY <2>1 DEF IInv, Heads
    <2> QED
      BY <2>2, <2>3 DEF IInv
  <1> QED
    BY <1>1, <1>2

LEMMA PowerCutKeeps == IInv /\ PowerCut => IInv'
  <1> SUFFICES ASSUME IInv, PowerCut PROVE IInv'
    OBVIOUS
  <1> USE DEF PowerCut, Goto
  <1>0. \A j \in Boxes : j \in Nat
    BY DEF Boxes
  <1>1. box' \in [Boxes -> States] /\ may' = [i \in Boxes |-> {box'[i]}] /\ \A i \in Boxes : box'[i] \in may[i]
    BY DEF Media
  <1>2. TypeOK'
    BY <1>1, BoundsAssumption DEF IInv, TypeOK, Steps
  <1>3. Shape' /\ Phase'
    BY <1>1 DEF IInv, Shape, Phase
  <1>4. \E b, f \in Boxes : Heads(b, f)'
    <2>1. PICK b \in Boxes, f \in Boxes : Heads(b, f)
      BY DEF IInv
    <2>2. box'[f] = "moov" /\ box'[b] \in {"moov", "free"} /\ \A j \in Boxes : j < f /\ j # b => box'[j] \in Gone
      BY <1>1, <2>1 DEF Heads
    <2>3. b \in Nat /\ f \in Nat /\ acked \in Nat /\ b <= f /\ acked <= b /\ {b, f} \subseteq flipped \cup {0}
      BY <1>0, <2>1 DEF Heads, IInv, TypeOK
    <2>4. CASE box'[b] = "moov"
      <3>1. Heads(b, b)'
        BY <1>0, <1>1, <2>2, <2>3, <2>4 DEF Heads
      <3> QED
        BY <3>1
    <2>5. CASE box'[b] = "free"
      <3>1. \A j \in Boxes : j < f => box'[j] \in Gone
        BY <2>2, <2>5 DEF Gone
      <3>2. Heads(f, f)'
        BY <1>0, <1>1, <2>2, <2>3, <3>1 DEF Heads
      <3> QED
        BY <3>2
    <2> QED
      BY <2>2, <2>4, <2>5
  <1> QED
    BY <1>2, <1>3, <1>4 DEF IInv

LEMMA IInvInductive == IInv /\ [Next]_vars => IInv'
  <1> SUFFICES ASSUME IInv, [Next]_vars PROVE IInv'
    OBVIOUS
  <1>1. CASE Next
    BY <1>1, BeginKeeps, OpenKeeps, RefuseKeeps, AppendKeeps, AppendFailsKeeps, FailAppendKeeps,
       SyncAppendKeeps, RetireStrayKeeps, NoStraysKeeps, SyncStraysKeeps, RetireMoovKeeps,
       SyncRetiredKeeps, RetireOrphansKeeps, KillKeeps, PowerCutKeeps DEF Next
  <1>2. CASE UNCHANGED vars
    <2>1. TypeOK' /\ Shape' /\ Phase'
      BY <1>2 DEF vars, IInv, TypeOK, Shape, Phase, Heads
    <2>2. \E b, f \in Boxes : Heads(b, f)'
      BY <1>2 DEF vars, IInv, Heads
    <2> QED
      BY <2>1, <2>2 DEF IInv
  <1> QED
    BY <1>1, <1>2

LEMMA IInvHolds == Spec => []IInv
  BY IInvInit, IInvInductive, PTL DEF Spec

\* Whatever the medium holds, its first moov is one of the two heads.
LEMMA FirstIsAHead ==
    ASSUME IInv, NEW m \in Media \cup {box}
    PROVE  \E b, f \in Boxes :
              /\ Heads(b, f)
              /\ First(m, b) \/ First(m, f)
              /\ \A i \in Boxes : First(m, i) => i \in {b, f}
  <1>0. \A j \in Boxes : j \in Nat
    BY DEF Boxes
  <1>1. PICK b \in Boxes, f \in Boxes : Heads(b, f)
    BY DEF IInv
  <1>2. \A i \in Boxes : m[i] \in may[i]
    BY DEF Media, IInv, Shape
  <1>3. m[f] = "moov" /\ m[b] \in {"moov", "free"} /\ b <= f /\ \A j \in Boxes : j < f /\ j # b => m[j] \in Gone
    BY <1>1, <1>2 DEF Heads
  <1>4. First(m, b) \/ First(m, f)
    BY <1>0, <1>3 DEF First, Gone
  <1>5. ASSUME NEW i \in Boxes, First(m, i) PROVE i \in {b, f}
    BY <1>0, <1>3, <1>5 DEF First, Gone
  <1> QED
    BY <1>1, <1>4, <1>5

\* The variables of the swap keep their types.
THEOREM TypeCorrect == Spec => []TypeOK
  BY IInvHolds, PTL DEF IInv

\* A reader finds a moov at every instant, after a power cut at it as well.
THEOREM ReadableAtEveryInstant == Spec => []AlwaysReadable
  <1>1. IInv => AlwaysReadable
    BY FirstIsAHead DEF AlwaysReadable
  <1> QED
    BY <1>1, IInvHolds, PTL

\* An edit that did not reach its flip is never read.
THEOREM HalfEditsAreNeverRead == Spec => []NeverHalfEdited
  <1>1. IInv => NeverHalfEdited
    BY FirstIsAHead DEF NeverHalfEdited, Heads
  <1> QED
    BY <1>1, IInvHolds, PTL

\* No power cut and no later edit takes back an edit that returned.
THEOREM EditsAreKept == Spec => []EditKept
  <1>1. IInv => EditKept
    <2> SUFFICES ASSUME IInv, NEW m \in Media \cup {box}, NEW i \in Boxes, First(m, i) PROVE acked <= i
      BY DEF EditKept
    <2>1. PICK b \in Boxes, f \in Boxes : Heads(b, f) /\ i \in {b, f}
      BY FirstIsAHead
    <2> QED
      BY <2>1 DEF Heads, IInv, TypeOK, Boxes
  <1> QED
    BY <1>1, IInvHolds, PTL

\* An edit that returned leaves one moov, its own.
THEOREM OneMoovIsLeft == Spec => []OneMoov
  <1>1. IInv => OneMoov
    <2> SUFFICES ASSUME IInv, pc = "orphans", NEW i \in Boxes
                 PROVE  may[i] \subseteq IF i = edit THEN {"moov"} ELSE {"none", "free"}
      BY DEF OneMoov
    <2>1. Heads(edit, edit) /\ i \in Nat /\ edit \in Nat
      BY DEF IInv, Phase, TypeOK, Boxes
    <2>2. i > edit => may[i] = {"none"}
      BY DEF IInv, Shape
    <2> QED
      BY <2>1, <2>2 DEF Heads, Gone
  <1> QED
    BY <1>1, IInvHolds, PTL

-----------------------------------------------------------------------------
(* A failed append is cut off again.                                       *)

\* Short of a crash in an append and of a truncate that fails too, what a torn append
\* left is the running edit's, and is about to be cut off.
OwnTear == ~ cutShort => \A i \in Boxes : box[i] = "torn" => i = edit /\ pc = "undo"

LEMMA OwnTearKept == IInv /\ OwnTear /\ [Next]_vars => OwnTear'
  <1> SUFFICES ASSUME IInv, OwnTear, [Next]_vars PROVE OwnTear'
    OBVIOUS
  <1> USE DEF OwnTear, Goto
  <1>0. box \in [Boxes -> States] /\ edit \in Boxes
    BY DEF IInv, TypeOK
  <1>1. CASE Begin \/ Open \/ Refuse \/ NoStrays \/ RetireOrphans \/ SyncStrays \/ SyncRetired
    BY <1>1 DEF Begin, Open, Refuse, NoStrays, RetireOrphans, SyncStrays, SyncRetired
  <1>2. CASE Append \/ AppendFails
    <2>1. \A i \in Boxes : i # edit => box'[i] = box[i]
      BY <1>0, <1>2 DEF Append, AppendFails
    <2>2. CASE Append
      BY <1>0, <2>1, <2>2 DEF Append
    <2>3. CASE AppendFails
      BY <2>1, <2>3 DEF AppendFails
    <2> QED
      BY <1>2, <2>2, <2>3
  <1>3. CASE FailAppend
    BY <1>0, <1>3 DEF FailAppend, Undo, Write
  <1>4. CASE SyncAppend
    BY <1>4 DEF SyncAppend
  <1>5. CASE RetireStray
    BY <1>0, <1>5 DEF RetireStray, RetireNext, Write
  <1>6. CASE RetireMoov
    BY <1>0, <1>6 DEF RetireMoov, Write
  <1>7. CASE Kill
    BY <1>7 DEF Kill
  <1>8. CASE PowerCut
    BY <1>8 DEF PowerCut
  <1>9. CASE UNCHANGED vars
    BY <1>9 DEF vars
  <1> QED
    BY <1>1, <1>2, <1>3, <1>4, <1>5, <1>6, <1>7, <1>8, <1>9 DEF Next

\* "A failed append is cut off again, so the file stays editable": once an edit is over, the
\* layout walks, unless a crash cut an append or the truncate failed as well.
THEOREM FailedEditsLeaveNoTear == Spec => []StaysEditable
  <1>1. Init => OwnTear
    BY DEF Init, OwnTear
  <1>2. OwnTear => StaysEditable
    BY DEF OwnTear, StaysEditable
  <1> QED
    BY <1>1, <1>2, IInvHolds, OwnTearKept, PTL DEF Spec
=============================================================================
