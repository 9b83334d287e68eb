----------------------------- MODULE GateProofs -----------------------------
(***************************************************************************)
(* What the two gates of the server guarantee for every set of requests:   *)
(* the order of mp4/cryptslots.go for every number of slots, then the      *)
(* admission of mkvhttp/admission.go for every pair of limits. Neither     *)
(* needs the other: no name of one is a name of the other.                 *)
(*                                                                         *)
(* For the order, the induction needs to know where a waiting request is:  *)
(* either live in the heap or handed a slot, and nowhere else (Placed),    *)
(* and that no two requests started with one number (Numbered), without    *)
(* which popping the heap down to a waiter could drop another that still   *)
(* waits. The invariant of the admission is inductive because the counter  *)
(* is exact: a request that joins the queue saw in its own Add(1) the      *)
(* number of those between their two Adds, and the queue is a part of them.*)
(***************************************************************************)
EXTENDS CryptGate, AdmissionGate, FiniteSetTheorems, TLAPS

Placed ==
    /\ gone \subseteq waiting /\ \A r \in gone : pc[r] = "ended"
    /\ ready \cap waiting = {}
    /\ \A r \in Requests : pc[r] = "waiting" <=> r \in ready \cup Live

Numbered ==
    /\ \A r \in Requests : pc[r] # "new" => seq[r] <= started
    /\ \A q, r \in Requests : pc[q] # "new" /\ pc[r] # "new" /\ seq[q] = seq[r] => q = r
    /\ \A r \in waiting : pc[r] # "new"

IInv == TypeOK /\ Placed /\ Numbered /\ SlotsConserved /\ NoIdleSlot

LEMMA IInvInit == Init => IInv
  <1> SUFFICES ASSUME Init PROVE IInv
    OBVIOUS
  <1>1. TypeOK
    BY SlotsAssumption DEF Init, TypeOK
  <1>2. Placed /\ Numbered /\ NoIdleSlot
    BY DEF Init, Placed, Numbered, NoIdleSlot, Live
  <1>3. InUse = {}
    BY DEF Init, InUse
  <1>4. SlotsConserved
    BY <1>3, FS_EmptySet, SlotsAssumption DEF Init, SlotsConserved
  <1> QED
    BY <1>1, <1>2, <1>4 DEF IInv

LEMMA InUseFinite == TypeOK => IsFiniteSet(InUse) /\ Cardinality(InUse) \in Nat
  <1> SUFFICES ASSUME TypeOK PROVE IsFiniteSet(InUse) /\ Cardinality(InUse) \in Nat
    OBVIOUS
  <1>1. InUse \in SUBSET Requests
    BY DEF TypeOK, InUse
  <1> QED
    BY <1>1, RequestsAssumption, FS_Subset, FS_CardinalityType

\* The way out of a slot: the request r that held one, encrypting or handed it,
\* gives it to the oldest live waiter, or to the pool when there is none.
LEMMA HandOffKeeps ==
    ASSUME IInv, NEW r \in InUse, NEW v \in {"reading", "ended"},
           HandOff(ready \ {r}), Goto(r, v), UNCHANGED <<seq, taken, left, started>>
    PROVE  IInv'
  <1> USE DEF IInv
  <1>0. r \in Requests /\ r \notin waiting /\ pc[r] # "new"
    <2>1. r \in Requests /\ pc[r] \in {"encrypting", "waiting"}
      BY DEF TypeOK, Placed, InUse
    <2>2. r \notin waiting
      BY <2>1 DEF Placed, InUse, Live
    <2> QED
      BY <2>1, <2>2
  <1>1. IsFiniteSet(InUse) /\ Cardinality(InUse) \in Nat /\ free \in Nat
    BY InUseFinite DEF TypeOK
  <1>2. IsFiniteSet(InUse \ {r}) /\ Cardinality(InUse \ {r}) = Cardinality(InUse) - 1
    BY <1>1, FS_RemoveElement
  <1>3. ASSUME NEW w \in Live,
               \A u \in Live : seq[w] <= seq[u],
               waiting' = {u \in waiting : seq[u] > seq[w]},
               gone' = gone \cap waiting',
               ready' = (ready \ {r}) \cup {w},
               free' = free
        PROVE  IInv'
    <2>1. w \in Requests /\ w # r /\ w \notin ready /\ pc[w] = "waiting" /\ w \in waiting
      BY <1>0, <1>3 DEF TypeOK, Placed, Live
    <2>2. TypeOK'
      BY <1>0, <1>3, <2>1 DEF TypeOK, Goto
    <2>3. Live' = Live \ {w}
      <3>1. \A u \in Live : u # w => seq[u] > seq[w]
        <4> SUFFICES ASSUME NEW u \in Live, u # w PROVE seq[u] > seq[w]
          OBVIOUS
        <4>1. u \in Requests /\ pc[u] # "new" /\ pc[w] # "new"
          BY <2>1 DEF TypeOK, Live, Numbered
        <4>2. seq[u] # seq[w]
          BY <2>1, <4>1 DEF Numbered
        <4>3. seq[u] \in Nat /\ seq[w] \in Nat
          BY <2>1, <4>1 DEF TypeOK
        <4> QED
          BY <1>3, <4>2, <4>3
      <3>2. ~ (seq[w] > seq[w])
        BY <2>1 DEF TypeOK
      <3> QED
        BY <1>3, <3>1, <3>2 DEF Live
    <2>4. Placed'
      <3>0. gone' \subseteq waiting' /\ \A q \in gone' : pc'[q] = "ended"
        BY <1>0, <1>3 DEF Placed, Goto, TypeOK
      <3>1. ready' \cap waiting' = {}
        <4>1. w \notin waiting'
          BY <1>3, <2>1 DEF TypeOK
        <4> QED
          BY <1>3, <4>1 DEF Placed
      <3>2. \A q \in Requests : pc'[q] = "waiting" <=> q \in ready' \cup Live'
        <4> SUFFICES ASSUME NEW q \in Requests
                     PROVE  pc'[q] = "waiting" <=> q \in ready' \cup Live'
          OBVIOUS
        <4>1. CASE q = r
          <5>1. pc'[r] # "waiting"
            BY <1>0 DEF Goto, TypeOK
          <5>2. r \notin ready' \cup Live'
            BY <1>0, <1>3, <2>1, <2>3 DEF Live
          <5> QED
            BY <4>1, <5>1, <5>2
        <4>2. CASE q # r
          <5>1. pc'[q] = pc[q]
            BY <4>2 DEF Goto, TypeOK
          <5>2. q \in ready' \cup Live' <=> q \in ready \cup Live
            BY <1>3, <2>3, <4>2
          <5> QED
            BY <5>1, <5>2 DEF Placed
        <4> QED
          BY <4>1, <4>2
      <3> QED
        BY <3>0, <3>1, <3>2 DEF Placed
    <2>5. Numbered'
      BY <1>0, <1>3 DEF Numbered, Goto, TypeOK
    <2>6. InUse' = (InUse \ {r}) \cup {w} /\ w \notin InUse \ {r}
      <3>1. w \notin InUse
        BY <2>1 DEF InUse
      <3>2. InUse' = (InUse \ {r}) \cup {w}
        BY <1>0, <1>3, <2>1 DEF InUse, Goto, TypeOK
      <3> QED
        BY <3>1, <3>2
    <2>7. SlotsConserved'
      <3>0. Cardinality((InUse \ {r}) \cup {w}) = Cardinality(InUse \ {r}) + 1
        BY <1>2, <2>6, FS_AddElement
      <3>1. Cardinality(InUse') = Cardinality(InUse)
        BY <1>1, <1>2, <2>6, <3>0
      <3> QED
        BY <1>3, <3>1 DEF SlotsConserved
    <2>8. NoIdleSlot'
      <3>1. free = 0
        BY <1>1, <1>3 DEF NoIdleSlot
      <3> QED
        BY <1>3, <3>1 DEF NoIdleSlot
    <2> QED
      BY <2>2, <2>4, <2>5, <2>7, <2>8
  <1>4. ASSUME Live = {}, waiting' = {}, gone' = {}, ready' = ready \ {r}, free' = free + 1
        PROVE  IInv'
    <2>1. TypeOK'
      BY <1>0, <1>1, <1>4 DEF TypeOK, Goto
    <2>2. Live' = {}
      BY <1>4 DEF Live
    <2>3. Placed' /\ NoIdleSlot'
      BY <1>0, <1>4, <2>2 DEF Placed, NoIdleSlot, Goto, TypeOK
    <2>4. Numbered'
      BY <1>0, <1>4 DEF Numbered, Goto, TypeOK
    <2>5. InUse' = InUse \ {r}
      BY <1>0, <1>4 DEF InUse, Goto, TypeOK
    <2>6. SlotsConserved'
      BY <1>1, <1>2, <1>4, <2>5 DEF SlotsConserved
    <2> QED
      BY <2>1, <2>3, <2>4, <2>6
  <1> QED
    BY <1>3, <1>4 DEF HandOff

LEMMA IInvNext == IInv /\ [Next]_vars => IInv'
  <1> SUFFICES ASSUME IInv, [Next]_vars PROVE IInv'
    OBVIOUS
  <1> USE DEF IInv
  <1>1. ASSUME NEW r \in Requests, Leave(r) PROVE IInv'
    BY <1>1 DEF Leave, gate, TypeOK, Placed, Numbered, SlotsConserved, NoIdleSlot, InUse, Live
  <1>2. ASSUME NEW r \in Requests, Start(r) PROVE IInv'
    <2>1. pc' = [pc EXCEPT ![r] = "reading"] /\ pc[r] = "new" /\ UNCHANGED <<free, waiting, ready, gone>>
      BY <1>2 DEF Start, Goto, gate
    <2>2. TypeOK'
      BY <1>2, <2>1 DEF Start, TypeOK
    <2>3. Placed'
      BY <2>1 DEF TypeOK, Placed, Live
    <2>4. Numbered'
      <3>1. seq' = [seq EXCEPT ![r] = started + 1] /\ started' = started + 1 /\ started \in Nat
        BY <1>2 DEF Start, TypeOK
      <3>2. \A q \in Requests : q # r /\ pc'[q] # "new" => seq'[q] = seq[q] /\ seq[q] <= started /\ seq[q] \in Nat
        BY <2>1, <3>1 DEF TypeOK, Numbered
      <3>3. seq'[r] = started + 1 /\ pc'[r] = "reading"
        BY <2>1, <3>1 DEF TypeOK
      <3>4. \A q \in Requests : pc'[q] # "new" => seq'[q] <= started'
        BY <3>1, <3>2, <3>3
      <3>5. \A q, p \in Requests : pc'[q] # "new" /\ pc'[p] # "new" /\ seq'[q] = seq'[p] => q = p
        <4> SUFFICES ASSUME NEW q \in Requests, NEW p \in Requests,
                            pc'[q] # "new", pc'[p] # "new", seq'[q] = seq'[p], q # p
                     PROVE  FALSE
          OBVIOUS
        <4>1. CASE q = r \/ p = r
          BY <3>1, <3>2, <3>3, <4>1
        <4>2. CASE q # r /\ p # r
          BY <2>1, <3>2, <4>2 DEF Numbered, TypeOK
        <4> QED
          BY <4>1, <4>2
      <3>6. \A q \in waiting' : pc'[q] # "new"
        BY <2>1, <3>3 DEF Numbered, TypeOK
      <3> QED
        BY <3>4, <3>5, <3>6 DEF Numbered
    <2>5. SlotsConserved' /\ NoIdleSlot'
      <3>1. InUse' = InUse /\ Live' = Live
        BY <2>1 DEF InUse, Live, TypeOK
      <3> QED
        BY <2>1, <3>1 DEF SlotsConserved, NoIdleSlot
    <2> QED
      BY <2>2, <2>3, <2>4, <2>5
  <1>3. ASSUME NEW r \in Requests, End(r) PROVE IInv'
    <2>1. pc' = [pc EXCEPT ![r] = "ended"] /\ pc[r] = "reading" /\ UNCHANGED <<seq, taken, left, started, gate>>
      BY <1>3 DEF End, Goto
    <2>2. InUse' = InUse /\ Live' = Live
      BY <2>1 DEF InUse, Live, TypeOK, gate
    <2> QED
      BY <2>1, <2>2 DEF gate, TypeOK, Placed, Numbered, SlotsConserved, NoIdleSlot
  <1>4. ASSUME NEW r \in Requests, AcquireFree(r) PROVE IInv'
    <2>1. /\ pc' = [pc EXCEPT ![r] = "encrypting"] /\ pc[r] = "reading" /\ free > 0 /\ free' = free - 1
          /\ taken' = [taken EXCEPT ![r] = @ + 1] /\ UNCHANGED <<seq, left, started, waiting, ready, gone>>
      BY <1>4 DEF AcquireFree, Goto, Take
    <2>2. r \notin ready /\ r \notin InUse
      BY <2>1 DEF Placed, InUse
    <2>3. TypeOK' /\ Placed' /\ Numbered' /\ Live' = Live
      BY <2>1 DEF TypeOK, Placed, Numbered, Live
    <2>4. InUse' = InUse \cup {r}
      BY <2>1 DEF InUse, TypeOK
    <2>5. SlotsConserved'
      <3>1. Cardinality(InUse \cup {r}) = Cardinality(InUse) + 1 /\ Cardinality(InUse) \in Nat
        BY <2>2, InUseFinite, FS_AddElement
      <3> QED
        BY <2>1, <2>4, <3>1 DEF SlotsConserved, TypeOK
    <2>6. NoIdleSlot'
      BY <2>1, <2>3 DEF NoIdleSlot, TypeOK
    <2> QED
      BY <2>3, <2>5, <2>6
  <1>5. ASSUME NEW r \in Requests, Enqueue(r) PROVE IInv'
    <2>1. /\ pc' = [pc EXCEPT ![r] = "waiting"] /\ pc[r] = "reading" /\ free = 0
          /\ waiting' = waiting \cup {r} /\ UNCHANGED <<seq, taken, left, started, free, ready, gone>>
      BY <1>5 DEF Enqueue, Goto
    <2>2. r \notin ready /\ r \notin gone
      BY <2>1 DEF Placed
    <2>3. TypeOK' /\ Numbered'
      BY <2>1 DEF TypeOK, Numbered
    <2>4. Live' = Live \cup {r}
      BY <2>1, <2>2 DEF Live
    <2>5. Placed'
      BY <2>1, <2>2, <2>4 DEF TypeOK, Placed
    <2>6. InUse' = InUse
      BY <2>1 DEF InUse, TypeOK
    <2> QED
      BY <2>1, <2>3, <2>5, <2>6 DEF SlotsConserved, NoIdleSlot
  <1>6. ASSUME NEW r \in Requests, Granted(r) PROVE IInv'
    <2>1. /\ pc' = [pc EXCEPT ![r] = "encrypting"] /\ pc[r] = "waiting" /\ r \in ready /\ ready' = ready \ {r}
          /\ taken' = [taken EXCEPT ![r] = @ + 1] /\ UNCHANGED <<seq, left, started, free, waiting, gone>>
      BY <1>6 DEF Granted, Goto, Take
    <2>2. TypeOK' /\ Numbered' /\ Live' = Live /\ r \notin Live
      BY <2>1 DEF TypeOK, Numbered, Live, Placed
    <2>3. Placed'
      BY <2>1, <2>2 DEF TypeOK, Placed
    <2>4. InUse' = InUse
      BY <2>1 DEF InUse, TypeOK
    <2> QED
      BY <2>1, <2>2, <2>3, <2>4 DEF SlotsConserved, NoIdleSlot
  <1>7. ASSUME NEW r \in Requests, Release(r) PROVE IInv'
    <2>1. r \in InUse /\ ready \ {r} = ready
      BY <1>7 DEF Release, InUse, Placed
    <2> QED
      BY <1>7, <2>1, HandOffKeeps DEF Release
  <1>8. ASSUME NEW r \in Requests, GiveUp(r) PROVE IInv'
    <2>1. CASE r \in ready
      <3>1. r \in InUse
        BY <2>1 DEF InUse
      <3> QED
        BY <1>8, <2>1, <3>1, HandOffKeeps DEF GiveUp
    <2>2. CASE r \notin ready
      <3>1. /\ pc' = [pc EXCEPT ![r] = "ended"] /\ pc[r] = "waiting" /\ gone' = gone \cup {r}
            /\ UNCHANGED <<seq, taken, left, started, free, waiting, ready>>
        BY <1>8, <2>2 DEF GiveUp, Goto
      <3>2. r \in waiting
        BY <2>2, <3>1 DEF Placed, Live
      <3>3. TypeOK' /\ Numbered' /\ Live' = Live \ {r}
        BY <3>1 DEF TypeOK, Numbered, Live
      <3>4. Placed'
        BY <2>2, <3>1, <3>2, <3>3 DEF TypeOK, Placed
      <3>5. InUse' = InUse
        BY <3>1 DEF InUse, TypeOK
      <3> QED
        BY <3>1, <3>3, <3>4, <3>5 DEF SlotsConserved, NoIdleSlot
    <2> QED
      BY <2>1, <2>2
  <1>9. CASE UNCHANGED vars
    BY <1>9 DEF vars, TypeOK, Placed, Numbered, SlotsConserved, NoIdleSlot, InUse, Live
  <1> QED
    BY <1>1, <1>2, <1>3, <1>4, <1>5, <1>6, <1>7, <1>8, <1>9 DEF Next, Work

LEMMA Invariant == Spec => []IInv
  BY IInvInit, IInvNext, PTL DEF Spec

\* No sequence of acquires, releases and departures loses a slot or makes one.
THEOREM SlotsAreConserved == Spec => []SlotsConserved
  <1>1. IInv => SlotsConserved
    BY DEF IInv
  <1> QED
    BY <1>1, Invariant, PTL

\* And none is left in the pool while a request waits for it.
THEOREM NoSlotIdles == Spec => []NoIdleSlot
  <1>1. IInv => NoIdleSlot
    BY DEF IInv
  <1> QED
    BY <1>1, Invariant, PTL

\* The requests take the slots in the order they started: whoever gets one, an
\* older request that waited is not passed over.
THEOREM OldestFirst == Spec => NoOvertaking
  <1> DEFINE Fair == \A y \in InUse' \ InUse : \A o \in Live \cap Live' : seq[y] < seq[o]
  <1>1. ASSUME IInv, [Next]_vars, NEW y \in InUse' \ InUse, NEW o \in Live \cap Live'
        PROVE  seq[y] < seq[o]
    <2>1. ASSUME NEW hand, hand \subseteq ready, HandOff(hand),
                 NEW r \in Requests, Goto(r, "reading") \/ Goto(r, "ended")
          PROVE  seq[y] < seq[o]
      <3>1. Live # {} /\ o \in waiting'
        BY DEF Live
      <3>2. PICK w \in Live : waiting' = {v \in waiting : seq[v] > seq[w]} /\ ready' = hand \cup {w}
        BY <2>1, <3>1 DEF HandOff
      <3>3. y = w
        <4>1. \A q \in Requests : pc'[q] = "encrypting" => pc[q] = "encrypting"
          BY <1>1, <2>1 DEF IInv, TypeOK, Goto
        <4> QED
          BY <2>1, <3>2, <4>1 DEF InUse
      <3>4. seq[y] \in Nat /\ seq[o] \in Nat
        BY <1>1, <3>3 DEF IInv, TypeOK, Live
      <3> QED
        BY <3>1, <3>2, <3>3, <3>4
    <2>2. ASSUME NEW r \in Requests, AcquireFree(r) PROVE FALSE
      BY <1>1, <2>2 DEF IInv, NoIdleSlot, AcquireFree
    <2>3. ASSUME NEW r \in Requests,
                 Leave(r) \/ Start(r) \/ End(r) \/ Enqueue(r) \/ Granted(r)
          PROVE  FALSE
      BY <1>1, <2>3 DEF IInv, TypeOK, Leave, Start, End, Enqueue, Granted, Goto, gate, InUse
    <2>4. ASSUME NEW r \in Requests, Release(r) PROVE seq[y] < seq[o]
      BY <2>1, <2>4 DEF Release
    <2>5. ASSUME NEW r \in Requests, GiveUp(r) PROVE seq[y] < seq[o]
      <3>1. CASE r \in ready
        BY <2>1, <2>5, <3>1 DEF GiveUp
      <3>2. CASE r \notin ready
        BY <1>1, <2>5, <3>2 DEF GiveUp, IInv, TypeOK, Goto, InUse
      <3> QED
        BY <3>1, <3>2
    <2>6. CASE UNCHANGED vars
      BY <2>6 DEF vars, InUse
    <2> QED
      BY <1>1, <2>2, <2>3, <2>4, <2>5, <2>6 DEF Next, Work
  <1>2. IInv /\ [Next]_vars => Fair
    BY <1>1
  <1>3. IInv /\ [Next]_vars => [Fair]_vars
    BY <1>2
  <1> HIDE DEF Fair
  <1>4. Spec => [][Fair]_vars
    BY <1>3, Invariant, PTL DEF Spec
  <1> QED
    BY <1>4 DEF Fair, NoOvertaking

-----------------------------------------------------------------------------
(* The gate of mkvhttp. *)


\* The requests at one of the steps S when f says where each is; a Boolean as a count.
Where(f, S) == {r \in Callers : f[r] \in S}
One(b) == IF b THEN 1 ELSE 0

\* One request goes to a step: the count of those at S follows it.
LEMMA MoveCount ==
    ASSUME NEW f \in [Callers -> Steps], NEW r \in Callers, NEW v \in Steps, NEW S
    PROVE  /\ Cardinality(Where(f, S)) \in Nat
           /\ Cardinality(Where([f EXCEPT ![r] = v], S)) \in Nat
           /\ Cardinality(Where([f EXCEPT ![r] = v], S))
                = Cardinality(Where(f, S)) + One(v \in S) - One(f[r] \in S)
  <1> DEFINE old == Where(f, S)
             new == Where([f EXCEPT ![r] = v], S)
  <1>1. IsFiniteSet(old) /\ Cardinality(old) \in Nat /\ Cardinality(new) \in Nat
    <2>1. old \in SUBSET Callers /\ new \in SUBSET Callers
      BY DEF Where
    <2> QED
      BY <2>1, CallersAssumption, FS_Subset, FS_CardinalityType
  <1>2. ASSUME v \in S PROVE Cardinality(new) = Cardinality(old) + One(v \in S) - One(f[r] \in S)
    <2>1. new = old \cup {r}
      BY <1>2 DEF Where
    <2>2. r \in old <=> f[r] \in S
      BY DEF Where
    <2>3. Cardinality(new) = IF r \in old THEN Cardinality(old) ELSE Cardinality(old) + 1
      BY <1>1, <2>1, FS_AddElement
    <2> HIDE DEF old, new
    <2> QED
      BY <1>1, <1>2, <2>2, <2>3 DEF One
  <1>3. ASSUME v \notin S PROVE Cardinality(new) = Cardinality(old) + One(v \in S) - One(f[r] \in S)
    <2>1. new = old \ {r}
      BY <1>3 DEF Where
    <2>2. r \in old <=> f[r] \in S
      BY DEF Where
    <2>3. Cardinality(new) = IF r \in old THEN Cardinality(old) - 1 ELSE Cardinality(old)
      BY <1>1, <2>1, FS_RemoveElement
    <2> HIDE DEF old, new
    <2> QED
      BY <1>1, <1>3, <2>2, <2>3 DEF One
  <1>4. Cardinality(new) = Cardinality(old) + One(v \in S) - One(f[r] \in S)
    BY <1>2, <1>3
  <1> QED
    BY <1>1, <1>4

\* The same, of the state and of the next one.
LEMMA GotoCount ==
    ASSUME AdmissionTypes, NEW r \in Callers, NEW v \in Steps, StepTo(r, v), NEW S
    PROVE  /\ Cardinality(At(S)) \in Nat /\ Cardinality(At(S)') \in Nat
           /\ Cardinality(At(S)') = Cardinality(At(S)) + One(v \in S) - One(step[r] \in S)
  <1>1. At(S) = Where(step, S) /\ At(S)' = Where([step EXCEPT ![r] = v], S)
    BY DEF At, Where, StepTo
  <1>2. step \in [Callers -> Steps]
    BY DEF AdmissionTypes
  <1>3. /\ Cardinality(Where(step, S)) \in Nat
        /\ Cardinality(Where([step EXCEPT ![r] = v], S)) \in Nat
        /\ Cardinality(Where([step EXCEPT ![r] = v], S))
             = Cardinality(Where(step, S)) + One(v \in S) - One(step[r] \in S)
    BY <1>2, MoveCount, Zenon
  <1> QED
    BY <1>1, <1>3, Zenon

Taken   == {"entered", "serving"}
Counted == {"over", "queued", "entered", "quitting"}
Queued  == {"queued"}

AdmissionInv == AdmissionTypes /\ InFlightBounded /\ CounterExact /\ WaitingBounded

LEMMA AdmissionInvInit == AdmissionInit => AdmissionInv
  <1> SUFFICES ASSUME AdmissionInit PROVE AdmissionInv
    OBVIOUS
  <1>1. AdmissionTypes
    BY DEF AdmissionInit, AdmissionTypes, Steps
  <1>2. At({"entered", "serving"}) = {} /\ At({"queued"}) = {}
        /\ At({"over", "queued", "entered", "quitting"}) = {}
    BY DEF AdmissionInit, At
  <1>3. InFlightBounded /\ CounterExact /\ WaitingBounded
    BY <1>2, FS_EmptySet, LimitsAssumption DEF AdmissionInit, InFlightBounded, CounterExact, WaitingBounded
  <1> QED
    BY <1>1, <1>3 DEF AdmissionInv

\* The queue is a part of the requests the counter counts.
LEMMA QueueCounted == AdmissionTypes => Cardinality(At(Queued)) <= Cardinality(At(Counted))
  <1>1. At(Counted) \in SUBSET Callers /\ At(Queued) \in SUBSET At(Counted)
    BY DEF At, Counted, Queued
  <1> QED
    BY <1>1, CallersAssumption, FS_Subset

LEMMA AdmissionInvNext == AdmissionInv /\ [AdmissionNext]_admission => AdmissionInv'
  <1> SUFFICES ASSUME AdmissionInv, [AdmissionNext]_admission PROVE AdmissionInv'
    OBVIOUS
  <1> USE DEF AdmissionInv
  <1>0. LimitsAssumption
    BY LimitsAssumption
  <1>1. ASSUME NEW r \in Callers, HangUp(r) PROVE AdmissionInv'
    BY <1>1 DEF HangUp, AdmissionTypes, InFlightBounded, CounterExact, WaitingBounded, At
  <1> DEFINE Effect(r, v) ==
        /\ Cardinality(At(Taken)') = Cardinality(At(Taken)) + One(v \in Taken) - One(step[r] \in Taken)
        /\ Cardinality(At(Counted)') = Cardinality(At(Counted)) + One(v \in Counted) - One(step[r] \in Counted)
        /\ Cardinality(At(Queued)') = Cardinality(At(Queued)) + One(v \in Queued) - One(step[r] \in Queued)
        /\ {Cardinality(At(Taken)), Cardinality(At(Counted)), Cardinality(At(Queued))} \subseteq Nat
        /\ {Cardinality(At(Taken)'), Cardinality(At(Counted)')} \subseteq Nat
        /\ step' \in [Callers -> Steps]
  <1>2. ASSUME NEW r \in Callers, NEW v \in Steps, StepTo(r, v) PROVE Effect(r, v)
    BY <1>2, GotoCount DEF AdmissionTypes, StepTo
  <1> HIDE DEF Effect
  <1>3. ASSUME NEW r \in Callers, Handle(r) PROVE AdmissionInv'
    <2> USE DEF AdmissionTypes, InFlightBounded, CounterExact, WaitingBounded
    <2> USE LimitsAssumption DEF Taken, Counted, Queued, One
    <2>1. CASE Enter(r)
      <3>1. CASE TakeSlot /\ StepTo(r, "serving")
        <4>1. Effect(r, "serving")
          BY <1>2, <3>1 DEF Steps
        <4> QED
          BY <2>1, <3>1, <4>1 DEF Enter, TakeSlot, Effect
      <3>2. CASE StepTo(r, "asking") /\ UNCHANGED slots
        <4>1. Effect(r, "asking")
          BY <1>2, <3>2 DEF Steps
        <4> QED
          BY <2>1, <3>2, <4>1 DEF Enter, Effect
      <3> QED
        BY <2>1, <3>1, <3>2 DEF Enter
    <2>2. CASE Count(r)
      <3>0. Cardinality(At(Queued)) <= Cardinality(At(Counted))
        BY QueueCounted
      <3>1. CASE counter + 1 > MaxWaiting
        <4>1. Effect(r, "over")
          BY <1>2, <2>2, <3>1 DEF Count, Steps
        <4> QED
          BY <2>2, <3>1, <4>1 DEF Count, Effect
      <3>2. CASE ~ (counter + 1 > MaxWaiting)
        <4>1. Effect(r, "queued")
          BY <1>2, <2>2, <3>2 DEF Count, Steps
        <4> QED
          BY <2>2, <3>0, <3>2, <4>1 DEF Count, Effect
      <3> QED
        BY <3>1, <3>2
    <2>3. CASE Dequeue(r)
      <3>1. Effect(r, "entered")
        BY <1>2, <2>3 DEF Dequeue, Steps
      <3> QED
        BY <2>3, <3>1 DEF Dequeue, TakeSlot, Effect
    <2>4. CASE Quit(r)
      <3>1. Effect(r, "quitting")
        BY <1>2, <2>4 DEF Quit, Steps
      <3> QED
        BY <2>4, <3>1 DEF Quit, Effect
    <2>5. CASE Uncount(r)
      <3>1. CASE step[r] = "entered"
        <4>1. Effect(r, "serving")
          BY <1>2, <2>5, <3>1 DEF Uncount, Steps
        <4> QED
          BY <2>5, <3>1, <4>1 DEF Uncount, Effect
      <3>2. CASE step[r] \in {"over", "quitting"}
        <4>1. Effect(r, "refused")
          BY <1>2, <2>5, <3>2 DEF Uncount, Steps
        <4> QED
          BY <2>5, <3>2, <4>1 DEF Uncount, Effect
      <3> QED
        BY <2>5, <3>1, <3>2 DEF Uncount
    <2>6. CASE Served(r)
      <3>1. Effect(r, "served")
        BY <1>2, <2>6 DEF Served, Steps
      <3> QED
        BY <2>6, <3>1 DEF Served, Effect
    <2> QED
      BY <1>3, <2>1, <2>2, <2>3, <2>4, <2>5, <2>6 DEF Handle
  <1>4. CASE UNCHANGED admission
    BY <1>4 DEF admission, AdmissionTypes, InFlightBounded, CounterExact, WaitingBounded, At
  <1> QED
    BY <1>1, <1>3, <1>4 DEF AdmissionNext

LEMMA AdmissionHolds == AdmissionSpec => []AdmissionInv
  BY AdmissionInvInit, AdmissionInvNext, PTL DEF AdmissionSpec

\* However many requests arrive, leave and end at once, the slots out are those
\* of the requests being served, and are at most MaxInFlight.
THEOREM InFlightIsBounded == AdmissionSpec => []InFlightBounded
  <1>1. AdmissionInv => InFlightBounded
    BY DEF AdmissionInv
  <1> QED
    BY <1>1, AdmissionHolds, PTL

\* And the queue never holds more than MaxWaiting of them.
THEOREM WaitingIsBounded == AdmissionSpec => []WaitingBounded
  <1>1. AdmissionInv => WaitingBounded
    BY DEF AdmissionInv
  <1> QED
    BY <1>1, AdmissionHolds, PTL

\* And the counter, which no lock protects, drifts neither way.
THEOREM CounterIsExact == AdmissionSpec => []CounterExact
  <1>1. AdmissionInv => CounterExact
    BY DEF AdmissionInv
  <1> QED
    BY <1>1, AdmissionHolds, PTL

=============================================================================
