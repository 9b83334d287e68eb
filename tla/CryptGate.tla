----------------------------- MODULE CryptGate -----------------------------
(***************************************************************************)
(* The order in which encrypted segments take the processors               *)
(* (mp4/cryptslots.go): a request holds a slot only while it encrypts one  *)
(* sample, waits behind the older requests, and may leave while it waits.  *)
(*                                                                         *)
(* A member of Requests is one segment written (writeCENC, writeAES in     *)
(* mp4/hlsstream_crypt.go). It waits for one slot at a time, so a waiter   *)
(* of the heap goes by its request's name.                                 *)
(***************************************************************************)
EXTENDS Naturals, FiniteSets

CONSTANTS
    Requests,
    Slots,       \* runtime.GOMAXPROCS(0), at least 1
    MaxSamples   \* bound: slots a request takes, one for each sample or stage of CBC it encrypts

ASSUME RequestsAssumption == IsFiniteSet(Requests)
ASSUME SlotsAssumption    == Slots \in Nat \ {0}
ASSUME SamplesAssumption  == MaxSamples \in Nat

VARIABLES
    pc,        \* per request: "new", "reading" (its source), "waiting", "encrypting", "ended"
    seq,       \* its place in the order, 0 before it starts
    taken,     \* slots it has taken
    left,      \* the requests whose context has ended
    started,   \* cryptSeq
    free,      \* slots in the pool
    waiting,   \* the heap
    ready,     \* waiters handed a slot that have not resumed
    gone       \* waiters whose request ended while they waited

vars == <<pc, seq, taken, left, started, free, waiting, ready, gone>>
gate == <<free, waiting, ready, gone>>

Init ==
    /\ pc = [r \in Requests |-> "new"]
    /\ seq = [r \in Requests |-> 0] /\ taken = [r \in Requests |-> 0]
    /\ left = {} /\ started = 0
    /\ free = Slots /\ waiting = {} /\ ready = {} /\ gone = {}

Goto(r, step) == pc' = [pc EXCEPT ![r] = step]

\* The request's context ends.
Leave(r) ==
    /\ pc[r] # "ended" /\ r \notin left
    /\ left' = left \cup {r}
    /\ UNCHANGED <<pc, seq, taken, started, gate>>

Start(r) ==
    /\ pc[r] = "new"
    /\ started' = started + 1
    /\ seq' = [seq EXCEPT ![r] = started + 1]
    /\ Goto(r, "reading")
    /\ UNCHANGED <<taken, left, gate>>

\* The segment is written, or its source, its client or its context failed it.
End(r) ==
    /\ pc[r] = "reading"
    /\ Goto(r, "ended")
    /\ UNCHANGED <<seq, taken, left, started, gate>>

-----------------------------------------------------------------------------
Take(r) == taken' = [taken EXCEPT ![r] = @ + 1]

\* acquire, under mu, with a slot in the pool.
AcquireFree(r) ==
    /\ pc[r] = "reading" /\ taken[r] < MaxSamples
    /\ free > 0
    /\ free' = free - 1
    /\ Take(r) /\ Goto(r, "encrypting")
    /\ UNCHANGED <<seq, left, started, waiting, ready, gone>>

\* acquire, under mu, with none.
Enqueue(r) ==
    /\ pc[r] = "reading" /\ taken[r] < MaxSamples
    /\ free = 0
    /\ waiting' = waiting \cup {r}
    /\ Goto(r, "waiting")
    /\ UNCHANGED <<seq, taken, left, started, free, ready, gone>>

Granted(r) ==
    /\ pc[r] = "waiting" /\ r \in ready
    /\ ready' = ready \ {r}
    /\ Take(r) /\ Goto(r, "encrypting")
    /\ UNCHANGED <<seq, left, started, free, waiting, gone>>

Live == waiting \ gone

\* Mutant: the slot of a waiter that left is lost with it.
HandOffToGone(hand) ==
    \/ \E w \in waiting :
        /\ \A v \in waiting : seq[w] <= seq[v]
        /\ waiting' = waiting \ {w} /\ gone' = gone \ {w}
        /\ ready' = IF w \in gone THEN hand ELSE hand \cup {w}
        /\ UNCHANGED free
    \/ waiting = {} /\ free' = free + 1 /\ ready' = hand /\ UNCHANGED <<waiting, gone>>
\* Mutant: a waiter that left stops the search.
HandOffOnce(hand) ==
    \/ \E w \in waiting :
        /\ \A v \in waiting : seq[w] <= seq[v]
        /\ waiting' = waiting \ {w} /\ gone' = gone \ {w}
        /\ IF w \in gone THEN free' = free + 1 /\ ready' = hand
                          ELSE ready' = hand \cup {w} /\ UNCHANGED free
    \/ waiting = {} /\ free' = free + 1 /\ ready' = hand /\ UNCHANGED <<waiting, gone>>
\* Mutant: the latest request first.
HandOffLatest(hand) ==
    \/ \E w \in Live :
        /\ \A v \in Live : seq[w] >= seq[v]
        /\ waiting' = waiting \ {w} /\ gone' = gone \ {w}
        /\ ready' = hand \cup {w} /\ UNCHANGED free
    \/ Live = {} /\ free' = free + 1 /\ ready' = hand /\ waiting' = {} /\ gone' = {}

\* handOff, with the waiters in hand already ready: pops the heap until a waiter
\* that still waits, who gets the slot; else the pool does.
HandOff(hand) ==
    \/ \E w \in Live :
        /\ \A v \in Live : seq[w] <= seq[v]
        /\ waiting' = {v \in waiting : seq[v] > seq[w]}
        /\ gone' = gone \cap waiting'
        /\ ready' = hand \cup {w}
        /\ UNCHANGED free
    \/ /\ Live = {}
       /\ waiting' = {} /\ gone' = {} /\ ready' = hand
       /\ free' = free + 1

Release(r) ==
    /\ pc[r] = "encrypting"
    /\ HandOff(ready)
    /\ Goto(r, "reading")
    /\ UNCHANGED <<seq, taken, left, started>>

\* Mutant: a slot handed to a waiter as it left stays with it.
GiveUpKeepsSlot(r) ==
    /\ pc[r] = "waiting" /\ r \in left
    /\ gone' = gone \cup ({r} \ ready) /\ ready' = ready \ {r}
    /\ Goto(r, "ended")
    /\ UNCHANGED <<seq, taken, left, started, free, waiting>>
\* acquire's way out when the context ends first: a slot handed meanwhile is
\* passed on, else the waiter stays in the heap, gone.
GiveUp(r) ==
    /\ pc[r] = "waiting" /\ r \in left
    /\ IF r \in ready
       THEN HandOff(ready \ {r})
       ELSE gone' = gone \cup {r} /\ UNCHANGED <<free, waiting, ready>>
    /\ Goto(r, "ended")
    /\ UNCHANGED <<seq, taken, left, started>>

-----------------------------------------------------------------------------
AllEnded == \A r \in Requests : pc[r] = "ended"

Work(r) == Start(r) \/ End(r) \/ AcquireFree(r) \/ Enqueue(r) \/ Granted(r) \/ Release(r) \/ GiveUp(r)

Next ==
    \/ \E r \in Requests : Leave(r) \/ Work(r)
    \/ AllEnded /\ UNCHANGED vars

Spec == Init /\ [][Next]_vars

\* A goroutine that can run does, and encrypting a sample ends. Nothing says a
\* request's source ever answers: Start, End and acquire are not fair.
FairSpec == Spec /\ \A r \in Requests : WF_vars(Granted(r)) /\ WF_vars(Release(r))

-----------------------------------------------------------------------------
TypeOK ==
    /\ pc \in [Requests -> {"new", "reading", "waiting", "encrypting", "ended"}]
    /\ seq \in [Requests -> Nat] /\ taken \in [Requests -> Nat]
    /\ started \in Nat /\ free \in Nat
    /\ {left, waiting, ready, gone} \subseteq SUBSET Requests

\* The requests a slot is out for: those that encrypt, and those handed one
\* that have yet to resume.
InUse == {r \in Requests : pc[r] = "encrypting"} \cup ready

\* No slot is lost, and none is made: not by a waiter that leaves, nor by one
\* handed a slot as it left.
SlotsConserved == free + Cardinality(InUse) = Slots

\* No slot lies in the pool while a request waits for one.
NoIdleSlot == free > 0 => Live = {}

\* "The oldest request first": a request gets a slot only if no older one is
\* left waiting, whether it asked for a free one or was handed it.
NoOvertaking ==
    [][\A y \in InUse' \ InUse : \A o \in Live \cap Live' : seq[y] < seq[o]]_vars

\* A request that waits gets its slot or gives up, however the others' sources
\* and clients behave.
WaitersServed == \A r \in Requests : pc[r] = "waiting" ~> pc[r] # "waiting"

=============================================================================
