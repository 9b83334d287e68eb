--------------------------- MODULE AdmissionGate ---------------------------
(***************************************************************************)
(* The gate of the HTTP handler (mkvhttp/admission.go): MaxInFlight        *)
(* requests are served at once, MaxWaiting more wait for a slot, and one   *)
(* past both is answered 503. The slots are a channel and the waiting      *)
(* requests an atomic counter, which no lock joins.                        *)
(*                                                                         *)
(* A member of Callers is one HTTP request the gate applies to. Go hands   *)
(* a freed slot to the first who waits; any of them, or a newcomer, gets   *)
(* it here, so what holds does not rest on that order. No name is one of   *)
(* CryptGate: GateProofs extends the two.                                  *)
(***************************************************************************)
EXTENDS Integers, FiniteSets

CONSTANTS Callers, MaxInFlight, MaxWaiting

ASSUME CallersAssumption == IsFiniteSet(Callers)
ASSUME LimitsAssumption  == MaxInFlight \in Nat \ {0} /\ MaxWaiting \in Nat

VARIABLES
    step,        \* per request, see Steps
    clientGone,  \* the requests whose client has gone
    slots,       \* what the channel of slots holds
    counter      \* gate.waiting

admission == <<step, clientGone, slots, counter>>

\* "over", "entered" and "quitting" have yet to take themselves off the counter.
Steps == {"new", "asking", "over", "queued", "entered", "quitting", "serving", "served", "refused"}
At(steps) == {r \in Callers : step[r] \in steps}

AdmissionInit ==
    /\ step = [r \in Callers |-> "new"]
    /\ clientGone = {} /\ slots = 0 /\ counter = 0

StepTo(r, to) == step' = [step EXCEPT ![r] = to]

HangUp(r) ==
    /\ step[r] \notin {"served", "refused"} /\ r \notin clientGone
    /\ clientGone' = clientGone \cup {r}
    /\ UNCHANGED <<step, slots, counter>>

TakeSlot == slots < MaxInFlight /\ slots' = slots + 1

\* enter's first select: a free slot is taken at once.
Enter(r) ==
    /\ step[r] = "new"
    /\ \/ TakeSlot /\ StepTo(r, "serving")
       \/ slots = MaxInFlight /\ StepTo(r, "asking") /\ UNCHANGED slots
    /\ UNCHANGED <<clientGone, counter>>

\* Mutant: the request does not count itself.
CountOthers(r) ==
    /\ step[r] = "asking"
    /\ counter' = counter + 1
    /\ StepTo(r, IF counter > MaxWaiting THEN "over" ELSE "queued")
    /\ UNCHANGED <<clientGone, slots>>
\* The counter's Add(1), which says whether the queue had room.
Count(r) ==
    /\ step[r] = "asking"
    /\ counter' = counter + 1
    /\ StepTo(r, IF counter + 1 > MaxWaiting THEN "over" ELSE "queued")
    /\ UNCHANGED <<clientGone, slots>>

\* enter's second select.
Dequeue(r) ==
    /\ step[r] = "queued"
    /\ TakeSlot
    /\ StepTo(r, "entered")
    /\ UNCHANGED <<clientGone, counter>>

Quit(r) ==
    /\ step[r] = "queued" /\ r \in clientGone
    /\ StepTo(r, "quitting")
    /\ UNCHANGED <<clientGone, slots, counter>>

\* Mutant: a request turned away stays counted.
UncountAdmitted(r) ==
    /\ step[r] \in {"over", "entered", "quitting"}
    /\ counter' = IF step[r] = "over" THEN counter ELSE counter - 1
    /\ StepTo(r, IF step[r] = "entered" THEN "serving" ELSE "refused")
    /\ UNCHANGED <<clientGone, slots>>
\* Add(-1), of a request turned away or, deferred, of one that waited.
Uncount(r) ==
    /\ step[r] \in {"over", "entered", "quitting"}
    /\ counter' = counter - 1
    /\ StepTo(r, IF step[r] = "entered" THEN "serving" ELSE "refused")
    /\ UNCHANGED <<clientGone, slots>>

\* Mutant: a client gone before its answer is clientGone its slot.
ServedToPresent(r) ==
    /\ step[r] = "serving"
    /\ slots' = IF r \in clientGone THEN slots ELSE slots - 1
    /\ StepTo(r, "served")
    /\ UNCHANGED <<clientGone, counter>>
\* The answer is sent, or fails: the deferred leave gives the slot back.
Served(r) ==
    /\ step[r] = "serving"
    /\ slots' = slots - 1
    /\ StepTo(r, "served")
    /\ UNCHANGED <<clientGone, counter>>

-----------------------------------------------------------------------------
AllAnswered == At({"served", "refused"}) = Callers

Handle(r) == Enter(r) \/ Count(r) \/ Dequeue(r) \/ Quit(r) \/ Uncount(r) \/ Served(r)

AdmissionNext ==
    \/ \E r \in Callers : HangUp(r) \/ Handle(r)
    \/ AllAnswered /\ UNCHANGED admission

AdmissionSpec == AdmissionInit /\ [][AdmissionNext]_admission

\* A handler that can run does, and every answer is sent or fails.
FairAdmission == AdmissionSpec /\ \A r \in Callers : WF_admission(Handle(r))

-----------------------------------------------------------------------------
AdmissionTypes ==
    /\ step \in [Callers -> Steps] /\ clientGone \subseteq Callers
    /\ slots \in Nat /\ counter \in Nat

\* The slots out are those of the requests being served, at most MaxInFlight.
InFlightBounded ==
    /\ slots = Cardinality(At({"entered", "serving"}))
    /\ slots <= MaxInFlight

\* No more than MaxWaiting requests wait, however many arrive at once.
WaitingBounded == Cardinality(At({"queued"})) <= MaxWaiting

\* The counter forgets no one and remembers no one too long: whatever the
\* order of the two Adds, it is the requests between them.
CounterExact == counter = Cardinality(At({"over", "queued", "entered", "quitting"}))

\* Every request is answered.
EveryRequestAnswered == \A r \in Callers : <>(step[r] \in {"served", "refused"})

=============================================================================
