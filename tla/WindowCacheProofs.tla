------------------------- MODULE WindowCacheProofs -------------------------
(***************************************************************************)
(* What mp4/hlsflight.go, mp4/hlswindow.go and mp4/walkslots.go guarantee  *)
(* for every set of requests, every size of a segment, every sequence of   *)
(* caps and however many clients leave or reads fail.                      *)
(*                                                                         *)
(* The induction goes over the life of a flight: nothing is on it before   *)
(* its request leads (Fresh), it is its request's own while it is built    *)
(* (Leads), it is where newcomers find it until it is cancelled or ends    *)
(* (Found, Current), its counter is the number of those who wait on it     *)
(* (Counted), and it is cancelled, or fails by itself, for nobody          *)
(* (Abandoned, Blameless). The cache's counts go on top of it: a request   *)
(* takes from a bundle of its own window (OfWindow), the cache holds       *)
(* bundles of its windows that were framed (Stored), and what was served   *)
(* and what the bundles still hold, in the cache or dropped, was framed    *)
(* once (Sums), which is why no count goes negative.                       *)
(***************************************************************************)
EXTENDS WindowCache, SumsAndOrders, FiniteSetTheorems, TLAPS

Flying   == {"queue", "walk", "publish", "finish"}
Joinable == {"queue", "walk", "publish"}
WaitersOf(f) == {r \in Requests : pc[r] = "wait" /\ bundle[r] = f}

FlightType ==
    /\ pc \in [Requests -> Steps] /\ wants \in [Requests -> [n : Windows, t : Tracks]]
    /\ bundle = [r \in Requests |-> bundle[r]]
    /\ flight \in [Windows -> Requests \cup {None}]
    /\ left \in [Requests -> BOOLEAN] /\ gone \in [Requests -> BOOLEAN]
    /\ cancelled \in [Requests -> BOOLEAN] /\ done \in [Requests -> BOOLEAN]
    /\ failed \in [Requests -> BOOLEAN]
    /\ waiters \in [Requests -> Int]
    /\ faults \in Nat

Fresh(f)   == pc[f] \in {"new", "window"}
                => ~ gone[f] /\ ~ cancelled[f] /\ ~ done[f] /\ ~ failed[f] /\ bundle[f] = None
Leads(f)   == pc[f] \in Flying => bundle[f] = f /\ ~ done[f]
Found(f)   == pc[f] \in Joinable /\ ~ cancelled[f] => flight[Win(f)] = f
Current(n) == flight[n] # None => LET f == flight[n] IN Win(f) = n /\ pc[f] \in Joinable /\ ~ cancelled[f]
Waits(r)   == pc[r] = "wait" => bundle[r] \in Requests
Counted(f) == ~ done[f] => waiters[f] = Cardinality(WaitersOf(f))
Abandoned(f) == cancelled[f] /\ ~ done[f] => gone[f] /\ WaitersOf(f) = {}
Blameless(f) == faults = 0 /\ failed[f] => cancelled[f] /\ gone[f] /\ WaitersOf(f) = {}
Departed(f)  == gone[f] => left[f]
OwnFault(r)  == faults = 0 /\ pc[r] = "failed" => left[r]

Flights ==
    /\ \A f \in Requests : Fresh(f) /\ Leads(f) /\ Found(f) /\ Waits(f) /\ Departed(f) /\ OwnFault(f)
    /\ \A n \in Windows : Current(n)
Crowds ==
    \A f \in Requests : Counted(f) /\ Abandoned(f) /\ Blameless(f)

IInv == FlightType /\ Flights /\ Crowds
-----------------------------------------------------------------------------
(* Who waits on a flight, across a step.                                   *)

LEMMA WaitersFinite ==
    ASSUME NEW f PROVE IsFiniteSet(WaitersOf(f)) /\ Cardinality(WaitersOf(f)) \in Nat
  <1>1. WaitersOf(f) \in SUBSET Requests BY DEF WaitersOf
  <1> QED BY <1>1, RequestsAssumption, FS_Subset, FS_CardinalityType

\* A request that neither waits nor starts to wait changes no flight's waiters.
LEMMA SameWaiters ==
    ASSUME FlightType, NEW r \in Requests, NEW s \in Steps, pc[r] # "wait", s # "wait",
           Goto(r, s), \A q \in Requests : q # r => bundle'[q] = bundle[q]
    PROVE  \A f \in Requests : WaitersOf(f)' = WaitersOf(f)
  BY DEF FlightType, Goto, WaitersOf

\* A step that leaves the flights' fields alone and no request to wait keeps what is said of them.
LEMMA CrowdsSame ==
    ASSUME Crowds, \A f \in Requests : WaitersOf(f)' = WaitersOf(f), UNCHANGED fl, faults' = 0 => faults = 0
    PROVE  Crowds'
  BY DEF Crowds, Counted, Abandoned, Blameless, fl

-----------------------------------------------------------------------------
(* A request, up to the bundle of its window.                              *)

LEMMA LeaveKeeps == ASSUME IInv, NEW r \in Requests, Leave(r) PROVE IInv'
  <1> USE DEF IInv, Leave, fl
  <1>1. FlightType' BY DEF FlightType
  <1>2. Flights'
    BY DEF FlightType, Flights, Fresh, Leads, Found, Waits, Departed, OwnFault, Current, Win, Joinable, Flying
  <1>3. Crowds' BY CrowdsSame DEF WaitersOf
  <1> QED BY <1>1, <1>2, <1>3

LEMMA StartKeeps == ASSUME IInv, NEW r \in Requests, Start(r) \/ Refuse(r) PROVE IInv'
  <1> USE DEF IInv, Start, Refuse, Goto, fl, local
  <1>1. FlightType' BY DEF FlightType, Steps
  <1>2. Flights'
    <2>1. CASE Start(r)
      BY <2>1
         DEF FlightType, Flights, Fresh, Leads, Found, Waits, Departed, OwnFault, Current, Win, Joinable, Flying
    <2>2. CASE Refuse(r)
      <3>1. faults' = 0 => faults = 0 /\ left[r] BY <2>2 DEF FlightType
      <3> QED
        BY <2>2, <3>1
           DEF FlightType, Flights, Fresh, Leads, Found, Waits, Departed, OwnFault, Current, Win, Joinable, Flying
    <2> QED BY <2>1, <2>2
  <1>3. Crowds'
    <2>1. \A f \in Requests : WaitersOf(f)' = WaitersOf(f)
      BY SameWaiters DEF Steps
    <2> QED BY <2>1, CrowdsSame DEF FlightType
  <1> QED BY <1>1, <1>2, <1>3

LEMMA HitKeeps == ASSUME IInv, NEW r \in Requests, Hit(r) PROVE IInv'
  <1> USE DEF IInv, Hit, Goto, fl, local
  <1>1. FlightType' BY DEF FlightType, Steps
  <1>2. Flights'
    BY DEF FlightType, Flights, Fresh, Leads, Found, Waits, Departed, OwnFault, Current, Win, Joinable, Flying
  <1>3. Crowds'
    <2>1. \A f \in Requests : WaitersOf(f)' = WaitersOf(f)
      BY SameWaiters DEF Steps, FlightType
    <2> QED BY <2>1, CrowdsSame
  <1> QED BY <1>1, <1>2, <1>3

LEMMA LeadKeeps == ASSUME IInv, NEW r \in Requests, Lead(r) PROVE IInv'
  <1> USE DEF IInv, Lead, Queue, Goto, fl, local
  <1>1. FlightType' BY DEF FlightType, Steps, Win
  <1>2. Flights'
    BY NoneAssumption
       DEF FlightType, Flights, Fresh, Leads, Found, Waits, Departed, OwnFault, Current, Win, Joinable, Flying
  <1>3. Crowds'
    <2>1. \A f \in Requests : WaitersOf(f)' = WaitersOf(f)
      BY SameWaiters DEF Steps, FlightType
    <2> QED BY <2>1, CrowdsSame
  <1> QED BY <1>1, <1>2, <1>3

\* A newcomer joins a flight that is not cancelled, and is one more of those it counts.
LEMMA JoinKeeps == ASSUME IInv, NEW r \in Requests, Join(r) PROVE IInv'
  <1> USE DEF IInv, Goto, local
  <1>0. PICK f \in Requests : f = flight[Win(r)] /\ ~ cancelled[f] /\ ~ done[f] /\ r # f
    BY DEF Join, FlightType, Flights, Current, Leads, Joinable, Flying, Win
  <1>1. /\ pc' = [pc EXCEPT ![r] = "wait"] /\ bundle' = [bundle EXCEPT ![r] = f]
        /\ waiters' = [waiters EXCEPT ![f] = @ + 1] /\ pc[r] = "window"
        /\ UNCHANGED <<local, flight, gone, cancelled, done, failed, faults>>
    BY <1>0 DEF Join
  <1>2. FlightType'
    <2>1. waiters' \in [Requests -> Int] BY <1>1 DEF FlightType
    <2>2. pc' \in [Requests -> Steps] BY <1>1 DEF FlightType, Steps
    <2> QED BY <1>1, <2>1, <2>2 DEF FlightType
  <1>3. Flights'
    BY <1>0, <1>1
       DEF FlightType, Flights, Fresh, Leads, Found, Waits, Departed, OwnFault, Current, Win, Joinable, Flying
  <1>4. WaitersOf(f)' = WaitersOf(f) \cup {r} /\ r \notin WaitersOf(f)
    BY <1>1 DEF FlightType, WaitersOf
  <1>5. \A g \in Requests \ {f} : WaitersOf(g)' = WaitersOf(g)
    BY <1>1 DEF FlightType, WaitersOf
  <1>6. Cardinality(WaitersOf(f) \cup {r}) = Cardinality(WaitersOf(f)) + 1
    BY <1>4, WaitersFinite, FS_AddElement
  <1>7. Crowds'
    <2>1. Counted(f)' BY <1>0, <1>1, <1>4, <1>6 DEF Crowds, Counted, FlightType
    <2>2. Blameless(f)' /\ Abandoned(f)' BY <1>0, <1>1 DEF Crowds, Blameless, Abandoned
    <2>3. ASSUME NEW g \in Requests \ {f} PROVE (Counted(g) /\ Abandoned(g) /\ Blameless(g))'
      BY <1>1, <1>5, <2>3 DEF Crowds, Counted, Abandoned, Blameless, FlightType
    <2> QED BY <2>1, <2>2, <2>3 DEF Crowds
  <1> QED BY <1>2, <1>3, <1>7

-----------------------------------------------------------------------------
(* The flight.                                                             *)

\* A flight that is cancelled leaves the map with the same step: whatever the map names after
\* it is joinable, and whatever is joinable is in the map.
LEMMA CancelEvicts ==
    ASSUME FlightType, Flights, NEW c \in Requests, UNCHANGED wants,
           cancelled' = [cancelled EXCEPT ![c] = TRUE],
           flight' = [flight EXCEPT ![Win(c)] = IF @ = c THEN None ELSE @],
           \A f \in Requests : pc'[f] = pc[f] \/ {pc[f], pc'[f]} \cap Joinable = {}
    PROVE  (\A n \in Windows : Current(n)') /\ (\A f \in Requests : Found(f)')
  <1>1. \A n \in Windows : flight'[n] = IF n = Win(c) /\ flight[n] = c THEN None ELSE flight[n]
    BY DEF FlightType
  <1>2. \A f \in Requests : cancelled'[f] = IF f = c THEN TRUE ELSE cancelled[f]
    BY DEF FlightType
  <1>3. \A f \in Requests : pc'[f] \in Joinable <=> pc[f] \in Joinable OBVIOUS
  <1>4. ASSUME NEW n \in Windows PROVE Current(n)'
    <2>1. CASE flight'[n] = None BY <2>1 DEF Current
    <2>2. CASE flight'[n] # None
      <3>1. flight'[n] = flight[n] /\ ~ (n = Win(c) /\ flight[n] = c) BY <1>1, <2>2
      <3>2. PICK f \in Requests : f = flight[n] BY <2>2, <3>1 DEF FlightType
      <3>3. Win(f) = n /\ pc[f] \in Joinable /\ ~ cancelled[f]
        BY <2>2, <3>1, <3>2 DEF Flights, Current
      <3>4. f # c BY <3>1, <3>2, <3>3
      <3>5. wants'[f].n = n /\ pc'[f] \in Joinable /\ ~ cancelled'[f]
        BY <1>2, <1>3, <3>3, <3>4 DEF Win
      <3> QED BY <3>1, <3>2, <3>5 DEF Current, Win
    <2> QED BY <2>1, <2>2
  <1>5. ASSUME NEW f \in Requests, pc'[f] \in Joinable, ~ cancelled'[f]
        PROVE  flight'[wants'[f].n] = f
    <2>1. f # c /\ ~ cancelled[f] /\ pc[f] \in Joinable BY <1>2, <1>3, <1>5
    <2>2. flight[Win(f)] = f BY <2>1 DEF Flights, Found
    <2>3. Win(f) \in Windows BY DEF FlightType, Win
    <2> QED BY <1>1, <2>1, <2>2, <2>3 DEF Win
  <1> QED BY <1>4, <1>5 DEF Found, Win

LEMMA LeaderGoneKeeps == ASSUME IInv, NEW r \in Requests, LeaderGone(r) PROVE IInv'
  <1> USE DEF IInv, local
  <1>0. \A q \in Requests : Win(q) \in Windows BY DEF FlightType, Win
  <1>1. /\ bundle[r] = r /\ left[r] /\ ~ done[r] /\ gone' = [gone EXCEPT ![r] = TRUE]
        /\ UNCHANGED <<pc, wants, left, bundle, waiters, done, failed, faults>>
    BY DEF LeaderGone
  <1>2. \/ /\ waiters[r] = 0 /\ cancelled' = [cancelled EXCEPT ![r] = TRUE]
           /\ flight' = [flight EXCEPT ![Win(r)] = IF @ = r THEN None ELSE @]
        \/ UNCHANGED <<cancelled, flight>>
    BY DEF LeaderGone, Settle, Evicted
  <1>3. FlightType' BY <1>0, <1>1, <1>2 DEF FlightType
  <1>4. Flights'
    <2>1. pc[r] \notin {"new", "window"}
      BY <1>1, NoneAssumption DEF Flights, Fresh
    <2>2. CASE UNCHANGED <<cancelled, flight>>
      <3>1. \A n \in Windows : Current(n)'
        BY <1>1, <2>2 DEF Flights, Current, Win
      <3>2. \A f \in Requests : Fresh(f)' /\ Departed(f)'
        BY <1>1, <2>1, <2>2 DEF FlightType, Flights, Fresh, Departed
      <3>3. \A f \in Requests : Leads(f)' /\ Found(f)' /\ Waits(f)' /\ OwnFault(f)'
        BY <1>1, <2>2 DEF Flights, Leads, Found, Waits, OwnFault, Win
      <3> QED BY <3>1, <3>2, <3>3 DEF Flights
    <2>3. CASE /\ cancelled' = [cancelled EXCEPT ![r] = TRUE]
               /\ flight' = [flight EXCEPT ![Win(r)] = IF @ = r THEN None ELSE @]
      <3>2. \A f \in Requests : cancelled'[f] = IF f = r THEN TRUE ELSE cancelled[f]
        BY <2>3 DEF FlightType
      <3>4. (\A n \in Windows : Current(n)') /\ (\A f \in Requests : Found(f)')
        BY <1>1, <2>3, CancelEvicts
      <3>6. \A f \in Requests : Fresh(f)' /\ Departed(f)'
        BY <1>1, <2>1, <3>2 DEF FlightType, Flights, Fresh, Departed
      <3>7. \A f \in Requests : Leads(f)' /\ Waits(f)' /\ OwnFault(f)'
        BY <1>1 DEF Flights, Leads, Waits, OwnFault
      <3> QED BY <3>4, <3>6, <3>7 DEF Flights
    <2> QED BY <1>2, <2>2, <2>3
  <1>5. \A f \in Requests : WaitersOf(f)' = WaitersOf(f) BY <1>1 DEF WaitersOf
  <1>6. waiters[r] = 0 => WaitersOf(r) = {}
    BY <1>1, WaitersFinite, FS_EmptySet DEF Crowds, Counted
  <1>7. Crowds'
    BY <1>1, <1>2, <1>5, <1>6 DEF FlightType, Crowds, Counted, Abandoned, Blameless
  <1> QED BY <1>3, <1>4, <1>7

\* A waiter that goes, answered or not, is one less.
LEMMA OneLess ==
    ASSUME FlightType, NEW r \in Requests, pc[r] = "wait", NEW s \in Steps \ {"wait"}, Goto(r, s),
           UNCHANGED bundle
    PROVE  /\ \A f \in Requests : f # bundle[r] => WaitersOf(f)' = WaitersOf(f)
           /\ \A f \in Requests : f = bundle[r] =>
                /\ WaitersOf(f)' = WaitersOf(f) \ {r}
                /\ Cardinality(WaitersOf(f)') = Cardinality(WaitersOf(f)) - 1
  <1>1. \A f \in Requests : f # bundle[r] => WaitersOf(f)' = WaitersOf(f)
    BY DEF FlightType, Goto, WaitersOf
  <1>2. ASSUME NEW f \in Requests, f = bundle[r]
        PROVE  /\ WaitersOf(f)' = WaitersOf(f) \ {r}
               /\ Cardinality(WaitersOf(f)') = Cardinality(WaitersOf(f)) - 1
    <2>1. WaitersOf(f)' = WaitersOf(f) \ {r} /\ r \in WaitersOf(f)
      BY <1>2 DEF FlightType, Goto, WaitersOf
    <2> QED BY <2>1, WaitersFinite, FS_RemoveElement
  <1> QED BY <1>1, <1>2

LEMMA AwaitedKeeps == ASSUME IInv, NEW r \in Requests, Awaited(r) PROVE IInv'
  <1> USE DEF IInv, Awaited, fl, local
  <1>1. FlightType' BY DEF FlightType, Steps, Goto
  <1>2. faults = 0 => ~ failed[bundle[r]]
    BY DEF Flights, Waits, Crowds, Blameless, WaitersOf
  <1>3. Flights'
    BY <1>2
       DEF FlightType, Flights, Fresh, Leads, Found, Waits, Departed, OwnFault, Current, Win, Joinable, Flying, Goto
  <1>4. Crowds'
    <2>1. /\ \A f \in Requests : f # bundle[r] => WaitersOf(f)' = WaitersOf(f)
          /\ \A f \in Requests : f = bundle[r] => WaitersOf(f)' = WaitersOf(f) \ {r}
      BY OneLess DEF Steps
    <2> QED BY <2>1 DEF Crowds, Counted, Abandoned, Blameless
  <1> QED BY <1>1, <1>3, <1>4

LEMMA GiveUpKeeps == ASSUME IInv, NEW r \in Requests, GiveUp(r) PROVE IInv'
  <1> USE DEF IInv, Goto, local
  <1>0. PICK f \in Requests : f = bundle[r] BY DEF GiveUp, Flights, Waits
  <1>1. /\ pc[r] = "wait" /\ left[r] /\ pc' = [pc EXCEPT ![r] = "failed"]
        /\ waiters' = [waiters EXCEPT ![f] = @ - 1]
        /\ UNCHANGED <<local, bundle, gone, done, failed, faults>>
    BY <1>0 DEF GiveUp
  <1>2. \/ /\ gone[f] /\ waiters'[f] = 0 /\ cancelled' = [cancelled EXCEPT ![f] = TRUE]
           /\ flight' = [flight EXCEPT ![Win(f)] = IF @ = f THEN None ELSE @]
        \/ ~ (gone[f] /\ waiters'[f] = 0) /\ UNCHANGED <<cancelled, flight>>
    BY <1>0, <1>1 DEF GiveUp, Settle, Evicted, FlightType
  <1>3. FlightType'
    <2>1. waiters' \in [Requests -> Int] BY <1>1 DEF FlightType
    <2>2. pc' \in [Requests -> Steps] BY <1>1 DEF FlightType, Steps
    <2>3. cancelled' \in [Requests -> BOOLEAN] /\ flight' \in [Windows -> Requests \cup {None}]
      BY <1>2 DEF FlightType, Win
    <2> QED BY <1>1, <2>1, <2>2, <2>3 DEF FlightType
  <1>4. Flights'
    <2>1. \A q \in Requests : Win(q) \in Windows BY DEF FlightType, Win
    <2>2. CASE UNCHANGED <<cancelled, flight>>
      BY <1>0, <1>1, <2>1, <2>2
         DEF FlightType, Flights, Fresh, Leads, Found, Waits, Departed, OwnFault, Current, Win, Joinable, Flying
    <2>3. CASE /\ gone[f] /\ cancelled' = [cancelled EXCEPT ![f] = TRUE]
               /\ flight' = [flight EXCEPT ![Win(f)] = IF @ = f THEN None ELSE @]
      <3>1. \A q \in Requests : pc'[q] = IF q = r THEN "failed" ELSE pc[q] BY <1>1 DEF FlightType
      <3>2. (\A n \in Windows : Current(n)') /\ (\A q \in Requests : Found(q)')
        <4>1. \A q \in Requests : pc'[q] = pc[q] \/ {pc[q], pc'[q]} \cap Joinable = {}
          BY <1>1, <3>1 DEF Joinable
        <4> QED BY <1>1, <2>3, <4>1, CancelEvicts
      <3>3. \A q \in Requests : cancelled'[q] => cancelled[q] \/ q = f BY <2>3 DEF FlightType
      <3>4. ASSUME NEW q \in Requests PROVE Fresh(q)'
        BY <1>1, <2>3, <3>1, <3>3 DEF Flights, Fresh, Departed
      <3>5. \A q \in Requests : Leads(q)' /\ Waits(q)' /\ Departed(q)' /\ OwnFault(q)'
        BY <1>1, <3>1 DEF Flights, Leads, Waits, Departed, OwnFault, Flying
      <3> QED BY <3>2, <3>4, <3>5 DEF Flights
    <2> QED BY <1>2, <2>2, <2>3
  <1>5. /\ \A g \in Requests : g # f => WaitersOf(g)' = WaitersOf(g)
        /\ WaitersOf(f)' = WaitersOf(f) \ {r}
        /\ Cardinality(WaitersOf(f)') = Cardinality(WaitersOf(f)) - 1
    BY <1>0, <1>1, OneLess DEF Steps
  <1>6. ASSUME NEW g \in Requests \ {f} PROVE (Counted(g) /\ Abandoned(g) /\ Blameless(g))'
    BY <1>1, <1>2, <1>5, <1>6 DEF FlightType, Crowds, Counted, Abandoned, Blameless
  <1>7. Counted(f)'
    BY <1>1, <1>5 DEF FlightType, Crowds, Counted
  <1>8. Cardinality(WaitersOf(f)') = 0 => WaitersOf(f)' = {}
    BY <1>5, WaitersFinite, FS_EmptySet, FS_RemoveElement
  <1>9. Abandoned(f)' /\ Blameless(f)'
    BY <1>1, <1>2, <1>5, <1>7, <1>8 DEF FlightType, Crowds, Counted, Abandoned, Blameless
  <1> QED BY <1>3, <1>4, <1>6, <1>7, <1>9 DEF Crowds

-----------------------------------------------------------------------------
(* The build, its slot and the cache.                                      *)

LEMMA AcquireKeeps == ASSUME IInv, NEW r \in Requests, AcquireWalk(r) PROVE IInv'
  <1> USE DEF IInv, AcquireWalk, Goto, fl, local
  <1>1. FlightType' BY DEF FlightType, Steps, Win
  <1>2. Flights'
    BY DEF FlightType, Flights, Fresh, Leads, Found, Waits, Departed, OwnFault, Current, Win, Joinable, Flying
  <1>3. Crowds'
    <2>1. \A f \in Requests : WaitersOf(f)' = WaitersOf(f)
      BY SameWaiters DEF Steps, FlightType
    <2> QED BY <2>1, CrowdsSame
  <1> QED BY <1>1, <1>2, <1>3

LEMMA WalkEndsKeeps == ASSUME IInv, NEW r \in Requests, WalkEnds(r) PROVE IInv'
  <1> USE DEF IInv, WalkEnds, Release, Goto, fl, local
  <1>1. FlightType' BY DEF FlightType, Steps, Win
  <1>2. Flights'
    BY DEF FlightType, Flights, Fresh, Leads, Found, Waits, Departed, OwnFault, Current, Win, Joinable, Flying
  <1>3. Crowds'
    <2>1. \A f \in Requests : WaitersOf(f)' = WaitersOf(f)
      BY SameWaiters DEF Steps, FlightType
    <2> QED BY <2>1, CrowdsSame
  <1> QED BY <1>1, <1>2, <1>3

LEMMA PublishKeeps == ASSUME IInv, NEW r \in Requests, Publish(r) PROVE IInv'
  <1> USE DEF IInv, Publish, Evicted, Goto, fl, local
  <1>1. FlightType' BY DEF FlightType, Steps, Win
  <1>2. Flights'
    BY NoneAssumption
       DEF FlightType, Flights, Fresh, Leads, Found, Waits, Departed, OwnFault, Current, Win, Joinable, Flying
  <1>3. Crowds'
    <2>1. \A f \in Requests : WaitersOf(f)' = WaitersOf(f)
      BY SameWaiters DEF Steps, FlightType
    <2> QED BY <2>1, CrowdsSame
  <1> QED BY <1>1, <1>2, <1>3

LEMMA TakeKeeps == ASSUME IInv, NEW r \in Requests, Take(r) \/ CountAlone(r) PROVE IInv'
  <1> USE DEF IInv, Take, CountAlone, Goto, fl, local
  <1>1. FlightType' BY DEF FlightType, Steps, Win
  <1>2. Flights'
    BY DEF FlightType, Flights, Fresh, Leads, Found, Waits, Departed, OwnFault, Current, Win, Joinable, Flying
  <1>3. Crowds'
    <2>1. \A f \in Requests : WaitersOf(f)' = WaitersOf(f)
      BY SameWaiters DEF Steps, FlightType
    <2> QED BY <2>1, CrowdsSame
  <1> QED BY <1>1, <1>2, <1>3

LEMMA RetakeKeeps == ASSUME IInv, NEW r \in Requests, Retake(r) PROVE IInv'
  <1> USE DEF IInv, Retake, Queue, Goto, fl, local
  <1>1. FlightType' BY DEF FlightType, Steps, Win
  <1>2. Flights'
    BY DEF FlightType, Flights, Fresh, Leads, Found, Waits, Departed, OwnFault, Current, Win, Joinable, Flying
  <1>3. Crowds'
    <2>1. \A f \in Requests : WaitersOf(f)' = WaitersOf(f)
      BY SameWaiters DEF Steps, FlightType
    <2> QED BY <2>1, CrowdsSame
  <1> QED BY <1>1, <1>2, <1>3

\* A build that returns an error: the flight's own, when it was cancelled or a read failed, or
\* the request's alone, whose client left.
LEMMA FailKeeps ==
    ASSUME IInv, NEW r \in Requests, StopQueueing(r) \/ WalkFails(r)
    PROVE  IInv'
  <1> USE DEF IInv, local
  <1>1. /\ pc[r] \in {"queue", "walk", "queueAlone", "walkAlone"} /\ Fail(r)
        /\ UNCHANGED <<wants, left, bundle, flight, waiters, gone, cancelled, done>>
        /\ \/ Ended(r) /\ faults' = faults
           \/ faults' = faults + 1
    BY DEF StopQueueing, WalkFails
  <1>2. faults' \in Nat /\ (faults' = 0 => faults = 0 /\ Ended(r))
    BY <1>1 DEF FlightType
  <1>3. CASE pc[r] \in {"queue", "walk"}
    <2>1. failed' = [failed EXCEPT ![r] = TRUE] /\ Goto(r, "publish")
      BY <1>1, <1>3 DEF Fail
    <2>2. FlightType' BY <1>1, <1>2, <2>1 DEF FlightType, Goto, Steps
    <2>3. Flights'
      BY <1>1, <1>2, <1>3, <2>1
         DEF FlightType, Flights, Fresh, Leads, Found, Waits, Departed, OwnFault, Current, Win, Joinable, Flying, Goto
    <2>4. \A f \in Requests : WaitersOf(f)' = WaitersOf(f)
      BY <1>1, <1>3, <2>1, SameWaiters DEF Steps
    <2>5. faults' = 0 => cancelled[r] /\ gone[r] /\ WaitersOf(r) = {}
      BY <1>2, <1>3 DEF Ended, Flights, Leads, Flying, Crowds, Abandoned
    <2>6. Crowds'
      BY <1>1, <1>2, <2>1, <2>4, <2>5 DEF FlightType, Crowds, Counted, Abandoned, Blameless
    <2> QED BY <2>2, <2>3, <2>6
  <1>4. CASE pc[r] \in {"queueAlone", "walkAlone"}
    <2>1. Goto(r, "failed") /\ UNCHANGED failed
      BY <1>1, <1>4 DEF Fail
    <2>2. FlightType' BY <1>1, <1>2, <2>1 DEF FlightType, Goto, Steps
    <2>3. faults' = 0 => left[r] BY <1>2, <1>4 DEF Ended
    <2>4. Flights'
      BY <1>1, <1>2, <1>4, <2>1, <2>3
         DEF FlightType, Flights, Fresh, Leads, Found, Waits, Departed, OwnFault, Current, Win, Joinable, Flying, Goto
    <2>5. \A f \in Requests : WaitersOf(f)' = WaitersOf(f)
      BY <1>1, <1>4, <2>1, SameWaiters DEF Steps
    <2>6. Crowds' BY <1>1, <1>2, <2>1, <2>5, CrowdsSame DEF fl
    <2> QED BY <2>2, <2>4, <2>6
  <1> QED BY <1>1, <1>3, <1>4

\* The flight ends: its leader fails with it only if it left, or a read failed.
LEMMA FinishKeeps == ASSUME IInv, NEW r \in Requests, Finish(r) PROVE IInv'
  <1> USE DEF IInv, Finish, Goto, local
  <1>1. FlightType' BY DEF FlightType, Steps
  <1>2. faults = 0 /\ failed[r] => left[r]
    BY DEF Crowds, Blameless, Flights, Departed
  <1>3. Flights'
    BY <1>2
       DEF FlightType, Flights, Fresh, Leads, Found, Waits, Departed, OwnFault, Current, Win, Joinable, Flying
  <1>4. \A f \in Requests : WaitersOf(f)' = WaitersOf(f)
    BY SameWaiters DEF Steps
  <1>5. Crowds'
    BY <1>4 DEF FlightType, Crowds, Counted, Abandoned, Blameless
  <1> QED BY <1>1, <1>3, <1>5

-----------------------------------------------------------------------------

LEMMA InitIInv == Init => IInv
  <1> SUFFICES ASSUME Init PROVE IInv OBVIOUS
  <1>1. FlightType BY DEF Init, FlightType, Steps
  <1>2. Flights
    BY DEF Init, Flights, Fresh, Leads, Found, Waits, Departed, OwnFault, Current, Joinable, Flying
  <1>3. \A f : WaitersOf(f) = {} BY DEF Init, WaitersOf
  <1>4. Crowds BY <1>3, FS_EmptySet DEF Init, Crowds, Counted, Abandoned, Blameless
  <1> QED BY <1>1, <1>2, <1>4 DEF IInv

LEMMA UnmovedKeeps ==
    ASSUME IInv, UNCHANGED <<pc, local, bundle, flight, fl, faults>> PROVE IInv'
  <1> USE DEF IInv, local, fl
  <1>1. FlightType' BY DEF FlightType
  <1>2. Flights'
    BY DEF Flights, Fresh, Leads, Found, Waits, Departed, OwnFault, Current, Win, Joinable, Flying
  <1>3. Crowds' BY CrowdsSame DEF WaitersOf
  <1> QED BY <1>1, <1>2, <1>3

LEMMA NextIInv == IInv /\ [Next]_vars => IInv'
  <1> SUFFICES ASSUME IInv, [Next]_vars PROVE IInv' OBVIOUS
  <1>1. ASSUME NEW r \in Requests, Serve(r) PROVE IInv'
    BY <1>1, StartKeeps, HitKeeps, JoinKeeps, LeadKeeps, LeaderGoneKeeps, AwaitedKeeps, GiveUpKeeps, AcquireKeeps,
       FailKeeps, PublishKeeps, FinishKeeps, TakeKeeps, RetakeKeeps
       DEF Serve
  <1>2. CASE SetCap BY <1>2, UnmovedKeeps DEF SetCap
  <1>3. CASE UNCHANGED vars BY <1>3, UnmovedKeeps DEF vars
  <1> QED BY <1>1, <1>2, <1>3, LeaveKeeps, FailKeeps, WalkEndsKeeps DEF Next

\* A build is cancelled for nobody who still waits on it, and no newcomer finds a
\* cancelled one: through any interleaving of clients that leave, waiters and leaders alike.
THEOREM NobodyAbandoned == Spec => []NotAbandoned
  <1>1. IInv => NotAbandoned
    <2> SUFFICES ASSUME IInv PROVE NotAbandoned OBVIOUS
    <2>1. \A r \in Requests : pc[r] = "wait" /\ ~ done[bundle[r]] => ~ cancelled[bundle[r]]
      BY DEF IInv, Flights, Waits, Crowds, Abandoned, WaitersOf
    <2>2. \A n \in Windows : flight[n] # None => ~ cancelled[flight[n]]
      BY DEF IInv, Flights, Current
    <2> QED BY <2>1, <2>2 DEF NotAbandoned
  <1> QED BY InitIInv, NextIInv, <1>1, PTL DEF Spec

\* Viewers of one window share one walk: two builds of it that nobody cancelled are the same.
THEOREM OneBuildHolds == Spec => []OneBuild
  <1>1. IInv => OneBuild BY DEF IInv, Flights, Found, Joinable, OneBuild
  <1> QED BY InitIInv, NextIInv, <1>1, PTL DEF Spec

\* While no read of the source fails, a request whose client stays is not failed by another's
\* that left: neither the flight it leads nor the one it waits on is cancelled under it.
THEOREM RequestsFailForThemselves == Spec => []FailsForItself
  <1>1. IInv => FailsForItself BY DEF IInv, Flights, OwnFault, FailsForItself
  <1> QED BY InitIInv, NextIInv, <1>1, PTL DEF Spec

-----------------------------------------------------------------------------
(* The walk slots.                                                         *)

HeldIn(c) == {r \in Walking : chan[r] = c}

SlotInv ==
    /\ pc \in [Requests -> Steps] /\ chan \in [Requests -> DOMAIN Caps]
    /\ cap \in DOMAIN Caps /\ slots \in [DOMAIN Caps -> Nat]
    /\ SlotsMatchWalks

LEMMA CapsType == 1 \in DOMAIN Caps /\ \A c \in DOMAIN Caps : Caps[c] \in Nat
  <1>1. Caps \in Seq(Nat) /\ Caps # <<>> BY LimitsAssumption
  <1>2. Len(Caps) \in Nat \ {0} /\ DOMAIN Caps = 1 .. Len(Caps) BY <1>1
  <1>3. \A c \in 1 .. Len(Caps) : Caps[c] \in Nat BY <1>1
  <1> QED BY <1>2, <1>3

LEMMA HeldFinite == ASSUME NEW c PROVE IsFiniteSet(HeldIn(c)) /\ Cardinality(HeldIn(c)) \in Nat
  <1>1. HeldIn(c) \in SUBSET Requests BY DEF HeldIn, Walking
  <1> QED BY <1>1, RequestsAssumption, FS_Subset, FS_CardinalityType

\* A walk starts: it is one more in the channel its request read.
LEMMA AcquireSlot == ASSUME SlotInv, NEW r \in Requests, AcquireWalk(r) PROVE SlotInv'
  <1> USE DEF SlotInv, AcquireWalk, Goto
  <1>0. PICK c \in DOMAIN Caps : c = chan[r] OBVIOUS
  <1>1. /\ pc \in [Requests -> Steps] /\ chan \in [Requests -> DOMAIN Caps]
        /\ cap \in DOMAIN Caps /\ slots \in [DOMAIN Caps -> Nat]
        /\ slots' = [slots EXCEPT ![c] = @ + 1] /\ UNCHANGED <<cap, chan>>
    BY <1>0
  <1>2. pc' \in [Requests -> Steps] /\ slots' \in [DOMAIN Caps -> Nat] BY <1>1 DEF Steps
  <1>3. HeldIn(c)' = HeldIn(c) \cup {r} /\ r \notin HeldIn(c)
    BY <1>0 DEF HeldIn, Walking
  <1>4. \A d \in DOMAIN Caps \ {c} : HeldIn(d)' = HeldIn(d)
    BY <1>0 DEF HeldIn, Walking
  <1>5. Cardinality(HeldIn(c) \cup {r}) = Cardinality(HeldIn(c)) + 1
    BY <1>3, HeldFinite, FS_AddElement
  <1>6. Caps[c] \in Nat BY CapsType
  <1>7. slots'[c] = Cardinality(HeldIn(c)') /\ (Caps[c] > 0 => slots'[c] <= Caps[c])
    BY <1>0, <1>1, <1>3, <1>5, <1>6 DEF SlotsMatchWalks, HeldIn
  <1>8. \A d \in DOMAIN Caps \ {c} : slots'[d] = Cardinality(HeldIn(d)') /\ (Caps[d] > 0 => slots'[d] <= Caps[d])
    BY <1>1, <1>4 DEF SlotsMatchWalks, HeldIn
  <1>9. SlotsMatchWalks' BY <1>7, <1>8 DEF SlotsMatchWalks, HeldIn
  <1> QED BY <1>1, <1>2, <1>9

\* A walk ends, however it does: its slot goes back where it came from.
LEMMA ReleaseSlot ==
    ASSUME SlotInv, NEW r \in Requests, r \in Walking, Release(r), NEW s \in Steps \ {"walk", "walkAlone"}, Goto(r, s)
    PROVE  SlotInv'
  <1> USE DEF SlotInv, Release, Goto
  <1>0. PICK c \in DOMAIN Caps : c = chan[r] OBVIOUS
  <1>1. /\ pc \in [Requests -> Steps] /\ chan \in [Requests -> DOMAIN Caps]
        /\ cap \in DOMAIN Caps /\ slots \in [DOMAIN Caps -> Nat]
        /\ slots' = [slots EXCEPT ![c] = @ - 1] /\ UNCHANGED <<cap, chan>>
    BY <1>0
  <1>2. pc' \in [Requests -> Steps] OBVIOUS
  <1>3. HeldIn(c)' = HeldIn(c) \ {r} /\ r \in HeldIn(c)
    BY <1>0 DEF HeldIn, Walking
  <1>4. \A d \in DOMAIN Caps \ {c} : HeldIn(d)' = HeldIn(d)
    BY <1>0 DEF HeldIn, Walking
  <1>5. Cardinality(HeldIn(c) \ {r}) = Cardinality(HeldIn(c)) - 1 /\ Cardinality(HeldIn(c) \ {r}) \in Nat
    BY <1>3, HeldFinite, FS_RemoveElement, FS_CardinalityType
  <1>6. Caps[c] \in Nat BY CapsType
  <1>7. slots'[c] = Cardinality(HeldIn(c)') /\ (Caps[c] > 0 => slots'[c] <= Caps[c]) /\ slots'[c] \in Nat
    BY <1>0, <1>1, <1>3, <1>5, <1>6 DEF SlotsMatchWalks, HeldIn
  <1>8. \A d \in DOMAIN Caps \ {c} : slots'[d] = Cardinality(HeldIn(d)') /\ (Caps[d] > 0 => slots'[d] <= Caps[d])
    BY <1>1, <1>4 DEF SlotsMatchWalks, HeldIn
  <1>9. SlotsMatchWalks' BY <1>7, <1>8 DEF SlotsMatchWalks, HeldIn
  <1>10. slots' \in [DOMAIN Caps -> Nat] BY <1>1, <1>7
  <1> QED BY <1>1, <1>2, <1>9, <1>10

\* Every other step moves a request between two steps neither of which walks.
LEMMA OtherSlot ==
    ASSUME SlotInv, NEW r \in Requests, NEW s \in Steps \ {"walk", "walkAlone"}, r \notin Walking, Goto(r, s),
           chan' \in [Requests -> DOMAIN Caps], \A q \in Requests : q # r => chan'[q] = chan[q],
           cap' \in DOMAIN Caps, UNCHANGED slots
    PROVE  SlotInv'
  <1> USE DEF SlotInv, Goto
  <1>1. \A c \in DOMAIN Caps : HeldIn(c)' = HeldIn(c) BY DEF HeldIn, Walking
  <1>2. SlotsMatchWalks' BY <1>1 DEF SlotsMatchWalks, HeldIn
  <1> QED BY <1>2

LEMMA SameSlot ==
    ASSUME SlotInv, UNCHANGED <<pc, chan, slots>>, cap' \in DOMAIN Caps PROVE SlotInv'
  BY DEF SlotInv, SlotsMatchWalks, Walking

LEMMA NextSlotInv == SlotInv /\ [Next]_vars => SlotInv'
  <1> SUFFICES ASSUME SlotInv, [Next]_vars PROVE SlotInv' OBVIOUS
  <1>1. ASSUME NEW r \in Requests,
               \/ Start(r) \/ Refuse(r) \/ Hit(r) \/ Join(r) \/ Awaited(r) \/ GiveUp(r)
               \/ Publish(r) \/ Finish(r) \/ Take(r) \/ CountAlone(r) \/ StopQueueing(r)
        PROVE  SlotInv'
    <2>1. UNCHANGED walks /\ r \notin Walking
      BY <1>1 DEF Start, Refuse, Hit, Join, Awaited, GiveUp, Publish, Finish, Take, CountAlone, StopQueueing, Walking
    <2>2. PICK s \in Steps \ {"walk", "walkAlone"} : Goto(r, s)
      BY <1>1 DEF Start, Refuse, Hit, Join, Awaited, GiveUp, Publish, Finish, Take, CountAlone, StopQueueing, Fail, Steps
    <2> QED BY <2>1, <2>2, OtherSlot DEF walks, SlotInv
  <1>2. ASSUME NEW r \in Requests, Lead(r) \/ Retake(r) PROVE SlotInv'
    <2>1. PICK s \in {"queue", "queueAlone"} : Queue(r, s) /\ r \notin Walking
      BY <1>2 DEF Lead, Retake, Walking
    <2> QED BY <2>1, OtherSlot DEF Queue, SlotInv, Steps
  <1>3. ASSUME NEW r \in Requests, WalkFails(r) \/ WalkEnds(r) PROVE SlotInv'
    <2>1. r \in Walking /\ Release(r) BY <1>3 DEF WalkFails, WalkEnds, Walking
    <2>2. PICK s \in Steps \ {"walk", "walkAlone"} : Goto(r, s)
      BY <1>3 DEF WalkFails, WalkEnds, Fail, Steps
    <2> QED BY <2>1, <2>2, ReleaseSlot
  <1>4. ASSUME NEW r \in Requests, Leave(r) \/ LeaderGone(r) PROVE SlotInv'
    BY <1>4, SameSlot DEF Leave, LeaderGone, walks, SlotInv
  <1>5. CASE SetCap
    <2>1. cap' \in DOMAIN Caps BY <1>5, LimitsAssumption DEF SetCap, SlotInv
    <2> QED BY <1>5, <2>1, SameSlot DEF SetCap
  <1>6. CASE UNCHANGED vars BY <1>6, SameSlot DEF vars, walks, SlotInv
  <1> QED BY <1>1, <1>2, <1>3, <1>4, <1>5, <1>6, AcquireSlot DEF Next, Serve

LEMMA InitSlotInv == Init => SlotInv
  <1> SUFFICES ASSUME Init PROVE SlotInv OBVIOUS
  <1>1. 1 \in DOMAIN Caps BY CapsType
  <1>2. \A c \in DOMAIN Caps : HeldIn(c) = {} BY DEF Init, HeldIn, Walking
  <1>3. ASSUME NEW c \in DOMAIN Caps PROVE slots[c] = Cardinality(HeldIn(c)) /\ (Caps[c] > 0 => slots[c] <= Caps[c])
    <2>1. slots[c] = 0 BY DEF Init
    <2>2. Cardinality(HeldIn(c)) = 0 BY <1>2, FS_EmptySet
    <2>3. Caps[c] \in Nat BY CapsType
    <2> QED BY <2>1, <2>2, <2>3
  <1>4. SlotsMatchWalks BY <1>3 DEF SlotsMatchWalks, HeldIn
  <1> QED BY <1>1, <1>4 DEF Init, SlotInv, Steps

\* Whatever SetMaxConcurrentWalks is given, while walks run and queue: no slot is lost or
\* invented, and no channel runs more walks than its cap.
THEOREM SlotsMatch == Spec => []SlotsMatchWalks
  <1>1. SlotInv => SlotsMatchWalks BY DEF SlotInv
  <1> QED BY InitSlotInv, NextSlotInv, <1>1, PTL DEF Spec

-----------------------------------------------------------------------------
(* The cache, its byte counts and its age order.                           *)

\* The steps before a request's own bundle is there.
Unframed == {"new", "window", "wait", "queue", "walk", "publish"}
Bundles  == [r \in Requests |-> SizeOf(Win(r), segs[r])]
Limit    == IF winBudget < 0 THEN 0 ELSE Budget(winPeak)

CacheType ==
    /\ pc \in [Requests -> Steps] /\ wants \in [Requests -> [n : Windows, t : Tracks]]
    /\ bundle \in [Requests -> Requests \cup {None}]
    /\ segs \in [Requests -> SUBSET Tracks]
    /\ windows \in [Windows -> Requests \cup {None}] /\ winOrder \in Seq(Windows)
    /\ winBudget \in WinBudgets /\ winPeak \in Nat
    /\ winBytes \in Int /\ built \in Nat /\ served \in Nat /\ dropped \in Int

OfWindow(r) == pc[r] \in {"wait", "take"} \cup Flying => bundle[r] \in Requests /\ Win(bundle[r]) = Win(r)
Unbuilt(r)  == pc[r] \in Unframed => segs[r] = {}
Stored(n)   == windows[n] # None => windows[n] \in Requests /\ Win(windows[n]) = n /\ pc[windows[n]] \notin Unframed
Places ==
    /\ \A r \in Requests : OfWindow(r) /\ Unbuilt(r)
    /\ \A n \in Windows : Stored(n)
Ages ==
    /\ ToSet(winOrder) = {n \in Windows : windows[n] # None}
    /\ IsInjective(winOrder)
Sums ==
    /\ winBytes = SumFunctionOnSet(Held, Windows)
    /\ winBytes <= Limit
    /\ built = served + dropped + winBytes
    /\ served + SumFunctionOnSet(Bundles, Requests) <= built

CacheInv == CacheType /\ Places /\ Ages /\ Sums

\* A bundle's size, as its renditions go.
LEMMA Sizes ==
    ASSUME NEW n \in Windows, NEW ts \in SUBSET Tracks
    PROVE  /\ SizeOf(n, ts) \in Nat /\ SizeOf(n, {}) = 0
           /\ SizeOf(n, ts) <= SizeOf(n, Tracks)
           /\ \A t \in ts : /\ SizeOf(n, ts) = Bytes[n][t] + SizeOf(n, ts \ {t})
                            /\ Bytes[n][t] \in Nat /\ SizeOf(n, ts \ {t}) \in Nat
  <1>1. IsFiniteSet(Tracks) /\ \A t \in Tracks : Bytes[n][t] \in Nat
    BY TracksAssumption, BytesAssumption
  <1>2. ASSUME NEW us \in SUBSET Tracks PROVE IsFiniteSet(us) /\ SumFunctionOnSet(Bytes[n], us) \in Nat
    BY <1>1, FS_Subset, SumNat
  <1>3. SumFunctionOnSet(Bytes[n], ts) <= SumFunctionOnSet(Bytes[n], Tracks)
    BY <1>1, SumSubset
  <1>4. ASSUME NEW t \in ts PROVE SumFunctionOnSet(Bytes[n], ts) = Bytes[n][t] + SumFunctionOnSet(Bytes[n], ts \ {t})
    BY <1>1, <1>2, SumRemove
  <1>5. SumFunctionOnSet(Bytes[n], {}) = 0
    BY SumEmpty
  <1> QED BY <1>1, <1>2, <1>3, <1>4, <1>5 DEF SizeOf

LEMMA Holdings ==
    ASSUME CacheType, Places
    PROVE  /\ \A n \in Windows : Held[n] \in Nat /\ (windows[n] = None => Held[n] = 0)
           /\ \A n \in Windows : windows[n] # None => Held[n] = Bundles[windows[n]]
           /\ \A r \in Requests : Bundles[r] \in Nat
  <1>1. \A r \in Requests : Win(r) \in Windows /\ segs[r] \in SUBSET Tracks BY DEF CacheType, Win
  <1>2. \A r \in Requests : Bundles[r] = SizeOf(Win(r), segs[r]) BY DEF Bundles
  <1>3. \A n \in Windows : Held[n] = IF windows[n] = None THEN 0 ELSE SizeOf(n, segs[windows[n]])
    BY DEF Held
  <1>4. \A r \in Requests : Bundles[r] \in Nat BY <1>1, <1>2, Sizes
  <1>5. \A n \in Windows : windows[n] # None => windows[n] \in Requests /\ Win(windows[n]) = n
    BY DEF Places, Stored
  <1> QED BY <1>2, <1>3, <1>4, <1>5

\* What the cache holds is part of what the bundles do.
LEMMA CachedPart ==
    ASSUME CacheType, Places
    PROVE  SumFunctionOnSet(Held, Windows) <= SumFunctionOnSet(Bundles, Requests)
  <1> DEFINE T == {n \in Windows : windows[n] # None}
             I == {windows[n] : n \in T}
  <1>0. IsFiniteSet(Windows) /\ IsFiniteSet(Requests) BY WindowsAssumption, RequestsAssumption
  <1>1. T \in SUBSET Windows /\ I \in SUBSET Requests /\ IsFiniteSet(T) /\ IsFiniteSet(Windows \ T)
    BY <1>0, FS_Subset DEF Places, Stored
  <1>2. \A n \in T : windows[n] \in Requests /\ Held[n] = Bundles[windows[n]]
    BY Holdings DEF Places, Stored
  <1>3. \A m, n \in T : windows[m] = windows[n] => m = n BY DEF Places, Stored
  <1>4. \A r \in Requests : Bundles[r] \in Nat /\ Bundles[r] \in Int BY Holdings
  <1>5. SumFunctionOnSet(Held, T) = SumFunctionOnSet(Bundles, I)
    <2> HIDE DEF T
    <2> QED BY <1>0, <1>1, <1>2, <1>3, <1>4, SumImage
  <1>6. SumFunctionOnSet(Bundles, I) <= SumFunctionOnSet(Bundles, Requests)
    <2> HIDE DEF I
    <2> QED BY <1>0, <1>1, <1>4, SumSubset
  <1>7. SumFunctionOnSet(Held, Windows) = SumFunctionOnSet(Held, T) + SumFunctionOnSet(Held, Windows \ T)
    <2>1. \A n \in Windows : Held[n] \in Int BY Holdings
    <2> HIDE DEF T
    <2> QED BY <1>0, <1>1, <2>1, SumSplit
  <1>8. SumFunctionOnSet(Held, Windows \ T) = 0
    <2>1. \A n \in Windows \ T : Held[n] \in Nat /\ Held[n] = 0 BY Holdings
    <2> HIDE DEF T
    <2> QED BY <1>1, <2>1, SumNat
  <1>9. SumFunctionOnSet(Held, T) \in Nat
    <2>1. \A n \in T : Held[n] \in Nat BY Holdings
    <2> HIDE DEF T
    <2> QED BY <1>1, <2>1, SumNat
  <1> QED BY <1>5, <1>6, <1>7, <1>8, <1>9

\* Whatever was dropped and taken since, no count is negative.
LEMMA NothingNegative == ASSUME CacheInv PROVE winBytes \in Nat /\ dropped \in Nat
  <1>1. SumFunctionOnSet(Held, Windows) \in Nat
    BY Holdings, WindowsAssumption, SumNat DEF CacheInv
  <1>2. SumFunctionOnSet(Bundles, Requests) \in Nat
    BY Holdings, RequestsAssumption, SumNat DEF CacheInv
  <1>3. winBytes <= SumFunctionOnSet(Bundles, Requests) /\ winBytes = SumFunctionOnSet(Held, Windows)
    BY CachedPart DEF CacheInv, Sums
  <1>4. /\ built = served + dropped + winBytes /\ served + SumFunctionOnSet(Bundles, Requests) <= built
        /\ built \in Nat /\ served \in Nat /\ dropped \in Int
    BY DEF CacheInv, CacheType, Sums
  <1> QED BY <1>1, <1>2, <1>3, <1>4

LEMMA QuietKeeps ==
    ASSUME CacheInv, UNCHANGED <<wants, winBudget, cache, stats>>, NEW r \in Requests,
           pc' \in [Requests -> Steps], bundle' \in [Requests -> Requests \cup {None}],
           \A q \in Requests \ {r} : pc'[q] = pc[q] /\ bundle'[q] = bundle[q],
           pc[r] \notin Unframed => pc'[r] \notin Unframed,
           OfWindow(r)'
    PROVE  CacheInv'
  <1> USE DEF CacheInv, cache, stats
  <1>1. CacheType' BY DEF CacheType
  <1>2. Places'
    <2>1. \A q \in Requests : Unbuilt(q)' BY DEF Places, Unbuilt
    <2>2. \A q \in Requests : OfWindow(q)' BY DEF Places, OfWindow, Win
    <2>3. \A n \in Windows : Stored(n)' BY DEF Places, Stored, Win
    <2> QED BY <2>1, <2>2, <2>3 DEF Places
  <1>3. Ages' BY DEF Ages
  <1>4. Sums'
    <2>1. Held' = Held BY DEF Held
    <2>2. Bundles' = Bundles BY DEF Bundles, Win
    <2>3. Limit' = Limit BY DEF Limit, Budget
    <2> QED BY <2>1, <2>2, <2>3 DEF Sums
  <1> QED BY <1>1, <1>2, <1>3, <1>4

LEMMA BundleShrinks ==
    ASSUME CacheInv, NEW b \in Requests, NEW t \in segs[b], UNCHANGED wants,
           segs' = [segs EXCEPT ![b] = segs[b] \ {t}]
    PROVE  /\ Bundles'[b] = SizeOf(Win(b), segs[b] \ {t})
           /\ \A q \in Requests \ {b} : Bundles'[q] = Bundles[q]
           /\ SumFunctionOnSet(Bundles', Requests)
                = SumFunctionOnSet(Bundles, Requests) - Bytes[Win(b)][t]
  <1> USE DEF CacheInv
  <1>1. PICK n \in Windows, s \in SUBSET Tracks : n = Win(b) /\ s = segs[b]
    BY DEF CacheType, Win
  <1>2. /\ SizeOf(n, s) = Bytes[n][t] + SizeOf(n, s \ {t})
        /\ SizeOf(n, s) \in Nat /\ Bytes[n][t] \in Nat /\ SizeOf(n, s \ {t}) \in Nat
    BY <1>1, Sizes
  <1>3. PICK g, h : g = Bundles /\ h = Bundles' OBVIOUS
  <1>4. g[b] = SizeOf(n, s) /\ h[b] = SizeOf(n, s \ {t})
    BY <1>1, <1>3 DEF Bundles, CacheType, Win
  <1>5. \A q \in Requests \ {b} : h[q] = g[q]
    BY <1>3 DEF Bundles, CacheType, Win
  <1>6. \A q \in Requests : g[q] \in Int /\ h[q] \in Int
    BY <1>2, <1>3, <1>4, <1>5, Holdings
  <1>7. SumFunctionOnSet(h, Requests) = SumFunctionOnSet(g, Requests) - g[b] + h[b]
    BY <1>5, <1>6, RequestsAssumption, SumChange
  <1>8. SumFunctionOnSet(g, Requests) \in Int
    BY <1>6, RequestsAssumption, SumInt
  <1>9. SumFunctionOnSet(h, Requests) = SumFunctionOnSet(g, Requests) - Bytes[n][t]
    BY <1>2, <1>4, <1>7, <1>8
  <1> QED BY <1>1, <1>3, <1>4, <1>5, <1>9

LEMMA HeldChange ==
    ASSUME CacheInv, CacheType', NEW n \in Windows, Held'[n] \in Int,
           \A m \in Windows \ {n} : Held'[m] = Held[m]
    PROVE  SumFunctionOnSet(Held', Windows) = SumFunctionOnSet(Held, Windows) - Held[n] + Held'[n]
  <1>1. PICK g, h : g = Held /\ h = Held' OBVIOUS
  <1>2. \A m \in Windows : g[m] \in Int /\ h[m] \in Int
    BY <1>1, Holdings DEF CacheInv
  <1>3. SumFunctionOnSet(h, Windows) = SumFunctionOnSet(g, Windows) - g[n] + h[n]
    BY <1>1, <1>2, WindowsAssumption, SumChange
  <1> QED BY <1>1, <1>3

LEMMA CacheTakeKeeps == ASSUME CacheInv, NEW r \in Requests, Take(r) PROVE CacheInv'
  <1> USE DEF CacheInv
  <1>1. PICK b \in Requests : b = bundle[r] /\ Win(b) = Win(r) /\ pc[b] \notin Unframed
    BY DEF Take, Places, OfWindow, Unbuilt
  <1>2. PICK n \in Windows, t \in Tracks : n = Win(r) /\ t = Track(r) BY DEF CacheType, Win, Track
  <1>3. PICK s \in SUBSET Tracks : s = segs[b] BY DEF CacheType
  <1>4. PICK size \in Nat : size = Bytes[n][t] BY BytesAssumption
  <1>5. /\ pc[r] = "take" /\ t \in s /\ pc' = [pc EXCEPT ![r] = "served"]
        /\ segs' = [segs EXCEPT ![b] = s \ {t}] /\ served' = served + size
        /\ UNCHANGED <<wants, winBudget, bundle, winPeak, built>>
    BY <1>1, <1>2, <1>3, <1>4 DEF Take, Goto, local
  <1>6. PICK rest \in Nat : rest = SizeOf(n, s \ {t}) /\ SizeOf(n, s) = size + rest
    BY <1>4, <1>5, Sizes
  <1>7. SumFunctionOnSet(Bundles', Requests) = SumFunctionOnSet(Bundles, Requests) - size
    BY <1>1, <1>2, <1>3, <1>4, <1>5, BundleShrinks
  <1>8. served' + SumFunctionOnSet(Bundles', Requests) <= built'
    <2>1. SumFunctionOnSet(Bundles, Requests) \in Int
      BY Holdings, RequestsAssumption, SumNat
    <2> QED BY <1>5, <1>7, <2>1 DEF Sums, CacheType
  <1>9. Limit' = Limit BY <1>5 DEF Limit, Budget
  <1>10. \A m \in Windows : Held[m] = IF windows[m] = None THEN 0 ELSE SizeOf(m, segs[windows[m]])
    BY DEF Held
  <1>11. \A m \in Windows : Held'[m] = IF windows'[m] = None THEN 0 ELSE SizeOf(m, segs'[windows'[m]])
    BY DEF Held
  <1>12. \A m \in Windows \ {n} : windows[m] # b BY <1>1, <1>2, NoneAssumption DEF Places, Stored
  <1>13. ASSUME NEW m \in Windows, windows'[m] = windows[m], windows[m] # b PROVE Held'[m] = Held[m]
    BY <1>5, <1>10, <1>11, <1>13 DEF CacheType
  <1>14. \A q \in Requests : (OfWindow(q) /\ Unbuilt(q))'
    <2>1. ASSUME NEW q \in Requests PROVE OfWindow(q)'
      BY <1>5 DEF Places, OfWindow, Win, CacheType, Flying
    <2>2. ASSUME NEW q \in Requests PROVE Unbuilt(q)'
      BY <1>1, <1>5 DEF Places, Unbuilt, CacheType, Unframed
    <2> QED BY <2>1, <2>2
  <1>15. \A m \in Windows : windows'[m] \in {windows[m], None} => Stored(m)'
    BY <1>5 DEF Places, Stored, CacheType, Unframed, Win
  <1>16. pc' \in [Requests -> Steps] /\ segs' \in [Requests -> SUBSET Tracks] /\ served' \in Nat
    BY <1>5 DEF CacheType, Steps
  <1>20. CASE windows[n] # b
    <2>1. UNCHANGED <<windows, winOrder, winBytes>> /\ dropped' = dropped - size
      BY <1>1, <1>2, <1>3, <1>4, <1>20 DEF Take
    <2>2. CacheType' BY <1>5, <1>16, <2>1 DEF CacheType
    <2>3. Places' BY <1>14, <1>15, <2>1 DEF Places
    <2>4. Ages' BY <2>1 DEF Ages
    <2>5. \A m \in Windows : Held'[m] = Held[m] BY <1>12, <1>13, <1>20, <2>1
    <2>6. Held' = Held BY <2>5 DEF Held
    <2>7. Sums' BY <1>5, <1>8, <1>9, <2>1, <2>6 DEF Sums, CacheType
    <2> QED BY <2>2, <2>3, <2>4, <2>7
  <1>21. CASE windows[n] = b
    <2>1. Held[n] = SizeOf(n, s) BY <1>1, <1>3, <1>10, <1>21, NoneAssumption
    <2>2. ASSUME NEW l \in Nat, CacheType', Held'[n] = l, \A m \in Windows \ {n} : Held'[m] = Held[m],
                 winBytes' = winBytes - size - (rest - l), dropped' = dropped + (rest - l), l <= rest
          PROVE  Sums'
      <3>1. SumFunctionOnSet(Held', Windows) = SumFunctionOnSet(Held, Windows) - Held[n] + Held'[n]
        BY <2>2, HeldChange
      <3>2. winBytes \in Int /\ built \in Int /\ served \in Int /\ dropped \in Int BY DEF CacheType
      <3>3. SumFunctionOnSet(Held', Windows) = winBytes - (size + rest) + l
        BY <1>6, <2>1, <2>2, <3>1 DEF Sums
      <3>4. winBytes' = SumFunctionOnSet(Held', Windows) /\ winBytes' <= winBytes
        BY <2>2, <3>2, <3>3
      <3>5. Limit \in Int BY LimitsAssumption DEF Limit, Budget, CacheType
      <3>6. winBytes' <= Limit' BY <1>9, <2>2, <3>2, <3>4, <3>5 DEF Sums
      <3>7. built' = served' + dropped' + winBytes' BY <1>5, <2>2, <3>2 DEF Sums
      <3> QED BY <1>8, <3>4, <3>6, <3>7 DEF Sums
    <2>3. CASE s \ {t} = {} \/ Consumed(s \ {t})
      <3>1. /\ windows' = [windows EXCEPT ![n] = None] /\ winOrder' = RemoveFirst(winOrder, n)
            /\ winBytes' = winBytes - size - rest /\ dropped' = dropped + rest
        BY <1>6, <1>1, <1>2, <1>3, <1>4, <1>21, <2>3 DEF Take
      <3>2. n \in ToSet(winOrder) BY <1>1, <1>21, NoneAssumption DEF Ages
      <3>3. /\ winOrder' \in Seq(Windows) /\ IsInjective(winOrder')
            /\ ToSet(winOrder') = ToSet(winOrder) \ {n}
        BY <3>1, <3>2, OrderRemove DEF Ages, CacheType
      <3>4. Ages' BY <3>1, <3>3 DEF Ages, CacheType
      <3>5. CacheType' BY <1>5, <1>6, <1>16, <3>1, <3>3 DEF CacheType
      <3>6. \A m \in Windows : windows'[m] = IF m = n THEN None ELSE windows[m] BY <3>1 DEF CacheType
      <3>7. Places' BY <1>14, <1>15, <3>6 DEF Places
      <3>8. Held'[n] = 0 /\ \A m \in Windows \ {n} : Held'[m] = Held[m]
        BY <1>11, <1>12, <1>13, <3>6
      <3>9. Sums'
        <4>1. winBytes' = winBytes - size - (rest - 0) /\ dropped' = dropped + (rest - 0) BY <3>1
        <4> QED BY <2>2, <3>5, <3>8, <4>1
      <3> QED BY <3>4, <3>5, <3>7, <3>9
    <2>4. CASE ~ (s \ {t} = {} \/ Consumed(s \ {t}))
      <3>1. UNCHANGED <<windows, winOrder, dropped>> /\ winBytes' = winBytes - size
        BY <1>1, <1>2, <1>3, <1>4, <1>21, <2>4 DEF Take
      <3>2. CacheType' BY <1>5, <1>16, <3>1 DEF CacheType
      <3>3. Ages' /\ Places' BY <1>14, <1>15, <3>1 DEF Ages, Places
      <3>4. Held'[n] = SizeOf(n, s \ {t}) /\ \A m \in Windows \ {n} : Held'[m] = Held[m]
        BY <1>1, <1>3, <1>5, <1>11, <1>12, <1>13, <1>21, <3>1, NoneAssumption DEF CacheType
      <3>5. Sums'
        <4>1. winBytes' = winBytes - size - (rest - rest) /\ dropped' = dropped + (rest - rest)
          BY <3>1 DEF CacheType
        <4>2. Held'[n] = rest /\ rest <= rest BY <1>6, <3>4
        <4> QED BY <2>2, <3>2, <3>4, <4>1, <4>2
      <3> QED BY <3>2, <3>3, <3>5
    <2> QED BY <2>3, <2>4
  <1> QED BY <1>20, <1>21

\* A bundle arrives, whole.
LEMMA BundleArrives ==
    ASSUME CacheInv, NEW r \in Requests, pc[r] \in Unframed, UNCHANGED wants,
           segs' = [segs EXCEPT ![r] = Tracks]
    PROVE  SumFunctionOnSet(Bundles', Requests)
             = SumFunctionOnSet(Bundles, Requests) + SizeOf(Win(r), Tracks)
  <1> USE DEF CacheInv
  <1>1. PICK n \in Windows : n = Win(r) BY DEF CacheType, Win
  <1>2. SizeOf(n, Tracks) \in Nat /\ SizeOf(n, {}) = 0 BY Sizes
  <1>3. PICK g, h : g = Bundles /\ h = Bundles' OBVIOUS
  <1>4. g[r] = 0 /\ h[r] = SizeOf(n, Tracks)
    BY <1>1, <1>2, <1>3 DEF Bundles, CacheType, Win, Places, Unbuilt
  <1>5. \A q \in Requests \ {r} : h[q] = g[q]
    BY <1>3 DEF Bundles, CacheType, Win
  <1>6. \A q \in Requests : g[q] \in Int /\ h[q] \in Int
    BY <1>2, <1>3, <1>4, <1>5, Holdings
  <1>7. SumFunctionOnSet(h, Requests) = SumFunctionOnSet(g, Requests) - g[r] + h[r]
    BY <1>5, <1>6, RequestsAssumption, SumChange
  <1>8. SumFunctionOnSet(g, Requests) \in Int
    BY <1>6, RequestsAssumption, SumInt
  <1>9. SumFunctionOnSet(h, Requests) = SumFunctionOnSet(g, Requests) + SizeOf(n, Tracks)
    BY <1>2, <1>4, <1>7, <1>8
  <1> QED BY <1>1, <1>3, <1>9

\* The trim ends: with every window dropped, nothing is left over the budget.
LEMMA TrimEnds ==
    ASSUME NEW order \in Seq(Windows), NEW bytes, \A m \in Windows : bytes[m] \in Nat,
           \A m \in Windows \ ToSet(order) : bytes[m] = 0,
           NEW old \in Int, NEW new \in Int, old + new = SumFunctionOnSet(bytes, Windows), NEW limit \in Nat
    PROVE  \E i \in 0 .. Len(order) :
             /\ old + new - SumFunctionOnSet(bytes, ToSet(SubSeq(order, 1, i))) <= limit
             /\ \A j \in 0 .. i - 1 : old + new - SumFunctionOnSet(bytes, ToSet(SubSeq(order, 1, j))) > limit
  <1> DEFINE Over(i) == old + new - SumFunctionOnSet(bytes, ToSet(SubSeq(order, 1, i)))
             T == {i \in 0 .. Len(order) : Over(i) <= limit}
  <1>1. Len(order) \in Nat /\ SubSeq(order, 1, Len(order)) = order /\ ToSet(order) \in SUBSET Windows
    BY SubSeqFull, LenProperties, ElementOfSeq DEF ToSet
  <1>2. /\ SumFunctionOnSet(bytes, Windows)
             = SumFunctionOnSet(bytes, ToSet(order)) + SumFunctionOnSet(bytes, Windows \ ToSet(order))
        /\ SumFunctionOnSet(bytes, Windows \ ToSet(order)) = 0
        /\ SumFunctionOnSet(bytes, ToSet(order)) \in Nat
    <2>1. IsFiniteSet(Windows) /\ IsFiniteSet(Windows \ ToSet(order)) /\ IsFiniteSet(ToSet(order))
      BY <1>1, WindowsAssumption, FS_Subset
    <2>2. \A m \in Windows : bytes[m] \in Int OBVIOUS
    <2>3. \A m \in Windows \ ToSet(order) : bytes[m] \in Nat /\ bytes[m] = 0 OBVIOUS
    <2>4. SumFunctionOnSet(bytes, Windows)
             = SumFunctionOnSet(bytes, ToSet(order)) + SumFunctionOnSet(bytes, Windows \ ToSet(order))
      BY <1>1, <2>1, <2>2, SumSplit
    <2>5. SumFunctionOnSet(bytes, Windows \ ToSet(order)) = 0 BY <2>1, <2>3, SumNat
    <2>6. \A m \in ToSet(order) : bytes[m] \in Nat BY <1>1
    <2>7. SumFunctionOnSet(bytes, ToSet(order)) \in Nat BY <2>1, <2>6, SumNat
    <2> QED BY <2>4, <2>5, <2>7
  <1>3. Over(Len(order)) = 0
    <2>1. Over(Len(order)) = old + new - SumFunctionOnSet(bytes, ToSet(order)) BY <1>1
    <2>2. old + new = SumFunctionOnSet(bytes, ToSet(order)) BY <1>2
    <2> HIDE DEF Over
    <2> QED BY <1>2, <2>1, <2>2
  <1>4. T \subseteq 0 .. Len(order) /\ T # {} BY <1>1, <1>3
  <1>5. PICK m \in T : \A k \in 0 .. m - 1 : k \notin T
    <2> HIDE DEF T
    <2> QED BY <1>1, <1>4, LeastIndex
  <1>6. \A i \in 0 .. Len(order) : Over(i) \in Int
    <2> SUFFICES ASSUME NEW i \in 0 .. Len(order) PROVE Over(i) \in Int OBVIOUS
    <2>1. \A j \in 1 .. i : order[j] \in Windows BY <1>1, ElementOfSeq
    <2>2. SubSeq(order, 1, i) \in Seq(Windows) BY <2>1, <1>1, SubSeqProperties
    <2>3. ToSet(SubSeq(order, 1, i)) \in SUBSET Windows BY <2>2, LenProperties, ElementOfSeq DEF ToSet
    <2> DEFINE d == ToSet(SubSeq(order, 1, i))
    <2>4. IsFiniteSet(d) /\ \A x \in d : bytes[x] \in Int BY <2>3, WindowsAssumption, FS_Subset
    <2> HIDE DEF d
    <2>5. SumFunctionOnSet(bytes, d) \in Int BY <2>4, SumInt
    <2>6. old + new \in Int BY <1>2
    <2> QED BY <2>5, <2>6 DEF d
  <1>7. ASSUME NEW k \in 0 .. m - 1 PROVE Over(k) > limit
    <2>1. k \in 0 .. Len(order) /\ k \notin T BY <1>1, <1>5
    <2>2. ~ (Over(k) <= limit) BY <2>1
    <2> HIDE DEF Over
    <2> QED BY <1>6, <2>1, <2>2
  <1> QED BY <1>5, <1>7

\* What store does of a bundle it keeps: the newcomer comes last, and the k oldest go.
LEMMA StoreKept ==
    ASSUME CacheInv, NEW r \in Requests, NEW n \in Windows, windows[n] = None, winBudget >= 0, Store(r, n)
    PROVE  \E size, peak, bytes, drop :
             /\ size \in Nat /\ peak \in Nat /\ winPeak <= peak /\ drop \in SUBSET Windows
             /\ size = SizeOf(n, Tracks) /\ bytes = [Held EXCEPT ![n] = size]
             /\ windows' = [m \in Windows |-> IF m \in drop THEN None ELSE IF m = n THEN r ELSE windows[m]]
             /\ winOrder' \in Seq(Windows) /\ IsInjective(winOrder')
             /\ ToSet(winOrder') = (ToSet(winOrder) \cup {n}) \ drop
             /\ winBytes' = winBytes + size - SumFunctionOnSet(bytes, drop)
             /\ winBytes' <= Budget(peak)
             /\ winPeak' = peak
             /\ dropped' = dropped + SumFunctionOnSet(bytes, drop)
  <1> USE DEF CacheInv
  <1> DEFINE size  == SizeOf(n, Tracks)
             peak  == IF size > winPeak THEN size ELSE winPeak
             order == Append(winOrder, n)
             bytes == [Held EXCEPT ![n] = size]
             oldest(i) == SumFunctionOnSet(bytes, ToSet(SubSeq(order, 1, i)))
             Ok(i) == /\ winBytes + size - oldest(i) <= Budget(peak)
                      /\ \A j \in 0 .. i - 1 : winBytes + size - oldest(j) > Budget(peak)
             k == CHOOSE i \in 0 .. Len(order) : Ok(i)
             drop == ToSet(SubSeq(order, 1, k))
  <1>1. /\ windows' = [m \in Windows |-> IF m \in drop THEN None ELSE IF m = n THEN r ELSE windows[m]]
        /\ winOrder' = SubSeq(order, k + 1, Len(order))
        /\ winBytes' = winBytes + size - oldest(k)
        /\ winPeak' = peak
        /\ dropped' = dropped + oldest(k)
    <2>1. ~ (winBudget < 0 \/ windows[n] # None) BY LimitsAssumption DEF CacheType
    <2> QED BY <2>1 DEF Store
  <1>2. size \in Nat /\ peak \in Nat /\ winPeak \in Nat /\ winPeak <= peak /\ n \notin ToSet(winOrder)
    BY Sizes DEF CacheType, Ages
  <1>3. /\ order \in Seq(Windows) /\ IsInjective(order) /\ ToSet(order) = ToSet(winOrder) \cup {n}
    BY <1>2, OrderAppend DEF CacheType, Ages
  <1>4. \E i \in 0 .. Len(order) : Ok(i)
    <2>1. \A m \in Windows : bytes[m] = IF m = n THEN size ELSE Held[m] BY DEF Held
    <2>2. \A m \in Windows : bytes[m] \in Nat BY <1>2, <2>1, Holdings
    <2>3. \A m \in Windows \ ToSet(order) : bytes[m] = 0
      BY <1>3, <2>1, Holdings DEF Ages
    <2>4. SumFunctionOnSet(bytes, Windows) = winBytes + size
      <3>1. PICK f, g : f = Held /\ g = bytes OBVIOUS
      <3>2. Held[n] = 0 BY Holdings
      <3>3. \A m \in Windows : f[m] \in Int /\ g[m] \in Int BY <2>2, <3>1, Holdings
      <3>4. \A m \in Windows \ {n} : f[m] = g[m] BY <2>1, <3>1
      <3> HIDE DEF bytes
      <3>5. SumFunctionOnSet(g, Windows) = SumFunctionOnSet(f, Windows) - f[n] + g[n]
        BY <3>3, <3>4, WindowsAssumption, SumChange
      <3>6. SumFunctionOnSet(f, Windows) = winBytes /\ winBytes \in Int BY <3>1 DEF Sums, CacheType
      <3> QED BY <1>2, <2>1, <3>1, <3>2, <3>5, <3>6
    <2>5. Budget(peak) \in Nat
      BY <1>2, LimitsAssumption DEF Budget, CacheType
    <2> HIDE DEF bytes, order, size, peak
    <2>6. winBytes \in Int /\ size \in Int BY <1>2 DEF CacheType
    <2>7. \E i \in 0 .. Len(order) :
            /\ winBytes + size - SumFunctionOnSet(bytes, ToSet(SubSeq(order, 1, i))) <= Budget(peak)
            /\ \A j \in 0 .. i - 1 :
                 winBytes + size - SumFunctionOnSet(bytes, ToSet(SubSeq(order, 1, j))) > Budget(peak)
      BY <1>3, <2>2, <2>3, <2>4, <2>5, <2>6, TrimEnds
    <2> QED BY <2>7
  <1>5. k \in 0 .. Len(order) /\ winBytes + size - oldest(k) <= Budget(peak)
    <2> HIDE DEF Ok
    <2>1. k \in 0 .. Len(order) /\ Ok(k) BY <1>4
    <2> QED BY <2>1 DEF Ok
  <1>7. /\ winOrder' \in Seq(Windows) /\ IsInjective(winOrder')
        /\ ToSet(winOrder') = ToSet(order) \ drop /\ drop \subseteq ToSet(order)
    <2> HIDE DEF order, k
    <2> QED BY <1>1, <1>3, <1>5, OrderSplit
  <1>8. drop \in SUBSET Windows
    <2>1. ToSet(order) \in SUBSET Windows BY <1>3 DEF Ages
    <2> QED BY <1>7, <2>1
  <1> HIDE DEF size, peak, order, k, drop
  <1>9. bytes = [Held EXCEPT ![n] = size] OBVIOUS
  <1> HIDE DEF bytes
  <1>10. oldest(k) = SumFunctionOnSet(bytes, drop) BY DEF drop
  <1> HIDE DEF oldest
  <1>11. size = SizeOf(n, Tracks) BY DEF size
  <1>12. ToSet(winOrder') = (ToSet(winOrder) \cup {n}) \ drop BY <1>3, <1>7
  <1> WITNESS size, peak, bytes, drop
  <1> QED BY <1>1, <1>2, <1>5, <1>7, <1>8, <1>9, <1>10, <1>11, <1>12

LEMMA CachePublishKeeps == ASSUME CacheInv, NEW r \in Requests, Publish(r) PROVE CacheInv'
  <1> USE DEF CacheInv
  <1>1. PICK n \in Windows : n = Win(r) BY DEF CacheType, Win
  <1>2. /\ pc[r] = "publish" /\ pc' = [pc EXCEPT ![r] = "finish"]
        /\ UNCHANGED <<wants, winBudget, bundle>>
    BY DEF Publish, Goto, local
  <1>3. bundle[r] \in Requests /\ Win(bundle[r]) = Win(r)
    BY <1>2 DEF Places, OfWindow, Flying
  <1>4. CASE failed[r]
    <2>1. UNCHANGED <<cache, stats>> BY <1>4 DEF Publish
    <2>2. OfWindow(r)' BY <1>2, <1>3 DEF OfWindow, Win
    <2>3. /\ pc' \in [Requests -> Steps] /\ bundle' \in [Requests -> Requests \cup {None}]
          /\ \A q \in Requests \ {r} : pc'[q] = pc[q] /\ bundle'[q] = bundle[q]
          /\ pc'[r] \notin Unframed
      BY <1>2 DEF CacheType, Steps, Unframed
    <2> QED BY <1>2, <2>1, <2>2, <2>3, QuietKeeps
  <1>5. CASE ~ failed[r]
    <2>1. PICK size \in Nat : size = SizeOf(n, Tracks) BY Sizes
    <2>2. /\ built' = built + size /\ segs' = [segs EXCEPT ![r] = Tracks]
          /\ Store(r, n) /\ UNCHANGED served
      BY <1>1, <1>5, <2>1 DEF Publish
    <2>3. SumFunctionOnSet(Bundles', Requests) = SumFunctionOnSet(Bundles, Requests) + size
      BY <1>1, <1>2, <2>1, <2>2, BundleArrives DEF Unframed
    <2>4. served' + SumFunctionOnSet(Bundles', Requests) <= built'
      <3>1. SumFunctionOnSet(Bundles, Requests) \in Int BY Holdings, RequestsAssumption, SumNat
      <3> QED BY <2>2, <2>3, <3>1 DEF Sums, CacheType
    <2>5. \A q \in Requests : (OfWindow(q) /\ Unbuilt(q))'
      <3>1. ASSUME NEW q \in Requests PROVE OfWindow(q)'
        BY <1>2, <1>3 DEF Places, OfWindow, Win, CacheType, Flying
      <3>2. ASSUME NEW q \in Requests PROVE Unbuilt(q)'
        BY <1>2, <2>2 DEF Places, Unbuilt, CacheType, Unframed
      <3> QED BY <3>1, <3>2
    <2>6. \A m \in Windows : windows[m] # r
      BY <1>2, NoneAssumption DEF Places, Stored, Unframed
    <2>7. \A m \in Windows : windows'[m] \in {windows[m], None} => Stored(m)'
      BY <1>2 DEF Places, Stored, CacheType, Unframed, Win
    <2>8. \A m \in Windows : Held[m] = IF windows[m] = None THEN 0 ELSE SizeOf(m, segs[windows[m]])
      BY DEF Held
    <2>9. \A m \in Windows : Held'[m] = IF windows'[m] = None THEN 0 ELSE SizeOf(m, segs'[windows'[m]])
      BY DEF Held
    <2>10. pc' \in [Requests -> Steps] /\ segs' \in [Requests -> SUBSET Tracks] /\ built' \in Nat
      BY <1>2, <2>2 DEF CacheType, Steps
    <2>11. ASSUME NEW m \in Windows, windows'[m] = windows[m] PROVE Held'[m] = Held[m]
      BY <2>2, <2>6, <2>8, <2>9, <2>11 DEF CacheType
    <2>12. CASE winBudget < 0 \/ windows[n] # None
      <3>1. dropped' = dropped + size /\ UNCHANGED <<windows, winOrder, winBytes, winPeak>>
        BY <2>1, <2>2, <2>12 DEF Store
      <3>2. CacheType' BY <1>2, <2>2, <2>10, <3>1 DEF CacheType
      <3>3. Places' /\ Ages' BY <2>5, <2>7, <3>1 DEF Places, Ages
      <3>4. Held' = Held
        <4>1. \A m \in Windows : Held'[m] = Held[m] BY <2>11, <3>1
        <4> QED BY <4>1 DEF Held
      <3>5. Limit' = Limit BY <1>2, <3>1 DEF Limit, Budget
      <3>6. Sums' BY <2>2, <2>4, <3>1, <3>4, <3>5 DEF Sums, CacheType
      <3> QED BY <3>2, <3>3, <3>6
    <2>13. CASE winBudget >= 0 /\ windows[n] = None
      <3>1. PICK peak, bytes, drop :
             /\ peak \in Nat /\ winPeak <= peak /\ drop \in SUBSET Windows
             /\ bytes = [Held EXCEPT ![n] = size]
             /\ windows' = [m \in Windows |-> IF m \in drop THEN None ELSE IF m = n THEN r ELSE windows[m]]
             /\ winOrder' \in Seq(Windows) /\ IsInjective(winOrder')
             /\ ToSet(winOrder') = (ToSet(winOrder) \cup {n}) \ drop
             /\ winBytes' = winBytes + size - SumFunctionOnSet(bytes, drop)
             /\ winBytes' <= Budget(peak)
             /\ winPeak' = peak
             /\ dropped' = dropped + SumFunctionOnSet(bytes, drop)
        BY <2>1, <2>2, <2>13, StoreKept
      <3>2. \A m \in Windows : bytes[m] = IF m = n THEN size ELSE Held[m] BY <3>1 DEF Held
      <3>3. \A m \in Windows : bytes[m] \in Nat /\ bytes[m] \in Int BY <3>2, Holdings
      <3>4. \A m \in Windows : Held'[m] = IF m \in drop THEN 0 ELSE bytes[m]
        <4>1. ASSUME NEW m \in Windows, m \notin drop, m = n PROVE Held'[m] = bytes[m]
          BY <2>1, <2>2, <2>9, <3>1, <3>2, <4>1, NoneAssumption DEF CacheType
        <4>2. ASSUME NEW m \in Windows, m \notin drop, m # n PROVE Held'[m] = bytes[m]
          BY <2>11, <3>1, <3>2, <4>2
        <4>3. ASSUME NEW m \in drop PROVE Held'[m] = 0
          BY <2>9, <3>1, <4>3
        <4> QED BY <4>1, <4>2, <4>3
      <3>5. PICK f, g : f = Held /\ g = Held' OBVIOUS
      <3>6. SumFunctionOnSet(bytes, Windows) = winBytes + size
        <4>1. f[n] = 0 /\ \A m \in Windows : f[m] \in Int BY <2>13, <3>5, Holdings
        <4>2. \A m \in Windows \ {n} : f[m] = bytes[m] BY <3>2, <3>5
        <4>3. SumFunctionOnSet(bytes, Windows) = SumFunctionOnSet(f, Windows) - f[n] + bytes[n]
          BY <3>3, <4>1, <4>2, WindowsAssumption, SumChange
        <4>4. SumFunctionOnSet(f, Windows) = winBytes /\ winBytes \in Int BY <3>5 DEF Sums, CacheType
        <4> QED BY <3>2, <4>1, <4>3, <4>4
      <3>7. IsFiniteSet(Windows) /\ IsFiniteSet(drop) /\ IsFiniteSet(Windows \ drop)
        BY <3>1, WindowsAssumption, FS_Subset
      <3>8. /\ SumFunctionOnSet(bytes, Windows) = SumFunctionOnSet(bytes, drop) + SumFunctionOnSet(bytes, Windows \ drop)
            /\ SumFunctionOnSet(bytes, drop) \in Nat
        <4>1. SumFunctionOnSet(bytes, Windows) = SumFunctionOnSet(bytes, drop) + SumFunctionOnSet(bytes, Windows \ drop)
          <5>1. drop \in SUBSET Windows /\ IsFiniteSet(Windows) BY <3>1, <3>7
          <5>2. \A m \in Windows : bytes[m] \in Int BY <3>3
          <5> QED BY <5>1, <5>2, SumSplit
        <4>2. \A m \in drop : bytes[m] \in Nat BY <3>1, <3>3
        <4>3. SumFunctionOnSet(bytes, drop) \in Nat BY <3>7, <4>2, SumNat
        <4> QED BY <4>1, <4>3
      <3>9. SumFunctionOnSet(g, Windows) = SumFunctionOnSet(bytes, Windows \ drop)
        <4>1. \A m \in Windows : g[m] \in Int /\ g[m] = IF m \in drop THEN 0 ELSE bytes[m] BY <3>3, <3>4, <3>5
        <4>2. SumFunctionOnSet(g, Windows) = SumFunctionOnSet(g, drop) + SumFunctionOnSet(g, Windows \ drop)
          BY <3>1, <3>7, <4>1, SumSplit
        <4>3. SumFunctionOnSet(g, drop) = 0
          <5>1. \A m \in drop : g[m] \in Nat /\ g[m] = 0 BY <3>1, <4>1
          <5> QED BY <3>7, <5>1, SumNat
        <4>4. SumFunctionOnSet(g, Windows \ drop) = SumFunctionOnSet(bytes, Windows \ drop)
          BY <3>7, <4>1, SumSame
        <4>5. SumFunctionOnSet(bytes, Windows \ drop) \in Int BY <3>3, <3>7, SumInt
        <4> QED BY <4>2, <4>3, <4>4, <4>5
      <3>10. winBytes' = SumFunctionOnSet(Held', Windows)
        <4>1. SumFunctionOnSet(bytes, Windows \ drop) \in Int BY <3>3, <3>7, SumInt
        <4>2. winBytes + size = SumFunctionOnSet(bytes, drop) + SumFunctionOnSet(bytes, Windows \ drop)
          BY <3>6, <3>8
        <4>3. winBytes \in Int BY DEF CacheType
        <4>4. winBytes' = SumFunctionOnSet(bytes, Windows \ drop) BY <3>1, <3>8, <4>1, <4>2, <4>3
        <4> QED BY <3>5, <3>9, <4>4
      <3>11. winBytes' <= Limit'
        <4>1. Limit' = Budget(peak)
          BY <1>2, <2>13, <3>1, LimitsAssumption DEF Limit, Budget, CacheType
        <4> QED BY <3>1, <4>1
      <3>12. winBytes' \in Int /\ dropped' \in Int BY <3>1, <3>8 DEF CacheType
      <3>13. built' = served' + dropped' + winBytes'
        <4>1. PICK d \in Nat : d = SumFunctionOnSet(bytes, drop) BY <3>8
        <4>2. winBytes' = winBytes + size - d /\ dropped' = dropped + d /\ built' = built + size /\ served' = served
          BY <2>2, <3>1, <4>1
        <4> QED BY <4>2 DEF Sums, CacheType
      <3>14. windows' \in [Windows -> Requests \cup {None}] BY <3>1 DEF CacheType
      <3>15. CacheType' BY <1>2, <2>2, <2>10, <3>1, <3>12, <3>14 DEF CacheType
      <3>16. \A m \in Windows : Stored(m)'
        <4>1. ASSUME NEW m \in Windows, windows'[m] = r PROVE Stored(m)'
          BY <1>1, <1>2, <2>6, <3>1, <4>1, NoneAssumption DEF Stored, Win, CacheType, Unframed
        <4>2. \A m \in Windows : windows'[m] \in {windows[m], None, r} BY <3>1
        <4> QED BY <2>7, <4>1, <4>2
      <3>17. ToSet(winOrder') = {m \in Windows : windows'[m] # None}
        <4>1. \A m \in Windows : windows'[m] # None <=> m \notin drop /\ (m = n \/ windows[m] # None)
          BY <3>1, NoneAssumption
        <4> QED BY <3>1, <4>1 DEF Ages
      <3> QED BY <2>4, <2>5, <3>1, <3>10, <3>11, <3>13, <3>15, <3>16, <3>17 DEF Places, Ages, Sums
    <2>14. winBudget \in Int BY LimitsAssumption DEF CacheType
    <2> QED BY <2>12, <2>13, <2>14
  <1> QED BY <1>4, <1>5

\* A walk for one request: the rest of what it framed is dropped with it.
LEMMA CacheAloneKeeps == ASSUME CacheInv, NEW r \in Requests, CountAlone(r) PROVE CacheInv'
  <1> USE DEF CacheInv
  <1>1. PICK n \in Windows, t \in Tracks : n = Win(r) /\ t = Track(r) BY DEF CacheType, Win, Track
  <1>2. PICK size \in Nat, rest \in Nat : size = Bytes[n][t] /\ SizeOf(n, Tracks) = size + rest
    <2>1. /\ SizeOf(n, Tracks) = Bytes[n][t] + SizeOf(n, Tracks \ {t})
          /\ Bytes[n][t] \in Nat /\ SizeOf(n, Tracks \ {t}) \in Nat
      BY Sizes
    <2> QED BY <2>1
  <1>3. /\ pc' = [pc EXCEPT ![r] = "served"] /\ pc[r] = "countAlone"
        /\ built' = built + (size + rest) /\ served' = served + size /\ dropped' = dropped + (size + rest) - size
        /\ UNCHANGED <<wants, winBudget, bundle, segs, windows, winOrder, winBytes, winPeak>>
    BY <1>1, <1>2 DEF CountAlone, Goto, local, cache
  <1>4. CacheType' BY <1>3 DEF CacheType, Steps
  <1>5. Places'
    <2>1. \A q \in Requests : Unbuilt(q)' BY <1>3 DEF Places, Unbuilt, Unframed, CacheType
    <2>2. \A q \in Requests : OfWindow(q)' BY <1>3 DEF Places, OfWindow, Win, Flying, CacheType
    <2>3. \A n1 \in Windows : Stored(n1)' BY <1>3 DEF Places, Stored, Win, Unframed, CacheType
    <2> QED BY <2>1, <2>2, <2>3 DEF Places
  <1>6. Ages' BY <1>3 DEF Ages
  <1>7. Sums'
    <2>1. Held' = Held BY <1>3 DEF Held
    <2>2. Bundles' = Bundles BY <1>3 DEF Bundles, Win
    <2>3. Limit' = Limit BY <1>3 DEF Limit, Budget
    <2>4. winBytes' = SumFunctionOnSet(Held', Windows) /\ winBytes' <= Limit' BY <1>3, <2>1, <2>3 DEF Sums
    <2>5. winBytes \in Int /\ built \in Int /\ served \in Int /\ dropped \in Int BY DEF CacheType
    <2>6. built' = served' + dropped' + winBytes' BY <1>3, <2>5 DEF Sums
    <2>7. SumFunctionOnSet(Bundles, Requests) \in Int BY Holdings, RequestsAssumption, SumNat
    <2>8. served' + SumFunctionOnSet(Bundles', Requests) <= built' BY <1>3, <2>2, <2>5, <2>7 DEF Sums
    <2> QED BY <2>4, <2>6, <2>8 DEF Sums
  <1> QED BY <1>4, <1>5, <1>6, <1>7

LEMMA CacheSame ==
    ASSUME CacheInv, UNCHANGED <<pc, bundle, wants, winBudget, cache, stats>> PROVE CacheInv'
  <1> USE DEF CacheInv, cache, stats
  <1>1. CacheType' /\ Ages' BY DEF CacheType, Ages
  <1>2. Places' BY DEF Places, OfWindow, Unbuilt, Stored, Win
  <1>3. Held' = Held BY DEF Held
  <1>4. Bundles' = Bundles BY DEF Bundles, Win
  <1>5. Limit' = Limit BY DEF Limit, Budget
  <1> QED BY <1>1, <1>2, <1>3, <1>4, <1>5 DEF Sums

\* Where a request's bundle comes from, it is one of its window.
LEMMA NextCacheInv == IInv /\ CacheInv /\ [Next]_vars => CacheInv'
  <1> SUFFICES ASSUME IInv, CacheInv, [Next]_vars PROVE CacheInv' OBVIOUS
  <1>1. ASSUME NEW r \in Requests,
               \/ Start(r) \/ Refuse(r) \/ GiveUp(r) \/ Awaited(r)
               \/ AcquireWalk(r) \/ StopQueueing(r) \/ WalkFails(r) \/ WalkEnds(r) \/ Finish(r) \/ Retake(r)
        PROVE  CacheInv'
    <2>1. UNCHANGED <<wants, winBudget, cache, stats, bundle>>
      BY <1>1 DEF Start, Refuse, GiveUp, Awaited, AcquireWalk, StopQueueing, WalkFails, WalkEnds, Finish, Retake, local
    <2>2. PICK s \in Steps : /\ Goto(r, s)
                             /\ pc[r] \notin Unframed => s \notin Unframed
                             /\ s \in {"wait", "take"} \cup Flying => pc[r] \in {"wait", "take"} \cup Flying
      BY <1>1 DEF Start, Refuse, GiveUp, Awaited, AcquireWalk, StopQueueing, WalkFails, WalkEnds, Finish, Retake,
                  Fail, Queue, Steps, Unframed, Flying
    <2>3. pc' \in [Requests -> Steps] /\ pc'[r] = s /\ \A q \in Requests \ {r} : pc'[q] = pc[q]
      BY <2>2 DEF Goto, CacheInv, CacheType
    <2>4. OfWindow(r)' BY <2>1, <2>2, <2>3 DEF CacheInv, Places, OfWindow, Win
    <2>5. bundle' \in [Requests -> Requests \cup {None}] BY <2>1 DEF CacheInv, CacheType
    <2> QED BY <2>1, <2>2, <2>3, <2>4, <2>5, QuietKeeps
  <1>2. ASSUME NEW r \in Requests, Hit(r) \/ Join(r) \/ Lead(r) PROVE CacheInv'
    <2>1. PICK b \in Requests : Win(b) = Win(r) /\ bundle' = [bundle EXCEPT ![r] = b]
      <3>1. Win(r) \in Windows BY DEF CacheInv, CacheType, Win
      <3>2. CASE Hit(r) BY <3>1, <3>2 DEF Hit, CacheInv, Places, Stored
      <3>3. CASE Join(r) BY <3>1, <3>3 DEF Join, IInv, FlightType, Flights, Current
      <3>4. CASE Lead(r) BY <3>4 DEF Lead
      <3> QED BY <1>2, <3>2, <3>3, <3>4
    <2>2. UNCHANGED <<wants, winBudget, cache, stats>> /\ pc[r] = "window" BY <1>2 DEF Hit, Join, Lead, local
    <2>3. PICK s \in Steps : Goto(r, s) BY <1>2 DEF Hit, Join, Lead, Queue, Steps
    <2>4. pc' \in [Requests -> Steps] /\ \A q \in Requests \ {r} : pc'[q] = pc[q]
      BY <2>3 DEF Goto, CacheInv, CacheType
    <2>5. /\ bundle' \in [Requests -> Requests \cup {None}] /\ bundle'[r] = b
          /\ \A q \in Requests \ {r} : bundle'[q] = bundle[q]
      BY <2>1 DEF CacheInv, CacheType
    <2>6. OfWindow(r)' BY <2>1, <2>2, <2>5 DEF OfWindow, Win
    <2>7. pc[r] \in Unframed BY <2>2 DEF Unframed
    <2> QED BY <2>2, <2>4, <2>5, <2>6, <2>7, QuietKeeps
  <1>3. ASSUME NEW r \in Requests, Leave(r) \/ LeaderGone(r) PROVE CacheInv'
    BY <1>3, CacheSame DEF Leave, LeaderGone, local
  <1>4. CASE SetCap \/ UNCHANGED vars BY <1>4, CacheSame DEF SetCap, vars, local
  <1> QED BY <1>1, <1>2, <1>3, <1>4, CachePublishKeeps, CacheTakeKeeps, CacheAloneKeeps DEF Next, Serve

LEMMA InitCacheInv == Init => CacheInv
  <1> SUFFICES ASSUME Init PROVE CacheInv OBVIOUS
  <1>1. CacheType BY DEF Init, CacheType, Steps
  <1>2. Places BY DEF Init, Places, OfWindow, Unbuilt, Stored, Flying
  <1>3. Ages
    <2>1. winOrder = <<>> /\ ToSet(winOrder) = {} BY DEF Init, ToSet
    <2>2. IsInjective(winOrder) BY <2>1 DEF IsInjective
    <2> QED BY <2>1, <2>2 DEF Ages, Init
  <1>4. SumFunctionOnSet(Held, Windows) = 0
    <2>1. \A n \in Windows : Held[n] \in Nat /\ Held[n] = 0 BY <1>1, <1>2, Holdings DEF Init
    <2> QED BY <2>1, WindowsAssumption, SumNat
  <1>5. SumFunctionOnSet(Bundles, Requests) = 0
    <2>1. \A r \in Requests : Bundles[r] \in Nat BY <1>1, <1>2, Holdings
    <2>2. \A r \in Requests : Bundles[r] = 0
      <3>1. \A r \in Requests : Win(r) \in Windows /\ segs[r] = {} BY <1>1 DEF Init, CacheType, Win
      <3> QED BY <3>1, Sizes DEF Bundles
    <2> QED BY <2>1, <2>2, RequestsAssumption, SumNat
  <1>6. 0 <= Limit BY LimitsAssumption DEF Limit, Budget, Init
  <1>7. Sums BY <1>4, <1>5, <1>6 DEF Init, Sums
  <1> QED BY <1>1, <1>2, <1>3, <1>7 DEF CacheInv

\* Every byte the walks framed was served, was dropped, or is held by the cache: whichever
\* requests race for a rendition, whatever bundle is taken from after it was dropped.
THEOREM BytesAreAccounted == Spec => []BytesAccounted
  <1>1. IInv /\ CacheInv => BytesAccounted BY DEF CacheInv, Sums, BytesAccounted
  <1>2. Init => IInv /\ CacheInv BY InitIInv, InitCacheInv
  <1>3. (IInv /\ CacheInv) /\ [Next]_vars => (IInv /\ CacheInv)' BY NextIInv, NextCacheInv
  <1> QED BY <1>1, <1>2, <1>3, PTL DEF Spec

-----------------------------------------------------------------------------
(* The types, and with them the cache.                                     *)

\* The counter of a flight that has ended counts those released who did not go yet, and those gone on.
Tally(f) == Cardinality(WaitersOf(f)) <= waiters[f] /\ waiters[f] <= Cardinality(Requests)
Tallies  == (\A f \in Requests : Tally(f)) /\ faults \in 0 .. MaxFaults

LEMMA NextTallies == IInv /\ IInv' /\ Tallies /\ [Next]_vars => Tallies'
  <1> SUFFICES ASSUME IInv, IInv', Tallies, [Next]_vars PROVE Tallies' OBVIOUS
  <1>1. faults' \in 0 .. MaxFaults
    <2>1. \/ faults' = faults
          \/ faults < MaxFaults /\ faults' = faults + 1
      BY DEF Next, Serve, Leave, Start, Refuse, Hit, Join, Lead, LeaderGone, Awaited, GiveUp, AcquireWalk, SetCap,
             StopQueueing, WalkFails, WalkEnds, Publish, Finish, Take, Retake, CountAlone, vars
    <2> QED BY <2>1, BoundsAssumption DEF Tallies
  <1>2. ASSUME NEW f \in Requests, ~ done'[f] PROVE Tally(f)'
    <2>1. waiters'[f] = Cardinality(WaitersOf(f)') BY <1>2 DEF IInv, Crowds, Counted
    <2>2. WaitersOf(f)' \in SUBSET Requests BY DEF WaitersOf
    <2>3. Cardinality(WaitersOf(f)') <= Cardinality(Requests) /\ Cardinality(WaitersOf(f)') \in Nat
      BY <2>2, RequestsAssumption, FS_Subset, FS_CardinalityType
    <2> QED BY <2>1, <2>3 DEF Tally
  <1>3. ASSUME NEW f \in Requests, waiters'[f] = waiters[f], WaitersOf(f)' \subseteq WaitersOf(f)
        PROVE  Tally(f)'
    <2>1. Cardinality(WaitersOf(f)') <= Cardinality(WaitersOf(f)) /\ Cardinality(WaitersOf(f)') \in Nat
      BY <1>3, WaitersFinite, FS_Subset, FS_CardinalityType
    <2>2. waiters[f] \in Int /\ Cardinality(WaitersOf(f)) \in Nat BY WaitersFinite DEF IInv, FlightType
    <2> QED BY <1>3, <2>1, <2>2 DEF Tallies, Tally
  <1>4. ASSUME NEW r \in Requests, NEW f \in Requests, GiveUp(r) PROVE Tally(f)'
    <2>1. waiters' = [waiters EXCEPT ![bundle[r]] = @ - 1] /\ Goto(r, "failed") /\ pc[r] = "wait" /\ bundle' = bundle
      BY <1>4 DEF GiveUp
    <2>2. /\ \A g \in Requests : g # bundle[r] => WaitersOf(g)' = WaitersOf(g)
          /\ \A g \in Requests : g = bundle[r] => Cardinality(WaitersOf(g)') = Cardinality(WaitersOf(g)) - 1
      BY <2>1, OneLess DEF IInv, Steps
    <2>3. CASE f # bundle[r] BY <1>3, <2>1, <2>2, <2>3 DEF IInv, FlightType
    <2>4. CASE f = bundle[r]
      <3>1. waiters'[f] = waiters[f] - 1 BY <2>1, <2>4 DEF IInv, FlightType
      <3>2. waiters[f] \in Int /\ Cardinality(WaitersOf(f)) \in Nat BY WaitersFinite DEF IInv, FlightType
      <3>3. Cardinality(Requests) \in Nat BY RequestsAssumption, FS_CardinalityType
      <3> QED BY <2>2, <2>4, <3>1, <3>2, <3>3 DEF Tallies, Tally
    <2> QED BY <2>3, <2>4
  <1>5. ASSUME NEW r \in Requests, NEW f \in Requests, Join(r) PROVE Tally(f)'
    <2>1. PICK g \in Requests : /\ g = flight[Win(r)] /\ ~ done[g]
                                /\ waiters' = [waiters EXCEPT ![g] = @ + 1] /\ bundle' = [bundle EXCEPT ![r] = g]
                                /\ done' = done /\ Goto(r, "wait") /\ pc[r] = "window"
      <3>1. PICK g \in Requests : g = flight[Win(r)] /\ pc[g] \in Joinable
        BY <1>5 DEF Join, IInv, FlightType, Flights, Current, Win
      <3>2. ~ done[g] BY <3>1 DEF IInv, Flights, Leads, Joinable, Flying
      <3> QED BY <1>5, <3>1, <3>2 DEF Join
    <2>2. CASE f = g BY <1>2, <2>1, <2>2
    <2>3. CASE f # g
      <3>1. waiters'[f] = waiters[f] BY <2>1, <2>3 DEF IInv, FlightType
      <3>2. WaitersOf(f)' \subseteq WaitersOf(f) BY <2>1, <2>3 DEF WaitersOf, IInv, FlightType, Goto
      <3> QED BY <1>3, <3>1, <3>2
    <2> QED BY <2>2, <2>3
  <1>6. ASSUME NEW r \in Requests,
               \/ Start(r) \/ Refuse(r) \/ Hit(r) \/ Lead(r) \/ Awaited(r) \/ AcquireWalk(r) \/ StopQueueing(r)
               \/ WalkFails(r) \/ WalkEnds(r) \/ Publish(r) \/ Finish(r) \/ Take(r) \/ Retake(r) \/ CountAlone(r)
        PROVE  \A f \in Requests : Tally(f)'
    <2>1. waiters' = waiters /\ \A q \in Requests : q # r => bundle'[q] = bundle[q]
      BY <1>6 DEF Start, Refuse, Hit, Lead, Awaited, AcquireWalk, StopQueueing, WalkFails, WalkEnds, Publish, Finish,
                  Take, Retake, CountAlone, fl, IInv, FlightType
    <2>2. PICK s \in Steps \ {"wait"} : Goto(r, s)
      BY <1>6 DEF Start, Refuse, Hit, Lead, Awaited, AcquireWalk, StopQueueing, WalkFails, WalkEnds, Publish, Finish,
                  Take, Retake, CountAlone, Queue, Fail, Steps
    <2>3. \A q \in Requests : pc'[q] = "wait" => pc[q] = "wait" /\ bundle'[q] = bundle[q]
      BY <2>1, <2>2 DEF Goto, IInv, FlightType
    <2>4. \A f \in Requests : WaitersOf(f)' \subseteq WaitersOf(f) BY <2>3 DEF WaitersOf
    <2> QED BY <1>3, <2>1, <2>4
  <1>7. ASSUME NEW r \in Requests, Leave(r) \/ LeaderGone(r) PROVE \A f \in Requests : Tally(f)'
    <2>1. UNCHANGED <<pc, bundle, waiters>> BY <1>7 DEF Leave, LeaderGone, fl
    <2>2. \A f \in Requests : WaitersOf(f)' \subseteq WaitersOf(f) BY <2>1 DEF WaitersOf
    <2> QED BY <1>3, <2>1, <2>2
  <1>8. ASSUME SetCap \/ UNCHANGED vars PROVE \A f \in Requests : Tally(f)'
    <2>1. UNCHANGED <<pc, bundle, waiters>> BY <1>8 DEF SetCap, fl, vars
    <2>2. \A f \in Requests : WaitersOf(f)' \subseteq WaitersOf(f) BY <2>1 DEF WaitersOf
    <2> QED BY <1>3, <2>1, <2>2
  <1>9. \A f \in Requests : Tally(f)'
    BY <1>4, <1>5, <1>6, <1>7, <1>8 DEF Next, Serve
  <1> QED BY <1>1, <1>9 DEF Tallies

LEMMA InitTallies == Init => Tallies
  <1> SUFFICES ASSUME Init PROVE Tallies OBVIOUS
  <1>1. \A f : WaitersOf(f) = {} BY DEF Init, WaitersOf
  <1>2. Cardinality(Requests) \in Nat BY RequestsAssumption, FS_CardinalityType
  <1>3. \A f \in Requests : Tally(f)
    <2>1. \A f \in Requests : Cardinality(WaitersOf(f)) = 0 /\ waiters[f] = 0 BY <1>1, FS_EmptySet DEF Init
    <2> QED BY <1>2, <2>1 DEF Tally
  <1> QED BY <1>3, BoundsAssumption DEF Init, Tallies

LEMMA Types == IInv /\ SlotInv /\ CacheInv /\ Tallies => TypeOK
  <1> SUFFICES ASSUME IInv, SlotInv, CacheInv, Tallies PROVE TypeOK OBVIOUS
  <1>1. waiters \in [Requests -> 0 .. Cardinality(Requests)]
    <2>1. \A f \in Requests : waiters[f] \in 0 .. Cardinality(Requests)
      <3>1. \A f \in Requests : waiters[f] \in Int /\ Cardinality(WaitersOf(f)) \in Nat
        BY WaitersFinite DEF IInv, FlightType
      <3>2. Cardinality(Requests) \in Nat BY RequestsAssumption, FS_CardinalityType
      <3> QED BY <3>1, <3>2 DEF Tallies, Tally
    <2>2. waiters \in [Requests -> Int] BY DEF IInv, FlightType
    <2> QED BY <2>1, <2>2
  <1>2. winBytes \in Nat /\ dropped \in Nat BY NothingNegative
  <1>3. \A s \in {left, gone, cancelled, done, failed} : s \in [Requests -> BOOLEAN] BY DEF IInv, FlightType
  <1>4. {winBytes, winPeak, built, served, dropped} \subseteq Nat BY <1>2 DEF CacheInv, CacheType
  <1>5. flight \in [Windows -> Requests \cup {None}] BY DEF IInv, FlightType
  <1>6. cap \in DOMAIN Caps /\ slots \in [DOMAIN Caps -> Nat] /\ chan \in [Requests -> DOMAIN Caps] BY DEF SlotInv
  <1> QED BY <1>1, <1>3, <1>4, <1>5, <1>6 DEF TypeOK, CacheInv, CacheType, Tallies

\* The cache's size and its age order are those of the windows it holds, and it never holds more
\* than its budget: for every plan, every size of its segments and every order of its requests.
THEOREM CacheIsConsistent == Spec => []CacheConsistent
  <1> DEFINE Inv == IInv /\ SlotInv /\ CacheInv /\ Tallies
  <1>1. Init => Inv BY InitIInv, InitSlotInv, InitCacheInv, InitTallies
  <1>2. Inv /\ [Next]_vars => Inv' BY NextIInv, NextSlotInv, NextCacheInv, NextTallies
  <1>3. Inv => CacheConsistent
    <2> SUFFICES ASSUME IInv, SlotInv, CacheInv, Tallies PROVE CacheConsistent OBVIOUS
    <2>1. TypeOK BY Types
    <2>2. SumFunction(Held) = SumFunctionOnSet(Held, Windows) BY DEF SumFunction, SumFunctionOnSet, Held
    <2> QED BY <2>1, <2>2 DEF CacheConsistent, CacheInv, Sums, Ages, Limit
  <1> HIDE DEF Inv
  <1> QED BY <1>1, <1>2, <1>3, PTL DEF Spec
=============================================================================
