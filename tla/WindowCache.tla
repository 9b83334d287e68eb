---------------------------- MODULE WindowCache ----------------------------
(***************************************************************************)
(* Serving the segments of an on-demand plan over a Matroska source        *)
(* (HLSPlan.buildSegmentTrack): one walk of the source frames every        *)
(* rendition of a window, requests racing for the window share that walk   *)
(* (mp4/hlsflight.go), the renditions nobody took yet wait in a cache      *)
(* bounded by a byte budget (mp4/hlswindow.go), and the process bounds the *)
(* walks it runs at once (mp4/walkslots.go).                               *)
(*                                                                         *)
(* A member of Requests is one call. It leads at most one flight and       *)
(* builds at most one shared bundle, so the flight and the bundle go by    *)
(* the request's name.                                                     *)
(***************************************************************************)
EXTENDS Integers, Sequences, FiniteSetsExt, SequencesExt

CONSTANTS
    Requests, Windows, None,
    Video, Audio,  \* the plan's renditions; Audio: all that is not video
    Bytes,         \* [Windows -> [Video \cup Audio -> Nat]]: a rendition's segment
    WinBudgets,    \* Options.WindowCacheBytes may be: 0 derives it from the source, negative turns the cache off
    MinBudget,     \* minWindowCacheBytes
    Caps,          \* the caps SetMaxConcurrentWalks is given in turn; 0 lifts the cap
    MaxLeaves,     \* bound: clients that leave
    MaxFaults      \* bound: reads of the source that fail

Tracks == Video \cup Audio

ASSUME RequestsAssumption == IsFiniteSet(Requests)
ASSUME NoneAssumption   == None \notin Requests
ASSUME TracksAssumption == Video \cap Audio = {} /\ Tracks # {} /\ IsFiniteSet(Tracks)
ASSUME WindowsAssumption == IsFiniteSet(Windows)
ASSUME BytesAssumption  == \A n \in Windows : \A t \in Tracks : Bytes[n][t] \in Nat \ {0}
ASSUME LimitsAssumption == WinBudgets \subseteq Int /\ MinBudget \in Nat /\ Caps \in Seq(Nat) \ {<<>>}
ASSUME BoundsAssumption == MaxLeaves \in Nat /\ MaxFaults \in Nat

VARIABLES
    pc, wants, left,      \* per request: its step, its window and rendition, its client has gone
    bundle,               \* the bundle or flight it waits on or takes from
    flight,               \* winFlight: the window's build in flight, by its leader
    waiters, gone, cancelled, done, failed,  \* the fields of a flight, and its error
    segs,                 \* the renditions a bundle still holds
    windows, winOrder, winBytes, winPeak,    \* the cache
    winBudget,            \* the plan's option
    built, served, dropped,                  \* HLSPlanStats, in bytes
    cap, slots, chan,     \* the current channel of walk slots, what each holds, the one each request read
    faults

local  == <<wants, left, winBudget>>
fl     == <<waiters, gone, cancelled, done, failed>>
cache  == <<segs, windows, winOrder, winBytes, winPeak>>
stats  == <<built, served, dropped>>
walks  == <<cap, slots, chan>>
vars   == <<pc, local, bundle, flight, fl, cache, stats, walks, faults>>

Steps == {"new", "window", "wait", "queue", "walk", "publish", "finish", "take",
          "queueAlone", "walkAlone", "countAlone", "served", "failed"}
Returned(r) == pc[r] \in {"served", "failed"}
Win(r)   == wants[r].n
Track(r) == wants[r].t

Init ==
    /\ pc = [r \in Requests |-> "new"]
    /\ wants \in [Requests -> [n : Windows, t : Tracks]]
    /\ left = [r \in Requests |-> FALSE]
    /\ bundle = [r \in Requests |-> None]
    /\ flight = [n \in Windows |-> None]
    /\ waiters = [r \in Requests |-> 0]
    /\ gone = left /\ cancelled = left /\ done = left /\ failed = left
    /\ segs = [r \in Requests |-> {}]
    /\ winBudget \in WinBudgets
    /\ windows = [n \in Windows |-> None] /\ winOrder = <<>> /\ winBytes = 0 /\ winPeak = 0
    /\ built = 0 /\ served = 0 /\ dropped = 0
    /\ cap = 1 /\ slots = [c \in DOMAIN Caps |-> 0] /\ chan = [r \in Requests |-> 1]
    /\ faults = 0

Goto(r, step) == pc' = [pc EXCEPT ![r] = step]

\* acquireWalk reads the channel of slots first, and stays with it.
Queue(r, step) ==
    /\ Goto(r, step)
    /\ chan' = [chan EXCEPT ![r] = cap]
    /\ UNCHANGED <<cap, slots>>

-----------------------------------------------------------------------------
(* A request, up to the bundle of its window.                              *)

\* The client closes its connection.
Leave(r) ==
    /\ ~ Returned(r) /\ ~ left[r]
    /\ Cardinality({q \in Requests : left[q]}) < MaxLeaves
    /\ left' = [left EXCEPT ![r] = TRUE]
    /\ UNCHANGED <<pc, wants, winBudget, bundle, flight, fl, cache, stats, walks, faults>>

Start(r) ==
    /\ pc[r] = "new" /\ ~ left[r]
    /\ Goto(r, "window")
    /\ UNCHANGED <<local, bundle, flight, fl, cache, stats, walks, faults>>

\* Its context has ended already, or the source has changed.
Refuse(r) ==
    /\ pc[r] = "new"
    /\ \/ left[r] /\ UNCHANGED faults
       \/ faults < MaxFaults /\ faults' = faults + 1
    /\ Goto(r, "failed")
    /\ UNCHANGED <<local, bundle, flight, fl, cache, stats, walks>>

Hit(r) ==
    /\ pc[r] = "window" /\ windows[Win(r)] # None
    /\ bundle' = [bundle EXCEPT ![r] = windows[Win(r)]]
    /\ Goto(r, "take")
    /\ UNCHANGED <<local, flight, fl, cache, stats, walks, faults>>

Join(r) ==
    LET f == flight[Win(r)] IN
    /\ pc[r] = "window" /\ windows[Win(r)] = None /\ f # None
    /\ bundle' = [bundle EXCEPT ![r] = f]
    /\ waiters' = [waiters EXCEPT ![f] = @ + 1]
    /\ Goto(r, "wait")
    /\ UNCHANGED <<local, flight, gone, cancelled, done, failed, cache, stats, walks, faults>>

Lead(r) ==
    /\ pc[r] = "window" /\ windows[Win(r)] = None /\ flight[Win(r)] = None
    /\ flight' = [flight EXCEPT ![Win(r)] = r]
    /\ bundle' = [bundle EXCEPT ![r] = r]
    /\ Queue(r, "queue")
    /\ UNCHANGED <<local, fl, cache, stats, faults>>

-----------------------------------------------------------------------------
(* The flight.                                                             *)

\* Mutant: the newcomer's flight goes with it.
EvictedAny(f) == [flight EXCEPT ![Win(f)] = None]
\* Mutant: a cancelled flight stays where newcomers find it.
EvictedNever(f) == flight
\* The map without f, when f is still its window's flight.
Evicted(f) == [flight EXCEPT ![Win(f)] = IF @ = f THEN None ELSE @]

\* Mutant: the leader's departure alone cancels.
SettleOnLeader(f, g, w) ==
    IF g
    THEN cancelled' = [cancelled EXCEPT ![f] = TRUE] /\ flight' = Evicted(f)
    ELSE UNCHANGED <<cancelled, flight>>
\* Cancels the build once nobody wants it; g and w are the flight's new state.
Settle(f, g, w) ==
    IF g /\ w = 0
    THEN cancelled' = [cancelled EXCEPT ![f] = TRUE] /\ flight' = Evicted(f)
    ELSE UNCHANGED <<cancelled, flight>>

\* newFlight's goroutine: the leader's context ended first.
LeaderGone(r) ==
    /\ bundle[r] = r /\ left[r] /\ ~ gone[r] /\ ~ done[r]
    /\ gone' = [gone EXCEPT ![r] = TRUE]
    /\ Settle(r, TRUE, waiters[r])
    /\ UNCHANGED <<pc, local, bundle, waiters, done, failed, cache, stats, walks, faults>>

\* A waiter's select on the flight's end, and on its own client's.
Awaited(r) ==
    /\ pc[r] = "wait" /\ done[bundle[r]]
    /\ Goto(r, IF failed[bundle[r]] THEN "failed" ELSE "take")
    /\ UNCHANGED <<local, bundle, flight, fl, cache, stats, walks, faults>>

\* Mutant: the waiter leaves without a word.
GiveUpSilently(r) ==
    /\ pc[r] = "wait" /\ left[r] /\ Goto(r, "failed")
    /\ UNCHANGED <<local, bundle, flight, fl, cache, stats, walks, faults>>
GiveUp(r) ==
    LET f == bundle[r] IN
    /\ pc[r] = "wait" /\ left[r]
    /\ waiters' = [waiters EXCEPT ![f] = @ - 1]
    /\ Settle(f, gone[f], waiters[f] - 1)
    /\ Goto(r, "failed")
    /\ UNCHANGED <<local, bundle, gone, done, failed, cache, stats, walks, faults>>

-----------------------------------------------------------------------------
(* buildWindow: for a flight, under its context, and for a request alone.  *)

Ended(r) == IF pc[r] \in {"queue", "walk"} THEN cancelled[r] ELSE left[r]

\* SetMaxConcurrentWalks: a new channel, whatever the old one holds.
SetCap ==
    /\ cap < Len(Caps) /\ cap' = cap + 1
    /\ UNCHANGED <<pc, local, bundle, flight, fl, cache, stats, slots, chan, faults>>

AcquireWalk(r) ==
    /\ pc[r] \in {"queue", "queueAlone"}
    /\ Caps[chan[r]] > 0 => slots[chan[r]] < Caps[chan[r]]
    /\ slots' = [slots EXCEPT ![chan[r]] = @ + 1]
    /\ Goto(r, IF pc[r] = "queue" THEN "walk" ELSE "walkAlone")
    /\ UNCHANGED <<local, bundle, flight, fl, cache, stats, cap, chan, faults>>

\* Mutant: the slot goes back to the channel of the moment.
ReleaseCurrent(r) == slots' = [slots EXCEPT ![cap] = @ - 1] /\ UNCHANGED <<cap, chan>>
\* release: the slot goes back to the channel it came from.
Release(r) == slots' = [slots EXCEPT ![chan[r]] = @ - 1] /\ UNCHANGED <<cap, chan>>

\* The build returns an error: to the flight, or to the request alone.
Fail(r) ==
    IF pc[r] \in {"queue", "walk"}
    THEN failed' = [failed EXCEPT ![r] = TRUE] /\ Goto(r, "publish")
    ELSE Goto(r, "failed") /\ UNCHANGED failed

StopQueueing(r) ==
    /\ pc[r] \in {"queue", "queueAlone"} /\ Ended(r)
    /\ Fail(r)
    /\ UNCHANGED <<local, bundle, flight, waiters, gone, cancelled, done, cache, stats, walks, faults>>

\* The walk fails, or sees its context end; a panic of the build is an error too.
WalkFails(r) ==
    /\ pc[r] \in {"walk", "walkAlone"}
    /\ \/ Ended(r) /\ UNCHANGED faults
       \/ faults < MaxFaults /\ faults' = faults + 1
    /\ Release(r)
    /\ Fail(r)
    /\ UNCHANGED <<local, bundle, flight, waiters, gone, cancelled, done, cache, stats>>

WalkEnds(r) ==
    /\ pc[r] \in {"walk", "walkAlone"}
    /\ Release(r)
    /\ Goto(r, IF pc[r] = "walk" THEN "publish" ELSE "countAlone")
    /\ UNCHANGED <<local, bundle, flight, fl, cache, stats, faults>>

-----------------------------------------------------------------------------
(* The cache, under winMu.                                                 *)

SizeOf(n, ts) == SumFunctionOnSet(Bytes[n], ts)
Held == [n \in Windows |-> IF windows[n] = None THEN 0 ELSE SizeOf(n, segs[windows[n]])]

\* budget(), once a window of peak bytes has been seen.
Budget(peak) ==
    IF winBudget # 0 THEN winBudget
    ELSE IF 2 * peak > MinBudget THEN 2 * peak ELSE MinBudget

\* store: publishes r's bundle of window n, then drops the oldest over the budget.
Store(r, n) ==
    LET size  == SizeOf(n, Tracks)
        peak  == IF size > winPeak THEN size ELSE winPeak
        order == Append(winOrder, n)
        bytes == [Held EXCEPT ![n] = size]
        oldest(i) == SumFunctionOnSet(bytes, ToSet(SubSeq(order, 1, i)))
        out   == CHOOSE i \in 0 .. Len(order) :
                    /\ winBytes + size - oldest(i) <= Budget(peak)
                    /\ \A j \in 0 .. i - 1 : winBytes + size - oldest(j) > Budget(peak)
        drop  == ToSet(SubSeq(order, 1, out))
    IN  IF winBudget < 0 \/ windows[n] # None
        THEN dropped' = dropped + size /\ UNCHANGED <<windows, winOrder, winBytes, winPeak>>
        ELSE /\ windows' = [m \in Windows |-> IF m \in drop THEN None
                                              ELSE IF m = n THEN r ELSE windows[m]]
             /\ winOrder' = SubSeq(order, out + 1, Len(order))
             /\ winBytes' = winBytes + size - oldest(out)
             /\ winPeak' = peak
             /\ dropped' = dropped + oldest(out)

Publish(r) ==
    /\ pc[r] = "publish"
    /\ flight' = Evicted(r)
    /\ IF failed[r]
       THEN UNCHANGED <<cache, stats>>
       ELSE /\ built' = built + SizeOf(Win(r), Tracks)
            /\ segs' = [segs EXCEPT ![r] = Tracks]
            /\ Store(r, Win(r))
            /\ UNCHANGED served
    /\ Goto(r, "finish")
    /\ UNCHANGED <<local, bundle, fl, walks, faults>>

\* Mutant: a failed build is returned and its flight never finished.
FinishOnlyBuilt(r) ==
    /\ pc[r] = "finish"
    /\ done' = [done EXCEPT ![r] = ~ failed[r]]
    /\ cancelled' = [cancelled EXCEPT ![r] = TRUE]
    /\ Goto(r, IF failed[r] THEN "failed" ELSE "take")
    /\ UNCHANGED <<local, bundle, flight, waiters, gone, failed, cache, stats, walks, faults>>
\* The waiters are released, and the leader goes on.
Finish(r) ==
    /\ pc[r] = "finish"
    /\ done' = [done EXCEPT ![r] = TRUE]
    /\ cancelled' = [cancelled EXCEPT ![r] = TRUE]
    /\ Goto(r, IF failed[r] THEN "failed" ELSE "take")
    /\ UNCHANGED <<local, bundle, flight, waiters, gone, failed, cache, stats, walks, faults>>

\* A viewer's fill: the video, and one of the rest.
Consumed(rest) ==
    /\ Video \cap rest = {}
    /\ Audio # {} => Audio \ rest # {}

\* Mutant: the bundle's place in the cache is not looked at.
TakeAsCached(r) ==
    LET b == bundle[r] size == Bytes[Win(r)][Track(r)] IN
    /\ pc[r] = "take" /\ Track(r) \in segs[b]
    /\ segs' = [segs EXCEPT ![b] = @ \ {Track(r)}]
    /\ served' = served + size /\ winBytes' = winBytes - size
    /\ Goto(r, "served")
    /\ UNCHANGED <<local, bundle, flight, fl, windows, winOrder, winPeak, built, dropped, walks, faults>>
\* Mutant: a rendition taken from a bundle dropped meanwhile stays counted as dropped.
TakeStillDropped(r) ==
    LET b == bundle[r] n == Win(r) size == Bytes[n][Track(r)] rest == segs[b] \ {Track(r)} IN
    /\ pc[r] = "take" /\ Track(r) \in segs[b]
    /\ segs' = [segs EXCEPT ![b] = rest]
    /\ served' = served + size
    /\ IF windows[n] # b
       THEN UNCHANGED <<windows, winOrder, winBytes, dropped>>
       ELSE IF rest = {} \/ Consumed(rest)
            THEN /\ windows' = [windows EXCEPT ![n] = None]
                 /\ winOrder' = RemoveFirst(winOrder, n)
                 /\ winBytes' = winBytes - size - SizeOf(n, rest)
                 /\ dropped' = dropped + SizeOf(n, rest)
            ELSE winBytes' = winBytes - size /\ UNCHANGED <<windows, winOrder, dropped>>
    /\ Goto(r, "served")
    /\ UNCHANGED <<local, bundle, flight, fl, winPeak, built, walks, faults>>
\* takeRendition, when the bundle still has it.
Take(r) ==
    LET b    == bundle[r]
        n    == Win(r)
        size == Bytes[n][Track(r)]
        rest == segs[b] \ {Track(r)}
    IN
    /\ pc[r] = "take" /\ Track(r) \in segs[b]
    /\ segs' = [segs EXCEPT ![b] = rest]
    /\ served' = served + size
    /\ IF windows[n] # b
       THEN dropped' = dropped - size /\ UNCHANGED <<windows, winOrder, winBytes>>
       ELSE IF rest = {} \/ Consumed(rest)
            THEN /\ windows' = [windows EXCEPT ![n] = None]
                 /\ winOrder' = RemoveFirst(winOrder, n)
                 /\ winBytes' = winBytes - size - SizeOf(n, rest)
                 /\ dropped' = dropped + SizeOf(n, rest)
            ELSE winBytes' = winBytes - size /\ UNCHANGED <<windows, winOrder, dropped>>
    /\ Goto(r, "served")
    /\ UNCHANGED <<local, bundle, flight, fl, winPeak, built, walks, faults>>

\* Another request took it: this one walks the window again, alone.
Retake(r) ==
    /\ pc[r] = "take" /\ Track(r) \notin segs[bundle[r]]
    /\ Queue(r, "queueAlone")
    /\ UNCHANGED <<local, bundle, flight, fl, cache, stats, faults>>

CountAlone(r) ==
    LET size == Bytes[Win(r)][Track(r)] IN
    /\ pc[r] = "countAlone"
    /\ built' = built + SizeOf(Win(r), Tracks)
    /\ served' = served + size
    /\ dropped' = dropped + SizeOf(Win(r), Tracks) - size
    /\ Goto(r, "served")
    /\ UNCHANGED <<local, bundle, flight, fl, cache, walks, faults>>

-----------------------------------------------------------------------------
Serve(r) ==
    \/ Start(r) \/ Refuse(r) \/ Hit(r) \/ Join(r) \/ Lead(r)
    \/ LeaderGone(r) \/ Awaited(r) \/ GiveUp(r)
    \/ AcquireWalk(r) \/ StopQueueing(r)
    \/ Publish(r) \/ Finish(r) \/ Take(r) \/ Retake(r) \/ CountAlone(r)

AllReturned == \A r \in Requests : Returned(r)

Next ==
    \/ \E r \in Requests : Leave(r) \/ Serve(r) \/ WalkFails(r) \/ WalkEnds(r)
    \/ SetCap
    \/ AllReturned /\ UNCHANGED vars

Spec == Init /\ [][Next]_vars

\* Goroutines run, and a free slot goes to one who waits. The source may never
\* answer: a walk is sure to end only once its context has.
FairSpec == Spec /\ \A r \in Requests : WF_vars(Serve(r)) /\ WF_vars(Ended(r) /\ WalkFails(r))

-----------------------------------------------------------------------------
TypeOK ==
    /\ pc \in [Requests -> Steps] /\ wants \in [Requests -> [n : Windows, t : Tracks]]
    /\ bundle \in [Requests -> Requests \cup {None}]
    /\ flight \in [Windows -> Requests \cup {None}]
    /\ \A s \in {left, gone, cancelled, done, failed} : s \in [Requests -> BOOLEAN]
    /\ waiters \in [Requests -> 0 .. Cardinality(Requests)]
    /\ segs \in [Requests -> SUBSET Tracks]
    /\ windows \in [Windows -> Requests \cup {None}] /\ winOrder \in Seq(Windows)
    /\ winBudget \in WinBudgets /\ {winBytes, winPeak, built, served, dropped} \subseteq Nat
    /\ cap \in DOMAIN Caps /\ slots \in [DOMAIN Caps -> Nat] /\ chan \in [Requests -> DOMAIN Caps]
    /\ faults \in 0 .. MaxFaults

\* Every byte the walks framed was served, was dropped, or is held by the
\* cache: a bundle that left the cache before its rendition was taken, a
\* second bundle of a window and a walk made for one request included.
BytesAccounted == built = served + dropped + winBytes

\* The cache's size and its age order are those of the windows it holds: of the
\* bundles there are by now, not of those taken from or dropped since. It never
\* holds more than its budget, the window just stored included.
CacheConsistent ==
    /\ TypeOK
    /\ winBytes = SumFunction(Held)
    /\ ToSet(winOrder) = {n \in Windows : windows[n] # None}
    /\ IsInjective(winOrder)
    /\ winBytes <= (IF winBudget < 0 THEN 0 ELSE Budget(winPeak))

Walking == {r \in Requests : pc[r] \in {"walk", "walkAlone"}}

\* A change of the cap loses and invents no slot: each channel holds one for
\* each walk that took it there, and never more than its cap.
SlotsMatchWalks ==
    \A c \in DOMAIN Caps :
        /\ slots[c] = Cardinality({r \in Walking : chan[r] = c})
        /\ Caps[c] > 0 => slots[c] <= Caps[c]

\* A build is cancelled for nobody who still waits on it, and no newcomer
\* finds a cancelled one.
NotAbandoned ==
    /\ \A r \in Requests : pc[r] = "wait" /\ ~ done[bundle[r]] => ~ cancelled[bundle[r]]
    /\ \A n \in Windows : flight[n] # None => ~ cancelled[flight[n]]

\* A window is being built for its viewers by one walk: a second one starts
\* only when the first was abandoned.
OneBuild ==
    \A q, r \in Requests :
        /\ {pc[q], pc[r]} \subseteq {"queue", "walk"} /\ Win(q) = Win(r)
        /\ ~ cancelled[q] /\ ~ cancelled[r]
        => q = r

\* "No request depends on another having happened": a request whose client
\* stays fails only when the source does.
FailsForItself == faults = 0 => \A r \in Requests : pc[r] = "failed" => left[r]

SourceAnswers == \A r \in Requests : WF_vars(WalkEnds(r) \/ WalkFails(r))

\* While the source answers, every request is answered, whoever leaves or fails.
EveryRequestReturns == SourceAnswers => \A r \in Requests : <> Returned(r)

\* When the source hangs, the requests return once every client has left: no
\* walk, slot or flight outlives those who wanted it.
AbandonedEnd == (\A r \in Requests : left[r] \/ Returned(r)) ~> AllReturned

=============================================================================
