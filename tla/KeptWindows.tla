---------------------------- MODULE KeptWindows ----------------------------
(***************************************************************************)
(* The bytes every plan of the process keeps for its next requests, under  *)
(* one budget (mp4/hlsstream.go, mp4/mp4share.go).                         *)
(*                                                                         *)
(* A Matroska plan keeps window tables: the walk that builds one reserves  *)
(* the window's span, keeps the segments it read, and hands each out once, *)
(* to a handle that gives its bytes back. A plan over a remote MP4 keeps   *)
(* the audio a whole video segment's read passed. A reserve that does not  *)
(* fit takes back what nobody collected, from the plan's own oldest        *)
(* window, then from the other plans', under their locks.                  *)
(*                                                                         *)
(* A member of Requests is one Open and the handle it returns. It builds   *)
(* at most one table, or one shared window, which goes by its name.        *)
(***************************************************************************)
EXTENDS Integers, Sequences, FiniteSetsExt, SequencesExt

CONSTANTS
    Requests, Windows, None,
    Mkv, Mp4,          \* the plans, by their source
    Asks,              \* what the requests may ask for: each a [p : plan, n : window, t : rendition]
    Video, Audio,      \* the renditions
    Size,              \* [Video \cup Audio -> Nat]: a rendition's segment; a window's shared audio is SizeOf(Audio)
    Span,              \* [Windows -> Nat]: windowSpan, the bytes a walk reserves; an estimate
    Budget,            \* windowBytesBudget
    PlanTables, Tables,\* how many tables a plan keeps, and all the plans (tableCacheBytes, tableTotalBudget)
    Leavers,           \* bound: the clients that may leave
    MaxFaults,         \* bound: walks and reads that fail
    MaxPanics          \* bound: walks that panic

Plans  == Mkv \cup Mp4
Tracks == Video \cup Audio
SizeOf(ts) == SumFunctionOnSet(Size, ts)

ASSUME AsksAssumption   == Asks \subseteq [Requests -> [p : Plans, n : Windows, t : Tracks]]
ASSUME PlansAssumption  == Mkv \cap Mp4 = {} /\ None \notin Requests /\ Video \cap Audio = {}
ASSUME FiniteAssumption == \A S \in {Requests, Windows, Mkv, Tracks} : IsFiniteSet(S)
ASSUME SizesAssumption  == Budget \in Nat /\ \A t \in Tracks : Size[t] \in Nat \ {0}
ASSUME SpanAssumption   == Span \in [Windows -> Nat \ {0}]
ASSUME RoomAssumption   == PlanTables \in Nat \ {0} /\ Tables \in Nat \ {0}
ASSUME BoundsAssumption == Leavers \subseteq Requests /\ {MaxFaults, MaxPanics} \subseteq Nat

VARIABLES
    pc, wants,           \* per request: its step, and what it asks for
    left, cancelled,     \* the clients that left, the flights nobody wants any more
    from,                \* per request: the table or shared window it waits for or takes from
    flight,              \* tabFlight
    tables, tabOrder,    \* a Matroska plan's tables, oldest first
    wins, winOrder,      \* a remote MP4 plan's shared windows, oldest first
    runs, owed, timers,  \* the shared windows whose audio is kept, what each still owes, those with a timer armed
    done, ok,            \* the flights and reads that ended, and without an error
    kept, taken,         \* per table: the segments it still keeps, those handed out
    held,                \* per table or shared window: the bytes it keeps
    resv, handle,        \* per request: what its walk has reserved, what its handle holds
    acct,                \* tabAcct.held: what a plan gives back when it is collected
    total,               \* windowBytesTotal
    keepers,             \* the plans a reclaim visits, in the order they registered, each once
    visit, freed,        \* per request: the plans its reclaim has still to visit, whether it gave anything back
    tabMu,               \* per plan: the request whose reclaim holds its lock
    collected,           \* the plans the collector took
    faults, panics

kv     == <<kept, taken, held, resv, handle, acct, total>>
tab    == <<tables, tabOrder, flight, cancelled>>
share  == <<wins, winOrder, runs, owed, timers>>
claim  == <<keepers, visit, freed, tabMu>>
ends   == <<done, ok, faults, panics>>
vars   == <<pc, wants, left, from, kv, tab, share, claim, ends, collected>>

Plan(r)  == wants[r].p
Win(r)   == wants[r].n
Track(r) == wants[r].t
Need(r)  == IF Plan(r) \in Mkv THEN Span[Win(r)] ELSE SizeOf(Audio)
Leads(r) == flight[Plan(r)][Win(r)] = r
Waiters(f) == {q \in Requests : pc[q] = "wait" /\ from[q] = f}
Returned(r) == pc[r] = "returned"
Goto(r, step) == pc' = [pc EXCEPT ![r] = step]
Fits(n) == total + n <= Budget

Init ==
    /\ pc = [r \in Requests |-> "new"]
    /\ wants \in Asks
    /\ left = {} /\ cancelled = {} /\ from = [r \in Requests |-> None]
    /\ tables = [p \in Mkv |-> [n \in Windows |-> None]] /\ flight = tables
    /\ wins = [p \in Mp4 |-> [n \in Windows |-> None]]
    /\ tabOrder = [p \in Mkv |-> <<>>] /\ winOrder = [p \in Mp4 |-> <<>>]
    /\ runs = {} /\ timers = {} /\ done = {} /\ ok = {} /\ collected = {}
    /\ owed = [r \in Requests |-> {}] /\ kept = owed /\ taken = owed
    /\ held = [r \in Requests |-> 0] /\ resv = held /\ handle = held
    /\ acct = [p \in Mkv |-> 0] /\ total = 0
    /\ keepers = <<>> /\ tabMu = [p \in Plans |-> None]
    /\ visit = [r \in Requests |-> <<>>] /\ freed = [r \in Requests |-> FALSE]
    /\ faults = 0 /\ panics = 0

-----------------------------------------------------------------------------
(* HLSPlan.table: a window's table is there, or in flight, or built.       *)

Starts(r) == pc[r] = "new" /\ Plan(r) \in Mkv /\ tabMu[Plan(r)] = None

Hit(r) ==
    /\ Starts(r) /\ tables[Plan(r)][Win(r)] # None
    /\ from' = [from EXCEPT ![r] = tables[Plan(r)][Win(r)]]
    /\ Goto(r, "take")
    /\ UNCHANGED <<wants, left, kv, tab, share, claim, ends, collected>>

Join(r) ==
    /\ Starts(r) /\ tables[Plan(r)][Win(r)] = None /\ flight[Plan(r)][Win(r)] # None
    /\ from' = [from EXCEPT ![r] = flight[Plan(r)][Win(r)]]
    /\ Goto(r, "wait")
    /\ UNCHANGED <<wants, left, kv, tab, share, claim, ends, collected>>

Lead(r) ==
    /\ Starts(r) /\ tables[Plan(r)][Win(r)] = None /\ flight[Plan(r)][Win(r)] = None
    /\ flight' = [flight EXCEPT ![Plan(r)][Win(r)] = r]
    /\ from' = [from EXCEPT ![r] = r]
    /\ Goto(r, "reserve")
    /\ UNCHANGED <<wants, left, kv, tables, tabOrder, cancelled, share, claim, ends, collected>>

\* The flight f is cancelled and forgotten: a newcomer builds the window again.
Abandon(f) ==
    /\ cancelled' = cancelled \cup {f}
    /\ flight' = IF Leads(f) THEN [flight EXCEPT ![Plan(f)][Win(f)] = None] ELSE flight

\* A client leaves: a waiter returns, a leader goes on while somebody waits.
Leave(r) ==
    LET f == from[r] IN
    /\ r \in Leavers \ left /\ Plan(r) \in Mkv /\ f \notin done \cup {None}
    /\ pc[r] = "wait" \/ f = r
    /\ left' = left \cup {r}
    /\ IF pc[r] = "wait" THEN Goto(r, "returned") ELSE UNCHANGED pc
    /\ IF f \in left' /\ Waiters(f) \subseteq {r} THEN Abandon(f) ELSE UNCHANGED <<cancelled, flight>>
    /\ UNCHANGED <<wants, from, kv, tables, tabOrder, share, claim, ends, collected>>

Await(r) ==
    /\ pc[r] = "wait" /\ Plan(r) \in Mkv /\ from[r] \in done
    /\ Goto(r, IF from[r] \in ok THEN "take" ELSE "returned")
    /\ UNCHANGED <<wants, left, from, kv, tab, share, claim, ends, collected>>

\* acquireWalk returns the flight's error.
QueueEnds(r) ==
    /\ pc[r] = "reserve" /\ r \in cancelled
    /\ Goto(r, "publish")
    /\ UNCHANGED <<wants, left, from, kv, tab, share, claim, ends, collected>>

-----------------------------------------------------------------------------
(* Reserving, and taking back what nobody collected.                       *)

Reserve(r) ==
    /\ pc[r] = "reserve"
    /\ IF Fits(Need(r))
       THEN /\ Goto(r, "walk")
            /\ resv' = [resv EXCEPT ![r] = Need(r)] /\ total' = total + Need(r)
            /\ UNCHANGED visit
       ELSE /\ Goto(r, "reclaim")
            /\ visit' = [visit EXCEPT ![r] = <<Plan(r)>>]
            /\ UNCHANGED <<resv, total>>
    /\ UNCHANGED <<wants, left, from, kept, taken, held, handle, acct, tab, share, keepers, freed, tabMu, ends, collected>>

\* Its own plan is always looked at, the others while the bytes do not fit.
Visits(r) == pc[r] = "reclaim" /\ visit[r] # <<>> /\ (Head(visit[r]) = Plan(r) \/ ~ Fits(Need(r)))

Lock(r) ==
    /\ Visits(r) /\ tabMu[Head(visit[r])] = None
    /\ tabMu' = [tabMu EXCEPT ![Head(visit[r])] = r]
    /\ Goto(r, "drop")
    /\ UNCHANGED <<wants, left, from, kv, tab, share, keepers, visit, freed, ends, collected>>

\* Where in plan p's order the oldest window stands that a reclaim may take back; 0: there is none.
Oldest(p) ==
    IF p \in Mkv
    THEN SelectInSeq(tabOrder[p], LAMBDA n : held[tables[p][n]] > 0)
    ELSE SelectInSeq(winOrder[p], LAMBDA n : wins[p][n] \in runs)

\* dropKept: what the tables ts of plan p still held.
DropKept(p, ts) ==
    LET gone == SumFunctionOnSet(held, ts) IN
    /\ kept' = [f \in Requests |-> IF f \in ts THEN {} ELSE kept[f]]
    /\ held' = [f \in Requests |-> IF f \in ts THEN 0 ELSE held[f]]
    /\ acct' = [acct EXCEPT ![p] = @ - gone]
    /\ total' = total - gone

\* mp4Share.drop; the window leaves the order at the next expire, with no effect before it.
DropWin(p, n) ==
    LET w == wins[p][n] IN
    /\ wins' = [wins EXCEPT ![p][n] = None]
    /\ winOrder' = [winOrder EXCEPT ![p] = RemoveFirst(@, n)]
    /\ total' = total - held[w]
    /\ held' = [held EXCEPT ![w] = 0]
    /\ runs' = runs \ {w}

Drop(r) ==
    LET p == Head(visit[r]) i == Oldest(p) IN
    /\ pc[r] = "drop" /\ ~ Fits(Need(r)) /\ i # 0
    /\ freed' = [freed EXCEPT ![r] = TRUE]
    /\ IF p \in Mkv
       THEN DropKept(p, {tables[p][tabOrder[p][i]]}) /\ UNCHANGED share
       ELSE DropWin(p, winOrder[p][i]) /\ UNCHANGED <<kept, acct, owed, timers>>
    /\ UNCHANGED <<pc, wants, left, from, taken, resv, handle, tab, keepers, visit, tabMu, ends, collected>>

\* Mutant: the others are visited with the plan's own lock held.
UnlockLast(r) ==
    LET p == Head(visit[r]) IN
    /\ pc[r] = "drop" /\ (Fits(Need(r)) \/ Oldest(p) = 0)
    /\ visit' = [visit EXCEPT ![r] = IF p = Plan(r) THEN RemoveFirst(keepers, p) ELSE Tail(@)]
    /\ tabMu' = IF visit'[r] = <<>> THEN [q \in Plans |-> IF tabMu[q] = r THEN None ELSE tabMu[q]] ELSE tabMu
    /\ Goto(r, "reclaim")
    /\ UNCHANGED <<wants, left, from, kv, tab, share, keepers, freed, ends, collected>>
\* Done with a plan; its own comes first, then those registered by then.
Unlock(r) ==
    LET p == Head(visit[r]) IN
    /\ pc[r] = "drop" /\ (Fits(Need(r)) \/ Oldest(p) = 0)
    /\ tabMu' = [tabMu EXCEPT ![p] = None]
    /\ visit' = [visit EXCEPT ![r] = IF p = Plan(r) THEN RemoveFirst(keepers, p) ELSE Tail(@)]
    /\ Goto(r, "reclaim")
    /\ UNCHANGED <<wants, left, from, kv, tab, share, keepers, freed, ends, collected>>

\* Mutant: what fitted when the reclaim ended is taken without looking.
ReserveFreed(r) ==
    /\ pc[r] = "reclaim" /\ ~ Visits(r)
    /\ visit' = [visit EXCEPT ![r] = <<>>] /\ freed' = [freed EXCEPT ![r] = FALSE]
    /\ IF freed[r]
       THEN resv' = [resv EXCEPT ![r] = Need(r)] /\ total' = total + Need(r)
       ELSE UNCHANGED <<resv, total>>
    /\ Goto(r, "walk")
    /\ UNCHANGED <<wants, left, from, kept, taken, held, handle, acct, tab, share, keepers, tabMu, ends, collected>>
\* The second reserve, when the reclaim gave anything back; without the bytes
\* the walk keeps nothing.
ReserveAgain(r) ==
    /\ pc[r] = "reclaim" /\ ~ Visits(r)
    /\ visit' = [visit EXCEPT ![r] = <<>>] /\ freed' = [freed EXCEPT ![r] = FALSE]
    /\ IF freed[r] /\ Fits(Need(r))
       THEN resv' = [resv EXCEPT ![r] = Need(r)] /\ total' = total + Need(r)
       ELSE UNCHANGED <<resv, total>>
    /\ Goto(r, "walk")
    /\ UNCHANGED <<wants, left, from, kept, taken, held, handle, acct, tab, share, keepers, tabMu, ends, collected>>

-----------------------------------------------------------------------------
(* buildTable after the reserve, and the table's life.                     *)

WalkFails(r) ==
    /\ pc[r] = "walk" /\ Plan(r) \in Mkv
    /\ IF r \in cancelled THEN UNCHANGED faults ELSE faults < MaxFaults /\ faults' = faults + 1
    /\ resv' = [resv EXCEPT ![r] = 0] /\ total' = total - resv[r]
    /\ Goto(r, "publish")
    /\ UNCHANGED <<wants, left, from, kept, taken, held, handle, acct, tab, share, claim, done, ok, panics, collected>>

\* buildPanicked turns the panic into the flight's error; no error path of
\* buildTable ran, and the reserve goes out of sight.
WalkPanics(r) ==
    /\ pc[r] = "walk" /\ Plan(r) \in Mkv /\ panics < MaxPanics
    /\ panics' = panics + 1
    /\ resv' = [resv EXCEPT ![r] = 0]
    /\ Goto(r, "publish")
    /\ UNCHANGED <<wants, left, from, kept, taken, held, handle, acct, total, tab, share, claim, done, ok, faults, collected>>

\* The estimate gives way to what is held.
WalkEnds(r) ==
    LET ts == IF resv[r] > 0 THEN Tracks ELSE {} IN
    /\ pc[r] = "walk" /\ Plan(r) \in Mkv
    /\ ok' = ok \cup {r}
    /\ kept' = [kept EXCEPT ![r] = ts] /\ held' = [held EXCEPT ![r] = SizeOf(ts)]
    /\ resv' = [resv EXCEPT ![r] = 0] /\ total' = total - resv[r] + SizeOf(ts)
    /\ Goto(r, "publish")
    /\ UNCHANGED <<wants, left, from, taken, handle, acct, tab, share, claim, done, faults, panics, collected>>

TablesKept == SumFunction([p \in Mkv |-> Len(tabOrder[p])])

\* How many of its tables, oldest first, plan p lets go with count of them kept.
Evict(p, count) ==
    Max({0, count - PlanTables, Min({count, TablesKept + 1 - Tables})})

\* storeTable, when an abandoned flight's window was built again meanwhile.
StoreDuplicate(r) ==
    /\ tables[Plan(r)][Win(r)] # None
    /\ kept' = [kept EXCEPT ![r] = {}] /\ held' = [held EXCEPT ![r] = 0]
    /\ total' = total - held[r]
    /\ UNCHANGED <<acct, tables, tabOrder, keepers>>

\* storeTable, otherwise: stored last, the oldest out while over a budget.
Store(r) ==
    LET p == Plan(r)
        order == Append(tabOrder[p], Win(r))
        k == Evict(p, Len(order))
        out == {order[i] : i \in 1 .. k}
        ts == {IF n = Win(r) THEN r ELSE tables[p][n] : n \in out}
        gone == SumFunctionOnSet(held, ts)
    IN
    /\ tables[p][Win(r)] = None
    /\ tabOrder' = [tabOrder EXCEPT ![p] = SubSeq(order, k + 1, Len(order))]
    /\ tables' = [tables EXCEPT ![p] = [n \in Windows |-> IF n \in out THEN None ELSE IF n = Win(r) THEN r ELSE @[n]]]
    /\ kept' = [f \in Requests |-> IF f \in ts THEN {} ELSE kept[f]]
    /\ held' = [f \in Requests |-> IF f \in ts THEN 0 ELSE held[f]]
    /\ acct' = [acct EXCEPT ![p] = @ + held[r] - gone]
    /\ total' = total - gone
    /\ keepers' = IF held[r] = 0 \/ p \in ToSet(keepers) THEN keepers ELSE Append(keepers, p)

\* The flight ends: its place is given up if it is still its own, its table
\* stored, its waiters woken.
Publish(r) ==
    /\ pc[r] = "publish" /\ tabMu[Plan(r)] = None
    /\ flight' = IF Leads(r) THEN [flight EXCEPT ![Plan(r)][Win(r)] = None] ELSE flight
    /\ done' = done \cup {r}
    /\ IF r \in ok
       THEN /\ StoreDuplicate(r) \/ Store(r)
            /\ Goto(r, "take")
       ELSE /\ UNCHANGED <<kept, held, acct, total, tables, tabOrder, keepers>>
            /\ Goto(r, "returned")
    /\ UNCHANGED <<wants, left, from, taken, resv, handle, cancelled, share, visit, freed, tabMu, ok, faults, panics, collected>>

\* A viewer takes every kept video, and one audio.
KeptConsumed(ks, tk) ==
    LET langs == (ks \cup tk) \cap Audio IN
    ks \cap Video = {} /\ (langs = {} \/ tk \cap Audio # {})

\* Mutant: a table that was dropped still counts in the account.
TakeAccounted(r) ==
    LET f == from[r] p == Plan(r) n == Size[Track(r)]
        ks == kept[f] \ {Track(r)} rest == IF KeptConsumed(ks, taken[f] \cup {Track(r)}) THEN held[f] - n ELSE 0
    IN
    /\ pc[r] = "take" /\ tabMu[p] = None /\ Track(r) \in kept[f]
    /\ taken' = [taken EXCEPT ![f] = @ \cup {Track(r)}]
    /\ kept' = [kept EXCEPT ![f] = IF rest > 0 THEN {} ELSE ks]
    /\ held' = [held EXCEPT ![f] = @ - n - rest]
    /\ acct' = [acct EXCEPT ![p] = @ - rest]
    /\ total' = total - rest
    /\ handle' = [handle EXCEPT ![r] = n]
    /\ Goto(r, "writing")
    /\ UNCHANGED <<wants, left, from, resv, tab, share, claim, ends, collected>>
\* takeKept: the handle holds the segment's share from here on.
Take(r) ==
    LET f == from[r] p == Plan(r) n == Size[Track(r)]
        ks == kept[f] \ {Track(r)} rest == IF KeptConsumed(ks, taken[f] \cup {Track(r)}) THEN held[f] - n ELSE 0
    IN
    /\ pc[r] = "take" /\ tabMu[p] = None /\ Track(r) \in kept[f]
    /\ taken' = [taken EXCEPT ![f] = @ \cup {Track(r)}]
    /\ kept' = [kept EXCEPT ![f] = IF rest > 0 THEN {} ELSE ks]
    /\ held' = [held EXCEPT ![f] = @ - n - rest]
    /\ acct' = [acct EXCEPT ![p] = @ - rest - IF tables[p][Win(r)] = f THEN n ELSE 0]
    /\ total' = total - rest
    /\ handle' = [handle EXCEPT ![r] = n]
    /\ Goto(r, "writing")
    /\ UNCHANGED <<wants, left, from, resv, tab, share, claim, ends, collected>>

\* Nothing kept of it: its bytes are copied from the source.
Copy(r) ==
    /\ pc[r] = "take" /\ tabMu[Plan(r)] = None /\ Track(r) \notin kept[from[r]]
    /\ Goto(r, "returned")
    /\ UNCHANGED <<wants, left, from, kv, tab, share, claim, ends, collected>>

\* heldBytes.release swaps the share out: whoever comes second gives nothing back.
Release(r) == total' = total - handle[r] /\ handle' = [handle EXCEPT ![r] = 0]

\* The last byte is written; then the handle is closed. A handle whose write
\* failed is closed, or collected, without it.
Written(r) ==
    /\ pc[r] = "writing"
    /\ Release(r)
    /\ Goto(r, "written")
    /\ UNCHANGED <<wants, left, from, kept, taken, held, resv, acct, tab, share, claim, ends, collected>>
Close(r) ==
    /\ pc[r] \in {"writing", "written"}
    /\ Release(r)
    /\ Goto(r, "returned")
    /\ UNCHANGED <<wants, left, from, kept, taken, held, resv, acct, tab, share, claim, ends, collected>>

\* The collector takes a plan nobody uses, and its account gives back what the
\* tables kept. A shared window's timer, and a reclaim, still use theirs.
Collect(p) ==
    /\ p \in Mkv \ collected /\ tabOrder[p] # <<>>
    /\ \A r \in Requests : (Plan(r) = p => Returned(r)) /\ p \notin ToSet(visit[r])
    /\ collected' = collected \cup {p}
    /\ total' = total - acct[p] /\ acct' = [acct EXCEPT ![p] = 0]
    /\ held' = [r \in Requests |-> IF r \in {tables[p][n] : n \in Windows} THEN 0 ELSE held[r]]
    /\ tables' = [tables EXCEPT ![p] = [n \in Windows |-> None]]
    /\ tabOrder' = [tabOrder EXCEPT ![p] = <<>>]
    /\ keepers' = RemoveFirst(keepers, p)
    /\ UNCHANGED <<pc, wants, left, from, kept, taken, resv, handle, flight, cancelled, share, visit, freed, tabMu, ends>>

-----------------------------------------------------------------------------
(* copyShared: the whole video segment of a remote MP4's window.           *)

Begin(r) ==
    LET p == Plan(r) IN
    /\ pc[r] = "new" /\ p \in Mp4 /\ Track(r) \in Video /\ wins[p][Win(r)] = None
    /\ wins' = [wins EXCEPT ![p][Win(r)] = r]
    /\ winOrder' = [winOrder EXCEPT ![p] = Append(@, Win(r))]
    /\ owed' = [owed EXCEPT ![r] = Audio]
    /\ keepers' = IF p \in ToSet(keepers) THEN keepers ELSE Append(keepers, p)
    /\ pc' = [q \in Requests |-> IF q = r THEN "reserve"
                                 ELSE IF pc[q] = "grace" /\ Plan(q) = p THEN "new"  \* started is closed
                                 ELSE pc[q]]
    /\ UNCHANGED <<wants, left, from, kv, tab, runs, timers, visit, freed, tabMu, ends, collected>>

\* Another request reads the window, or its audio is kept: this one reads alone.
Busy(r) ==
    /\ pc[r] = "new" /\ Plan(r) \in Mp4 /\ Track(r) \in Video /\ wins[Plan(r)][Win(r)] # None
    /\ Goto(r, "returned")
    /\ UNCHANGED <<wants, left, from, kv, tab, share, claim, ends, collected>>

\* mp4Share.end, nothing kept.
EndForgotten(r) ==
    LET p == Plan(r) n == Win(r) IN
    /\ done' = done \cup {r} /\ Goto(r, "returned")
    /\ total' = total - resv[r] /\ resv' = [resv EXCEPT ![r] = 0]
    /\ wins' = [wins EXCEPT ![p][n] = None]
    /\ winOrder' = [winOrder EXCEPT ![p] = RemoveFirst(@, n)]

\* The bytes did not fit: nothing is shared.
Unshared(r) ==
    /\ pc[r] = "walk" /\ Plan(r) \in Mp4 /\ resv[r] = 0
    /\ EndForgotten(r)
    /\ UNCHANGED <<wants, left, from, kept, taken, held, handle, acct, tab, runs, owed, timers, claim, ok, faults, panics, collected>>

\* The read fails, panics, or ends short of an audio run.
ReadFails(r) ==
    /\ pc[r] = "walk" /\ Plan(r) \in Mp4 /\ resv[r] > 0
    /\ faults < MaxFaults /\ faults' = faults + 1
    /\ EndForgotten(r)
    /\ UNCHANGED <<wants, left, from, kept, taken, held, handle, acct, tab, runs, owed, timers, claim, ok, panics, collected>>

\* mp4Share.end: the audio is kept, for shareTTL at most.
ReadEnds(r) ==
    /\ pc[r] = "walk" /\ Plan(r) \in Mp4 /\ resv[r] > 0
    /\ done' = done \cup {r} /\ runs' = runs \cup {r} /\ timers' = timers \cup {r}
    /\ held' = [held EXCEPT ![r] = resv[r]] /\ resv' = [resv EXCEPT ![r] = 0]
    /\ Goto(r, "returned")
    /\ UNCHANGED <<wants, left, from, kept, taken, handle, acct, total, tab, wins, winOrder, owed, claim, ok, faults, panics, collected>>

\* Mutant: the window in that place is dropped, whichever it is.
TTLAny(r) ==
    LET p == Plan(r) n == Win(r) IN
    /\ r \in timers /\ timers' = timers \ {r}
    /\ IF wins[p][n] # None THEN DropWin(p, n) ELSE UNCHANGED <<wins, winOrder, runs, held, total>>
    /\ UNCHANGED <<pc, wants, left, from, kept, taken, resv, handle, acct, tab, owed, claim, ends, collected>>
\* shareTTL has passed, for the timer or for expire. A timer stopped too late
\* still runs: it drops its own window only.
TTL(r) ==
    LET p == Plan(r) n == Win(r) IN
    /\ r \in timers /\ timers' = timers \ {r}
    /\ IF wins[p][n] = r THEN DropWin(p, n) ELSE UNCHANGED <<wins, winOrder, runs, held, total>>
    /\ UNCHANGED <<pc, wants, left, from, kept, taken, resv, handle, acct, tab, owed, claim, ends, collected>>

-----------------------------------------------------------------------------
(* copyFromShare: an audio segment of the window.                          *)

LookUp(r) ==
    LET w == wins[Plan(r)][Win(r)] IN
    /\ pc[r] = "new" /\ Plan(r) \in Mp4 /\ Track(r) \in Audio
    /\ IF w = None
       THEN Goto(r, "grace") /\ UNCHANGED from
       ELSE Goto(r, "wait") /\ from' = [from EXCEPT ![r] = w]
    /\ UNCHANGED <<wants, left, kv, tab, share, claim, ends, collected>>

\* No read began within shareGrace.
GraceOver(r) ==
    /\ pc[r] = "grace"
    /\ Goto(r, "returned")
    /\ UNCHANGED <<wants, left, from, kv, tab, share, claim, ends, collected>>

\* shareWait has passed, or its client left: it reads alone.
HeldUp(r) ==
    /\ pc[r] = "wait" /\ Plan(r) \in Mp4 /\ from[r] \notin done
    /\ Goto(r, "returned")
    /\ UNCHANGED <<wants, left, from, kv, tab, share, claim, ends, collected>>

\* The read ended: its audio is kept, or was not, or is gone again.
ReadSeen(r) ==
    /\ pc[r] = "wait" /\ Plan(r) \in Mp4 /\ from[r] \in done
    /\ Goto(r, IF from[r] \in runs THEN "copy" ELSE "returned")
    /\ UNCHANGED <<wants, left, from, kv, tab, share, claim, ends, collected>>

\* The segment is written, and marked served in the window kept in that place
\* by now, which goes once every rendition was.
Served(r) ==
    LET p == Plan(r) n == Win(r) w == wins[p][n] IN
    /\ pc[r] = "copy"
    /\ Goto(r, "returned")
    /\ IF w \in runs
       THEN /\ owed' = [owed EXCEPT ![w] = @ \ {Track(r)}]
            /\ IF owed'[w] = {} THEN DropWin(p, n) ELSE UNCHANGED <<wins, winOrder, runs, held, total>>
       ELSE UNCHANGED <<owed, wins, winOrder, runs, held, total>>
    /\ UNCHANGED <<wants, left, from, kept, taken, resv, handle, acct, tab, timers, claim, ends, collected>>

\* A sample is not among what was kept, or a write fails: nothing is marked.
CutShort(r) ==
    /\ pc[r] = "copy"
    /\ Goto(r, "returned")
    /\ UNCHANGED <<wants, left, from, kv, tab, share, claim, ends, collected>>

-----------------------------------------------------------------------------
Walk(r) == WalkFails(r) \/ WalkEnds(r)
Read(r) == ReadFails(r) \/ ReadEnds(r)

Serve(r) ==
    \/ Hit(r) \/ Join(r) \/ Lead(r) \/ Await(r) \/ QueueEnds(r)
    \/ Reserve(r) \/ Lock(r) \/ Drop(r) \/ Unlock(r) \/ ReserveAgain(r)
    \/ Publish(r) \/ Take(r) \/ Copy(r) \/ Written(r) \/ Close(r)
    \/ Begin(r) \/ Busy(r) \/ Unshared(r)
    \/ LookUp(r) \/ GraceOver(r) \/ HeldUp(r) \/ ReadSeen(r)
    \/ Served(r) \/ CutShort(r)

Next ==
    \/ \E r \in Requests : Serve(r) \/ Walk(r) \/ Read(r) \/ WalkPanics(r) \/ Leave(r) \/ TTL(r)
    \/ \E p \in Plans : Collect(p)

Spec == Init /\ [][Next]_vars

\* While a goroutine can go on, one of them does, and walks end. The read of a
\* video segment writes to its client as it goes, and may never end.
FairSpec == Spec /\ WF_vars(\E r \in Requests : Serve(r) \/ Walk(r))

-----------------------------------------------------------------------------
TypeOK ==
    /\ pc \in [Requests -> {"new", "wait", "grace", "reserve", "reclaim", "drop", "walk", "publish",
                            "take", "copy", "writing", "written", "returned"}]
    /\ from \in [Requests -> Requests \cup {None}]
    /\ flight \in [Mkv -> [Windows -> Requests \cup {None}]] /\ tables \in [Mkv -> [Windows -> Requests \cup {None}]]
    /\ wins \in [Mp4 -> [Windows -> Requests \cup {None}]]
    /\ tabOrder \in [Mkv -> Seq(Windows)] /\ winOrder \in [Mp4 -> Seq(Windows)]
    /\ {left, cancelled, runs, timers, done, ok} \subseteq SUBSET Requests
    /\ \A f \in {owed, kept, taken} : f \in [Requests -> SUBSET Tracks]
    /\ \A f \in {held, resv, handle} : f \in [Requests -> Nat]
    /\ acct \in [Mkv -> Nat] /\ total \in Nat

\* What reserves, tables, shared windows and handles hold.
Holding == SumFunction([r \in Requests |-> resv[r] + held[r] + handle[r]])

\* Unless a walk panicked, each byte reserved is given back exactly once: by a
\* walk that failed, a table dropped, taken from or never stored, a handle, a
\* shared window, or the collector. What a plan gives back when it is collected
\* is what its tables hold by then, whatever was taken from them or dropped.
Conserved ==
    /\ panics = 0 => total = Holding
    /\ \A p \in Mkv : acct[p] = SumFunction([n \in Windows |-> IF tables[p][n] = None THEN 0 ELSE held[tables[p][n]]])

\* The process keeps no more bytes than SetWindowBytes allows, whoever reserves
\* while another reclaims, but for what the estimates fell short by: where a
\* window weighs twice its span, twice the budget. It keeps no more tables than
\* SetTableCacheBytes allows, whichever plan filled it; each plan's age order
\* is that of its tables.
WithinBudget ==
    /\ TypeOK
    /\ \A n \in Windows : (\A m \in Windows : Span[n] <= Span[m]) => total * Span[n] <= Budget * Max({Span[n], SizeOf(Tracks)})
    /\ TablesKept <= Tables
    /\ \A p \in Mkv : ToSet(tabOrder[p]) = {n \in Windows : tables[p][n] # None} /\ IsInjective(tabOrder[p])

\* A shared window in its place is being read by its request, or its audio is
\* kept: none is left busy for ever, and what is kept is in its place.
NoDeadWindow ==
    /\ \A p \in Mp4 : \A n \in Windows : wins[p][n] # None => wins[p][n] \notin done \/ wins[p][n] \in runs
    /\ \A w \in runs : wins[Plan(w)][Win(w)] = w

\* Every request returns, an audio segment whose video read is held up by its
\* own client included; reclaims that visit each other's plans do not block.
Answered == <>(\A r \in Requests : (Plan(r) \in Mp4 /\ Track(r) \in Video) \/ Returned(r))

=============================================================================
