------------------------- MODULE KeptWindowsProofs -------------------------
(***************************************************************************)
(* The windows' budget, for any requests, plans, renditions and budgets:   *)
(* what is kept passes it by no more than the estimates fall short, each   *)
(* byte reserved comes back once, no shared window is left busy with       *)
(* nobody reading it.                                                      *)
(*                                                                         *)
(* None of the three is inductive. What a plan gives back is right only    *)
(* while a table stands in one place, whose window it was built for, and   *)
(* while only a flight about to store one holds bytes outside the tables;  *)
(* a window that is kept stays found only while its request's read is over *)
(* and its place still its own. KInv says so, with what each step of a     *)
(* request may have reserved, hold and take from.                          *)
(***************************************************************************)
EXTENDS KeptWindows, SumsAndOrders, FiniteSetTheorems, TLAPS


KSteps == {"new", "wait", "grace", "reserve", "reclaim", "drop", "walk", "publish",
           "take", "copy", "writing", "written", "returned"}
\* The steps of a request that builds a table or reads a shared window, and of a built table's.
Building == {"reserve", "reclaim", "drop", "walk"}
Built    == {"take", "writing", "written", "returned"}

KType ==
    /\ pc \in [Requests -> KSteps] /\ wants \in [Requests -> [p : Plans, n : Windows, t : Tracks]]
    /\ from \in [Requests -> Requests \cup {None}]
    /\ flight \in [Mkv -> [Windows -> Requests \cup {None}]] /\ tables \in [Mkv -> [Windows -> Requests \cup {None}]]
    /\ wins \in [Mp4 -> [Windows -> Requests \cup {None}]]
    /\ tabOrder \in [Mkv -> Seq(Windows)] /\ winOrder \in [Mp4 -> Seq(Windows)]
    /\ left \in SUBSET Requests /\ cancelled \in SUBSET Requests /\ runs \in SUBSET Requests
    /\ timers \in SUBSET Requests /\ done \in SUBSET Requests /\ ok \in SUBSET Requests
    /\ owed \in [Requests -> SUBSET Tracks] /\ kept \in [Requests -> SUBSET Tracks]
    /\ taken \in [Requests -> SUBSET Tracks]
    /\ held \in [Requests -> Nat] /\ resv \in [Requests -> Nat] /\ handle \in [Requests -> Nat]
    /\ acct \in [Mkv -> Int] /\ total \in Int /\ panics \in Nat
    /\ keepers \in Seq(Plans) /\ visit \in [Requests -> Seq(Plans)]

\* A request: what kind of plan its step belongs to, the table it takes from, what it has reserved and holds.
Side(r)     == /\ pc[r] \in {"publish", "take", "writing", "written"} => Plan(r) \in Mkv
               /\ pc[r] \in {"grace", "copy"} => Plan(r) \in Mp4
Visiting(r) == pc[r] = "drop" => visit[r] # <<>>
Ended(r)    == r \in done => pc[r] \in Built
Gone(r)     == Plan(r) \in collected => pc[r] = "returned"
Source(r)   == Plan(r) \in Mkv =>
    /\ pc[r] \in Building \cup {"publish"} => from[r] = r
    /\ pc[r] \in {"wait", "take"} =>
         from[r] \in Requests /\ Plan(from[r]) = Plan(r) /\ Win(from[r]) = Win(r)
    /\ pc[r] = "take" => pc[from[r]] \in Built
Wanted(r)   == r \in cancelled => Plan(r) \in Mkv
Reserved(r) == resv[r] # 0 => pc[r] = "walk" /\ resv[r] = Need(r)
Handled(r)  == handle[r] # 0 => pc[r] = "writing"
Requested ==
    \A r \in Requests : /\ Side(r) /\ Visiting(r) /\ Ended(r) /\ Gone(r) /\ Source(r)
                        /\ Wanted(r) /\ Reserved(r) /\ Handled(r)

\* A table: where it stands, and what it keeps.
Flown(p, n)  == LET f == flight[p][n] IN f # None => Plan(f) = p /\ Win(f) = n
Tabled(p, n) == LET f == tables[p][n] IN f # None => Plan(f) = p /\ Win(f) = n /\ pc[f] \in Built
Placed(r)    == Plan(r) \in Mkv /\ held[r] # 0 => (pc[r] = "publish" /\ r \in ok) \/ tables[Plan(r)][Win(r)] = r
Weighed(r)   == Plan(r) \in Mkv \ collected => held[r] = SizeOf(kept[r])
Tabs ==
    /\ \A p \in Mkv : \A n \in Windows : Flown(p, n) /\ Tabled(p, n)
    /\ \A r \in Requests : Placed(r) /\ Weighed(r)
TabAges ==
    \A p \in Mkv : ToSet(tabOrder[p]) = {n \in Windows : tables[p][n] # None} /\ IsInjective(tabOrder[p])

\* A shared window: it stands in its place while it is read, and while its audio is kept.
Shared(p, n) == LET w == wins[p][n] IN w # None => Plan(w) = p /\ Win(w) = n /\ (w \in runs \/ pc[w] \in Building)
Reading(r)   == Plan(r) \in Mp4 /\ pc[r] \in Building => wins[Plan(r)][Win(r)] = r
Running(w)   == w \in runs => Plan(w) \in Mp4 /\ wins[Plan(w)][Win(w)] = w /\ w \in done
Timed(r)     == r \in timers => Plan(r) \in Mp4 /\ r \in done
Lent(r)      == Plan(r) \in Mp4 /\ held[r] # 0 => r \in runs
Shares ==
    /\ \A p \in Mp4 : \A n \in Windows : Shared(p, n)
    /\ \A r \in Requests : Reading(r) /\ Running(r) /\ Timed(r) /\ Lent(r)

\* The sums.
TableBytes(p) == [n \in Windows |-> IF tables[p][n] = None THEN 0 ELSE held[tables[p][n]]]
Owned == SumFunctionOnSet(resv, Requests) + SumFunctionOnSet(held, Requests) + SumFunctionOnSet(handle, Requests)
\* What is kept weighs more than was reserved for it by Heaviest - Span at most; Bounded counts that in before
\* the walk ends, so that a reserve that fits is a reserve that holds.
Shortest(n) == \A m \in Windows : Span[n] <= Span[m]
Heaviest(n) == Max({Span[n], SizeOf(Tracks)})
Bounded  == \A n \in Windows : Shortest(n) =>
                total * Span[n] + SumFunctionOnSet(resv, Requests) * (Heaviest(n) - Span[n]) <= Budget * Heaviest(n)
Totals   == Owned <= total /\ (panics = 0 => total = Owned) /\ Bounded
Accounts == \A p \in Mkv : acct[p] = SumFunctionOnSet(TableBytes(p), Windows)
Rooms    == SumFunctionOnSet([p \in Mkv |-> Len(tabOrder[p])], Mkv) <= Tables

KInv == KType /\ Requested /\ Tabs /\ TabAges /\ Shares /\ Totals /\ Accounts /\ Rooms

-----------------------------------------------------------------------------
LEMMA Finite == IsFiniteSet(Requests) /\ IsFiniteSet(Windows) /\ IsFiniteSet(Mkv) /\ IsFiniteSet(Tracks)
  BY FiniteAssumption

\* A segment's size, as the set of them goes.
LEMMA Sizes ==
    ASSUME NEW ts \in SUBSET Tracks
    PROVE  /\ SizeOf(ts) \in Nat /\ SizeOf({}) = 0 /\ SizeOf(ts) <= SizeOf(Tracks)
           /\ \A t \in ts : /\ SizeOf(ts) = Size[t] + SizeOf(ts \ {t})
                            /\ Size[t] \in Nat \ {0} /\ SizeOf(ts \ {t}) \in Nat
  <1>1. \A t \in Tracks : Size[t] \in Nat /\ Size[t] \in Int /\ Size[t] # 0 BY SizesAssumption
  <1>2. ASSUME NEW us \in SUBSET Tracks PROVE IsFiniteSet(us) /\ SumFunctionOnSet(Size, us) \in Nat
    BY <1>1, Finite, FS_Subset, SumNat
  <1>3. SumFunctionOnSet(Size, ts) <= SumFunctionOnSet(Size, Tracks)
    BY <1>1, Finite, SumSubset
  <1>4. ASSUME NEW t \in ts PROVE SumFunctionOnSet(Size, ts) = Size[t] + SumFunctionOnSet(Size, ts \ {t})
    BY <1>1, <1>2, SumRemove
  <1>5. SumFunctionOnSet(Size, {}) = 0 BY SumEmpty
  <1> QED BY <1>1, <1>2, <1>3, <1>4, <1>5 DEF SizeOf

LEMMA Needs == ASSUME KType, NEW r \in Requests PROVE Need(r) \in Nat
  <1>1. SizeOf(Audio) \in Nat BY Sizes DEF Tracks
  <1>2. Win(r) \in Windows BY DEF KType, Win
  <1> QED BY <1>1, <1>2, SpanAssumption DEF Need

\* The heavier of a window's estimate and of what it may weigh.
LEMMA Weights ==
    ASSUME NEW n \in Windows
    PROVE  /\ Span[n] \in Nat \ {0} /\ Heaviest(n) \in Nat
           /\ Span[n] <= Heaviest(n) /\ SizeOf(Tracks) <= Heaviest(n)
  <1>1. Span[n] \in Nat \ {0} /\ SizeOf(Tracks) \in Nat BY Sizes, SpanAssumption
  <1>2. PICK a, b \in Nat : a = Span[n] /\ b = SizeOf(Tracks) BY <1>1
  <1>3. \E x \in {a, b} : \A y \in {a, b} : x >= y BY <1>2
  <1>4. PICK m : m = Max({a, b}) OBVIOUS
  <1>5. m \in {a, b} /\ \A y \in {a, b} : m >= y BY <1>3, <1>4 DEF Max
  <1>6. Heaviest(n) = m BY <1>2, <1>4 DEF Heaviest
  <1> QED BY <1>1, <1>2, <1>5, <1>6

\* One request's share of a sum changes.
LEMMA OneChanged ==
    ASSUME NEW f \in [Requests -> Nat], NEW r \in Requests, NEW v \in Nat
    PROVE  /\ SumFunctionOnSet([f EXCEPT ![r] = v], Requests) = SumFunctionOnSet(f, Requests) - f[r] + v
           /\ SumFunctionOnSet(f, Requests) \in Nat
  <1> DEFINE g == [f EXCEPT ![r] = v]
  <1>1. \A q \in Requests : f[q] \in Int /\ g[q] \in Int OBVIOUS
  <1>2. \A q \in Requests \ {r} : f[q] = g[q] OBVIOUS
  <1>3. g[r] = v OBVIOUS
  <1>4. SumFunctionOnSet(f, Requests) \in Nat
    <2>1. \A q \in Requests : f[q] \in Nat OBVIOUS
    <2> QED BY <2>1, Finite, SumNat
  <1> HIDE DEF g
  <1>5. SumFunctionOnSet(g, Requests) = SumFunctionOnSet(f, Requests) - f[r] + g[r]
    BY <1>1, <1>2, Finite, SumChange
  <1> QED BY <1>3, <1>4, <1>5 DEF g

LEMMA SumTypes ==
    ASSUME KType
    PROVE  /\ SumFunctionOnSet(resv, Requests) \in Nat /\ SumFunctionOnSet(held, Requests) \in Nat
           /\ SumFunctionOnSet(handle, Requests) \in Nat
  <1>1. \A r \in Requests : resv[r] \in Nat BY DEF KType
  <1>2. \A r \in Requests : held[r] \in Nat BY DEF KType
  <1>3. \A r \in Requests : handle[r] \in Nat BY DEF KType
  <1>4. SumFunctionOnSet(resv, Requests) \in Nat BY <1>1, Finite, SumNat
  <1>5. SumFunctionOnSet(held, Requests) \in Nat BY <1>2, Finite, SumNat
  <1>6. SumFunctionOnSet(handle, Requests) \in Nat BY <1>3, Finite, SumNat
  <1> QED BY <1>4, <1>5, <1>6

\* A step that touches no byte and no table keeps the sums and the tables' order.
LEMMA SumsSame ==
    ASSUME KInv, UNCHANGED <<resv, held, handle, acct, total, tables, tabOrder, panics>>
    PROVE  Totals' /\ Accounts' /\ Rooms' /\ TabAges'
  <1>1. Owned' = Owned BY DEF Owned
  <1>2. \A p \in Mkv : TableBytes(p)' = TableBytes(p) BY DEF TableBytes
  <1> QED BY <1>1, <1>2 DEF KInv, Totals, Bounded, Accounts, Rooms, TabAges

\* A step of a request that moves no byte and ends nothing.
LEMMA QuietKeeps ==
    ASSUME KInv, NEW r \in Requests, NEW s \in KSteps, Goto(r, s),
           pc[r] \notin {"walk", "publish", "writing", "returned"},
           UNCHANGED <<wants, kv, tables, tabOrder, share, done, ok, panics, collected>>,
           from' \in [Requests -> Requests \cup {None}], \A q \in Requests \ {r} : from'[q] = from[q],
           flight' \in [Mkv -> [Windows -> Requests \cup {None}]],
           \A p \in Mkv : \A n \in Windows : Flown(p, n)',
           left' \in SUBSET Requests, cancelled' \in SUBSET Requests, \A q \in Requests : Wanted(q)',
           keepers' \in Seq(Plans), visit' \in [Requests -> Seq(Plans)],
           \A q \in Requests \ {r} : visit'[q] = visit[q],
           Side(r)', Visiting(r)', Source(r)', pc[r] \in Built => s \in Built,
           Plan(r) \in Mp4 => (pc[r] \in Building <=> s \in Building)
    PROVE  KInv'
  <1> USE DEF KInv
  <1>1. pc' \in [Requests -> KSteps] /\ pc'[r] = s /\ \A q \in Requests \ {r} : pc'[q] = pc[q]
    BY DEF Goto, KType
  <1>2. KType' BY <1>1 DEF KType, kv, share
  <1>3. \A q \in Requests : Plan(q)' = Plan(q) /\ Win(q)' = Win(q) BY DEF Plan, Win
  <1>4. \A q \in Requests : pc[q] \in Built => pc'[q] \in Built BY <1>1
  <1>5. Requested'
    <2>1. ASSUME NEW q \in Requests \ {r} PROVE (Side(q) /\ Visiting(q) /\ Ended(q) /\ Gone(q) /\ Handled(q))'
      BY <1>1, <1>3 DEF Requested, Side, Visiting, Ended, Gone, Handled, kv
    <2>2. ASSUME NEW q \in Requests \ {r} PROVE Source(q)'
      <3>1. pc'[q] = pc[q] /\ from'[q] = from[q] /\ Plan(q)' = Plan(q) /\ Win(q)' = Win(q) BY <1>1, <1>3
      <3>2. Source(q) BY DEF Requested
      <3>3. \A f \in Requests : Plan(f)' = Plan(f) /\ Win(f)' = Win(f) /\ (pc[f] \in Built => pc'[f] \in Built)
        BY <1>3, <1>4
      <3>4. CASE pc[q] \in {"wait", "take"} BY <3>1, <3>2, <3>3, <3>4 DEF Source
      <3>5. CASE pc[q] \notin {"wait", "take"} BY <3>1, <3>2, <3>5 DEF Source
      <3> QED BY <3>4, <3>5
    <2>3. ASSUME NEW q \in Requests \ {r} PROVE Reserved(q)'
      BY <1>1, <1>3 DEF Requested, Reserved, Need, kv
    <2>4. (Ended(r) /\ Gone(r) /\ Handled(r) /\ Reserved(r))'
      BY <1>1, <1>3 DEF Requested, Ended, Gone, Handled, Reserved, kv
    <2> QED BY <2>1, <2>2, <2>3, <2>4 DEF Requested
  <1>6. Tabs'
    <2>1. \A p \in Mkv : \A n \in Windows : Tabled(p, n)'
      BY <1>3, <1>4 DEF Tabs, Tabled, KType
    <2>2. \A q \in Requests : (Placed(q) /\ Weighed(q))'
      BY <1>1, <1>3 DEF Tabs, Placed, Weighed, kv
    <2> QED BY <2>1, <2>2 DEF Tabs
  <1>7. Shares'
    <2>1. \A p \in Mp4 : \A n \in Windows : Shared(p, n)'
      <3> SUFFICES ASSUME NEW p \in Mp4, NEW n \in Windows, wins'[p][n] # None PROVE Shared(p, n)'
        BY DEF Shared
      <3>1. PICK w \in Requests : w = wins[p][n] /\ wins'[p][n] = w BY DEF share, KType
      <3>2. Plan(w) = p /\ Win(w) = n /\ (w \in runs \/ pc[w] \in Building)
        BY <3>1 DEF Shares, Shared, share
      <3>3. w \in runs' \/ pc'[w] \in Building BY <1>1, <3>2 DEF share
      <3>4. Plan(w)' = p /\ Win(w)' = n BY <1>3, <3>2
      <3> QED BY <3>1, <3>3, <3>4 DEF Shared
    <2>2. \A q \in Requests : (Reading(q) /\ Running(q) /\ Timed(q) /\ Lent(q))'
      BY <1>1, <1>3 DEF Shares, Reading, Running, Timed, Lent, share, kv
    <2> QED BY <2>1, <2>2 DEF Shares
  <1>8. Totals' /\ Accounts' /\ Rooms' /\ TabAges' BY SumsSame DEF kv
  <1> QED BY <1>2, <1>5, <1>6, <1>7, <1>8

-----------------------------------------------------------------------------
(* The steps that move no byte.                                            *)

LEMMA Asked == ASSUME KType, NEW r \in Requests PROVE Plan(r) \in Mkv \cup Mp4 /\ Win(r) \in Windows /\ Track(r) \in Tracks
  BY DEF KType, Plan, Win, Track, Plans

LEMMA SameAsked ==
    ASSUME UNCHANGED wants
    PROVE  \A r \in Requests : Plan(r)' = Plan(r) /\ Win(r)' = Win(r) /\ Track(r)' = Track(r) /\ Need(r)' = Need(r)
  BY DEF Plan, Win, Track, Need

\* What a quiet step leaves of the flights, the clients and the reclaims, when it touches none of them.
LEMMA TypesSame ==
    ASSUME KInv, UNCHANGED wants
    PROVE  /\ from \in [Requests -> Requests \cup {None}]
           /\ UNCHANGED flight => /\ flight' \in [Mkv -> [Windows -> Requests \cup {None}]]
                                  /\ \A p \in Mkv : \A n \in Windows : Flown(p, n)'
           /\ UNCHANGED <<left, cancelled>> =>
                left' \in SUBSET Requests /\ cancelled' \in SUBSET Requests /\ \A q \in Requests : Wanted(q)'
           /\ UNCHANGED <<keepers, visit>> => keepers' \in Seq(Plans) /\ visit' \in [Requests -> Seq(Plans)]
  <1>1. UNCHANGED flight => \A p \in Mkv : \A n \in Windows : Flown(p, n)'
    BY DEF KInv, Tabs, Flown, Plan, Win
  <1>2. UNCHANGED cancelled => \A q \in Requests : Wanted(q)'
    BY DEF KInv, Requested, Wanted, Plan
  <1> QED BY <1>1, <1>2 DEF KInv, KType

LEMMA HitKeeps == ASSUME KInv, NEW r \in Requests, Hit(r) PROVE KInv'
  <1> USE DEF KInv, Hit, Starts, tab, claim, ends
  <1>1. Plan(r) \in Mkv /\ Win(r) \in Windows BY Asked
  <1>2. PICK f \in Requests : f = tables[Plan(r)][Win(r)] /\ Plan(f) = Plan(r) /\ Win(f) = Win(r) /\ pc[f] \in Built
    BY <1>1 DEF Tabs, Tabled, KType
  <1>3. /\ pc[r] = "new" /\ Goto(r, "take") /\ from' = [from EXCEPT ![r] = f]
        /\ UNCHANGED <<wants, left, kv, tab, share, claim, ends, collected>>
    BY <1>2
  <1>4. Side(r)' /\ Visiting(r)' BY <1>1, <1>3 DEF Goto, KType, Side, Visiting, Plan
  <1>5. Source(r)'
    <2>1. pc'[r] = "take" /\ from'[r] = f BY <1>3 DEF Goto, KType
    <2>2. pc'[f] \in Built BY <1>2, <1>3 DEF Goto, KType, Built
    <2>3. Plan(f)' = Plan(r)' /\ Win(f)' = Win(r)' BY <1>2, <1>3 DEF Plan, Win
    <2> QED BY <2>1, <2>2, <2>3 DEF Source, Building
  <1>6. /\ from' \in [Requests -> Requests \cup {None}] /\ \A q \in Requests \ {r} : from'[q] = from[q]
        /\ \A q \in Requests \ {r} : visit'[q] = visit[q]
    BY <1>3 DEF KType
  <1>7. Plan(r) \notin Mp4 /\ "take" \in KSteps /\ pc[r] \notin {"walk", "publish", "writing", "returned"} \cup Built
    BY <1>1, <1>3, PlansAssumption DEF KSteps, Built
  <1> QED BY <1>3, <1>4, <1>5, <1>6, <1>7, TypesSame, QuietKeeps

\* A request that takes the place of a flight, or waits on one.
LEMMA JoinKeeps == ASSUME KInv, NEW r \in Requests, Join(r) PROVE KInv'
  <1> USE DEF KInv, Join, Starts, tab, claim, ends
  <1>1. Plan(r) \in Mkv /\ Win(r) \in Windows BY Asked
  <1>2. PICK f \in Requests : f = flight[Plan(r)][Win(r)] /\ Plan(f) = Plan(r) /\ Win(f) = Win(r)
    BY <1>1 DEF Tabs, Flown, KType
  <1>3. /\ pc[r] = "new" /\ Goto(r, "wait") /\ from' = [from EXCEPT ![r] = f]
        /\ UNCHANGED <<wants, left, kv, tab, share, claim, ends, collected>>
    BY <1>2
  <1>4. Side(r)' /\ Visiting(r)' BY <1>1, <1>3 DEF Goto, KType, Side, Visiting, Plan
  <1>5. Source(r)'
    <2>1. pc'[r] = "wait" /\ from'[r] = f BY <1>3 DEF Goto, KType
    <2>3. Plan(f)' = Plan(r)' /\ Win(f)' = Win(r)' BY <1>2, <1>3 DEF Plan, Win
    <2> QED BY <2>1, <2>3 DEF Source, Building
  <1>6. /\ from' \in [Requests -> Requests \cup {None}] /\ \A q \in Requests \ {r} : from'[q] = from[q]
        /\ \A q \in Requests \ {r} : visit'[q] = visit[q]
    BY <1>3 DEF KType
  <1>7. Plan(r) \notin Mp4 /\ "wait" \in KSteps /\ pc[r] \notin {"walk", "publish", "writing", "returned"} \cup Built
    BY <1>1, <1>3, PlansAssumption DEF KSteps, Built
  <1> QED BY <1>3, <1>4, <1>5, <1>6, <1>7, TypesSame, QuietKeeps

LEMMA LeadKeeps == ASSUME KInv, NEW r \in Requests, Lead(r) PROVE KInv'
  <1> USE DEF KInv, Lead, Starts, claim, ends
  <1>1. Plan(r) \in Mkv /\ Win(r) \in Windows BY Asked
  <1>3. /\ pc[r] = "new" /\ Goto(r, "reserve") /\ from' = [from EXCEPT ![r] = r]
        /\ flight' = [flight EXCEPT ![Plan(r)][Win(r)] = r]
        /\ UNCHANGED <<wants, left, kv, tables, tabOrder, cancelled, share, claim, ends, collected>>
    OBVIOUS
  <1>4. Side(r)' /\ Visiting(r)' /\ Source(r)'
    BY <1>1, <1>3 DEF Goto, KType, Side, Visiting, Plan, Source, Building
  <1>5. /\ flight' \in [Mkv -> [Windows -> Requests \cup {None}]]
        /\ \A p \in Mkv : \A n \in Windows : Flown(p, n)'
    <2>1. flight' \in [Mkv -> [Windows -> Requests \cup {None}]] BY <1>1, <1>3 DEF KType
    <2>2. \A p \in Mkv : \A n \in Windows :
            flight'[p][n] = IF p = Plan(r) /\ n = Win(r) THEN r ELSE flight[p][n]
      BY <1>1, <1>3 DEF KType
    <2>3. \A q \in Requests : Plan(q)' = Plan(q) /\ Win(q)' = Win(q) BY <1>3, SameAsked
    <2>4. \A p \in Mkv : \A n \in Windows : flight[p][n] \in Requests \cup {None} /\ Flown(p, n)
      BY DEF KType, Tabs
    <2> HIDE DEF KInv
    <2>5. \A p \in Mkv : \A n \in Windows : Flown(p, n)' BY <2>2, <2>3, <2>4 DEF Flown
    <2> QED BY <2>1, <2>5
  <1>6. /\ from' \in [Requests -> Requests \cup {None}] /\ \A q \in Requests \ {r} : from'[q] = from[q]
        /\ \A q \in Requests \ {r} : visit'[q] = visit[q]
    BY <1>3 DEF KType
  <1>7. Plan(r) \notin Mp4 /\ "reserve" \in KSteps /\ pc[r] \notin {"walk", "publish", "writing", "returned"} \cup Built
    BY <1>1, <1>3, PlansAssumption DEF KSteps, Built
  <1> QED BY <1>3, <1>4, <1>5, <1>6, <1>7, TypesSame, QuietKeeps

LEMMA AbandonKeeps ==
    ASSUME KInv, NEW f \in Requests, Plan(f) \in Mkv, Abandon(f), UNCHANGED wants
    PROVE  /\ cancelled' \in SUBSET Requests /\ \A q \in Requests : Wanted(q)'
           /\ flight' \in [Mkv -> [Windows -> Requests \cup {None}]]
           /\ \A p \in Mkv : \A n \in Windows : Flown(p, n)'
  <1> USE DEF KInv, Abandon
  <1>1. Win(f) \in Windows BY Asked
  <1>2. cancelled' \in SUBSET Requests /\ \A q \in Requests : Wanted(q)'
    BY DEF KType, Requested, Wanted, Plan
  <1>3. flight' \in [Mkv -> [Windows -> Requests \cup {None}]] BY <1>1 DEF KType
  <1>4. \A p \in Mkv : \A n \in Windows : flight'[p][n] \in {flight[p][n], None} BY <1>1 DEF KType
  <1>5. \A p \in Mkv : \A n \in Windows : Flown(p, n)' BY <1>4 DEF Tabs, Flown, Plan, Win
  <1> QED BY <1>2, <1>3, <1>5

LEMMA LeaveKeeps == ASSUME KInv, NEW r \in Requests, Leave(r) PROVE KInv'
  <1> USE DEF KInv, ends, claim
  <1>1. PICK f \in Requests : f = from[r] /\ f \notin done BY DEF Leave, KType
  <1>2. /\ Plan(r) \in Mkv /\ (pc[r] = "wait" \/ f = r) /\ left' = left \cup {r}
        /\ IF pc[r] = "wait" THEN Goto(r, "returned") ELSE UNCHANGED pc
        /\ Abandon(f) \/ UNCHANGED <<cancelled, flight>>
        /\ UNCHANGED <<wants, from, kv, tables, tabOrder, share, claim, ends, collected>>
    BY <1>1 DEF Leave
  <1>3. Plan(f) \in Mkv BY <1>1, <1>2 DEF Requested, Source
  <1>4. /\ left' \in SUBSET Requests /\ cancelled' \in SUBSET Requests /\ \A q \in Requests : Wanted(q)'
        /\ flight' \in [Mkv -> [Windows -> Requests \cup {None}]]
        /\ \A p \in Mkv : \A n \in Windows : Flown(p, n)'
    <2>1. CASE Abandon(f) BY <1>2, <1>3, <2>1, AbandonKeeps DEF KType
    <2>2. CASE UNCHANGED <<cancelled, flight>>
      <3>1. \A q \in Requests : Wanted(q)' BY <1>2, <2>2 DEF Requested, Wanted, Plan
      <3>2. \A p \in Mkv : \A n \in Windows : Flown(p, n)' BY <1>2, <2>2 DEF Tabs, Flown, Plan, Win
      <3> QED BY <1>2, <2>2, <3>1, <3>2 DEF KType
    <2> QED BY <1>2, <2>1, <2>2
  <1>5. CASE pc[r] = "wait"
    <2>1. Side(r)' /\ Visiting(r)' /\ Source(r)'
      BY <1>2, <1>5 DEF Goto, KType, Side, Visiting, Source, Building
    <2>2. /\ from' \in [Requests -> Requests \cup {None}] /\ keepers' \in Seq(Plans) /\ visit' \in [Requests -> Seq(Plans)]
      BY <1>2 DEF KType
    <2>3. Plan(r) \notin Mp4 /\ "returned" \in KSteps /\ pc[r] \notin {"walk", "publish", "writing", "returned"} \cup Built
      BY <1>2, <1>5, PlansAssumption DEF KSteps, Built
    <2>4. Goto(r, "returned") BY <1>2, <1>5
    <2> QED BY <1>2, <1>4, <2>1, <2>2, <2>3, <2>4, QuietKeeps
  <1>6. CASE pc[r] # "wait"
    <2>1. UNCHANGED <<pc, wants, from, kv, tables, tabOrder, share, claim, ends, collected>> BY <1>2, <1>6
    <2>2. KType' BY <1>2, <1>4, <2>1 DEF KType, kv, share
    <2>3. \A q \in Requests : Plan(q)' = Plan(q) /\ Win(q)' = Win(q) /\ Need(q)' = Need(q)
      BY <2>1 DEF Plan, Win, Need
    <2>4. Requested'
      <3>1. \A q \in Requests : (Side(q) /\ Visiting(q) /\ Ended(q) /\ Gone(q) /\ Reserved(q) /\ Handled(q))'
        BY <2>1, <2>3 DEF Requested, Side, Visiting, Ended, Gone, Reserved, Handled, kv
      <3>2. \A q \in Requests : Source(q)' BY <2>1, <2>3 DEF Requested, Source
      <3> QED BY <1>4, <3>1, <3>2 DEF Requested
    <2>5. Tabs'
      <3>1. \A p \in Mkv : \A n \in Windows : Tabled(p, n)' BY <2>1, <2>3 DEF Tabs, Tabled, KType
      <3>2. \A q \in Requests : (Placed(q) /\ Weighed(q))' BY <2>1, <2>3 DEF Tabs, Placed, Weighed, kv
      <3> QED BY <1>4, <3>1, <3>2 DEF Tabs
    <2>6. Shares'
      <3>1. \A p \in Mp4 : \A n \in Windows : Shared(p, n)' BY <2>1, <2>3 DEF Shares, Shared, share, KType
      <3>2. \A q \in Requests : (Reading(q) /\ Running(q) /\ Timed(q) /\ Lent(q))'
        BY <2>1, <2>3 DEF Shares, Reading, Running, Timed, Lent, share, kv
      <3> QED BY <3>1, <3>2 DEF Shares
    <2>7. Totals' /\ Accounts' /\ Rooms' /\ TabAges' BY <2>1, SumsSame DEF kv
    <2> QED BY <2>2, <2>4, <2>5, <2>6, <2>7
  <1> QED BY <1>5, <1>6

\* A step of a request that changes no more than its own place, and what it takes from.
LEMMA StepKeeps ==
    ASSUME KInv, NEW r \in Requests, NEW s \in KSteps, Goto(r, s),
           pc[r] \notin {"walk", "publish", "writing", "returned"},
           UNCHANGED <<wants, left, kv, tab, share, keepers, visit, done, ok, panics, collected>>,
           \/ UNCHANGED from
           \/ from' \in [Requests -> Requests \cup {None}] /\ (\A q \in Requests \ {r} : from'[q] = from[q])
                /\ Plan(r) \in Mp4,
           s = "take" => Plan(r) \in Mkv /\ pc[from[r]] \in Built /\ pc[r] = "wait",
           s = "publish" => Plan(r) \in Mkv /\ pc[r] \in Building,
           s \in Building => pc[r] \in Building, s = "wait" => Plan(r) \in Mp4,
           s \in {"grace", "copy"} => Plan(r) \in Mp4, s \notin {"writing", "written"},
           s = "drop" => visit[r] # <<>>,
           pc[r] \in Built => s \in Built, Plan(r) \in Mp4 => (pc[r] \in Building <=> s \in Building)
    PROVE  KInv'
  <1> USE DEF KInv, tab
  <1>1. pc'[r] = s /\ \A q \in Requests \ {r} : pc'[q] = pc[q]
    BY DEF Goto, KType
  <1>2. Plan(r) \in Mkv => UNCHANGED from BY PlansAssumption
  <1>3. \A q \in Requests : Plan(q)' = Plan(q) /\ Win(q)' = Win(q) BY SameAsked
  <1>4. Side(r)' BY <1>1, <1>3, Asked DEF Side, KSteps, Requested, Building, Built
  <1>5. Visiting(r)' BY <1>1 DEF Visiting
  <1>6. Source(r)'
    <2>1. Source(r) BY DEF Requested
    <2>2. CASE Plan(r) \in Mp4 BY <1>3, <2>2, PlansAssumption DEF Source
    <2>3. CASE Plan(r) \in Mkv
      <3>1. from'[r] = from[r] BY <1>2, <2>3
      <3>2. s \in Building \cup {"publish"} => from[r] = r BY <2>1, <2>3 DEF Source
      <3>3. s # "wait" BY <2>3, PlansAssumption
      <3>4. s = "take" => /\ from[r] \in Requests /\ Plan(from[r]) = Plan(r) /\ Win(from[r]) = Win(r)
                          /\ pc[from[r]] \in Built /\ from[r] # r
        BY <2>1, <2>3 DEF Source, Built
      <3>5. s = "take" => pc'[from[r]] \in Built BY <1>1, <3>4
      <3> QED BY <1>1, <1>3, <3>1, <3>2, <3>3, <3>4, <3>5 DEF Source
    <2> QED BY <2>2, <2>3, Asked
  <1>7. from' \in [Requests -> Requests \cup {None}] /\ \A q \in Requests \ {r} : from'[q] = from[q]
    BY DEF KType
  <1> QED BY <1>4, <1>5, <1>6, <1>7, TypesSame, QuietKeeps

LEMMA WaitersKeep ==
    ASSUME KInv, NEW r \in Requests,
           Await(r) \/ QueueEnds(r) \/ Copy(r) \/ Busy(r) \/ GraceOver(r) \/ HeldUp(r) \/ ReadSeen(r) \/ CutShort(r)
    PROVE  KInv'
  <1> USE DEF KInv, claim, ends
  <1>1. UNCHANGED <<wants, left, from, kv, tab, share, keepers, visit, done, ok, panics, collected>>
    BY DEF Await, QueueEnds, Copy, Busy, GraceOver, HeldUp, ReadSeen, CutShort
  <1>2. CASE Await(r)
    <2>1. from[r] \in done => pc[from[r]] \in Built BY DEF Requested, Ended, KType
    <2>2. pc[r] = "wait" /\ Plan(r) \in Mkv /\ pc[from[r]] \in Built BY <1>2, <2>1 DEF Await
    <2>3. PICK s \in {"take", "returned"} : Goto(r, s) BY <1>2 DEF Await
    <2> QED BY <1>1, <2>2, <2>3, PlansAssumption, StepKeeps DEF KSteps, Building, Built
  <1>3. CASE QueueEnds(r)
    <2>1. pc[r] = "reserve" /\ Plan(r) \in Mkv /\ Goto(r, "publish") BY <1>3 DEF QueueEnds, Requested, Wanted
    <2> QED BY <1>1, <2>1, PlansAssumption, StepKeeps DEF KSteps, Building, Built
  <1>4. CASE Copy(r) \/ Busy(r) \/ GraceOver(r) \/ HeldUp(r) \/ ReadSeen(r) \/ CutShort(r)
    <2>1. PICK s \in {"returned", "copy"} : /\ Goto(r, s) /\ (s = "copy" => Plan(r) \in Mp4 /\ pc[r] = "wait")
                                           /\ pc[r] \in {"take", "new", "grace", "wait", "copy"}
      BY <1>4 DEF Copy, Busy, GraceOver, HeldUp, ReadSeen, CutShort
    <2> QED BY <1>1, <2>1, StepKeeps DEF KSteps, Building, Built
  <1> QED BY <1>2, <1>3, <1>4

LEMMA LookUpKeeps == ASSUME KInv, NEW r \in Requests, LookUp(r) PROVE KInv'
  <1> USE DEF KInv, claim, ends
  <1>1. Win(r) \in Windows BY Asked
  <1>2. /\ pc[r] = "new" /\ Plan(r) \in Mp4 /\ \E s \in {"grace", "wait"} : Goto(r, s)
        /\ UNCHANGED <<wants, left, kv, tab, share, keepers, visit, done, ok, panics, collected>>
    BY DEF LookUp
  <1>3. from' \in [Requests -> Requests \cup {None}] /\ \A q \in Requests \ {r} : from'[q] = from[q]
    <2>1. wins[Plan(r)][Win(r)] \in Requests \cup {None} BY <1>1, <1>2 DEF KType
    <2>2. from' = from \/ from' = [from EXCEPT ![r] = wins[Plan(r)][Win(r)]] BY DEF LookUp
    <2> QED BY <2>1, <2>2 DEF KType
  <1> QED BY <1>2, <1>3, StepKeeps DEF KSteps, Building, Built

\* A reclaim that takes a plan's lock, or is done with a plan.
LEMMA LockKeeps == ASSUME KInv, NEW r \in Requests, Lock(r) PROVE KInv'
  <1>1. /\ pc[r] = "reclaim" /\ visit[r] # <<>> /\ Goto(r, "drop")
        /\ UNCHANGED <<wants, left, from, kv, tab, share, keepers, visit, done, ok, panics, collected>>
    BY DEF Lock, Visits, ends
  <1> QED BY <1>1, StepKeeps DEF KSteps, Building, Built

\* The step of a reclaim that leaves it with others to visit, from one step of a builder to another.
LEMMA VisitKeeps ==
    ASSUME KInv, NEW r \in Requests, NEW s \in Building, s # "drop", Goto(r, s), pc[r] \in Building \ {"walk"},
           NEW v \in Seq(Plans), visit' = [visit EXCEPT ![r] = v],
           UNCHANGED <<wants, left, from, kv, tab, share, keepers, done, ok, panics, collected>>
    PROVE  KInv'
  <1> USE DEF KInv, tab
  <1>1. pc'[r] = s /\ \A q \in Requests \ {r} : pc'[q] = pc[q] BY DEF Goto, KType
  <1>2. \A q \in Requests : Plan(q)' = Plan(q) /\ Win(q)' = Win(q) BY SameAsked
  <1>3. Side(r)' /\ Visiting(r)' BY <1>1 DEF Side, Visiting, Building
  <1>4. Source(r)' BY <1>1, <1>2 DEF Requested, Source, Building
  <1>5. visit' \in [Requests -> Seq(Plans)] /\ \A q \in Requests \ {r} : visit'[q] = visit[q] BY DEF KType
  <1>6. s \in KSteps /\ pc[r] \notin {"walk", "publish", "writing", "returned"} \cup Built BY DEF Building, KSteps, Built
  <1>7. keepers' \in Seq(Plans) BY DEF KType
  <1> QED BY <1>3, <1>4, <1>5, <1>6, <1>7, TypesSame, QuietKeeps

LEMMA UnlockKeeps == ASSUME KInv, NEW r \in Requests, Unlock(r) PROVE KInv'
  <1> USE DEF KInv
  <1> DEFINE v == IF Head(visit[r]) = Plan(r) THEN RemoveFirst(keepers, Head(visit[r])) ELSE Tail(visit[r])
  <1>1. /\ pc[r] = "drop" /\ Goto(r, "reclaim") /\ visit' = [visit EXCEPT ![r] = v]
        /\ UNCHANGED <<wants, left, from, kv, tab, share, keepers, done, ok, panics, collected>>
    BY DEF Unlock, ends, KType
  <1>2. v \in Seq(Plans)
    <2>1. visit[r] \in Seq(Plans) /\ visit[r] # <<>> BY <1>1 DEF KType, Requested, Visiting
    <2>2. Tail(visit[r]) \in Seq(Plans) BY <2>1, HeadTailProperties
    <2>3. RemoveFirst(keepers, Head(visit[r])) \in Seq(Plans) BY RemoveType DEF KType
    <2> QED BY <2>2, <2>3
  <1> HIDE DEF v
  <1> QED BY <1>1, <1>2, VisitKeeps DEF Building

-----------------------------------------------------------------------------
(* What is reserved, and what the handles hold.                            *)

\* Where only one request's shares change, the sum changes by theirs.
LEMMA SharesChange ==
    ASSUME NEW f \in [Requests -> Nat], NEW g \in [Requests -> Nat], NEW r \in Requests,
           \A q \in Requests \ {r} : g[q] = f[q]
    PROVE  SumFunctionOnSet(g, Requests) = SumFunctionOnSet(f, Requests) - f[r] + g[r]
  <1>1. \A q \in Requests : f[q] \in Int /\ g[q] \in Int OBVIOUS
  <1>2. \A q \in Requests \ {r} : f[q] = g[q] OBVIOUS
  <1> QED BY <1>1, <1>2, Finite, SumChange

LEMMA OwnedChange ==
    ASSUME KType, NEW r \in Requests,
           resv' \in [Requests -> Nat], held' \in [Requests -> Nat], handle' \in [Requests -> Nat],
           \A q \in Requests \ {r} : resv'[q] = resv[q] /\ held'[q] = held[q] /\ handle'[q] = handle[q]
    PROVE  /\ Owned' = Owned - resv[r] - held[r] - handle[r] + resv'[r] + held'[r] + handle'[r]
           /\ Owned \in Nat
  <1>1. resv \in [Requests -> Nat] /\ held \in [Requests -> Nat] /\ handle \in [Requests -> Nat] BY DEF KType
  <1>2. SumFunctionOnSet(resv', Requests) = SumFunctionOnSet(resv, Requests) - resv[r] + resv'[r]
    BY <1>1, SharesChange
  <1>3. SumFunctionOnSet(held', Requests) = SumFunctionOnSet(held, Requests) - held[r] + held'[r]
    BY <1>1, SharesChange
  <1>4. SumFunctionOnSet(handle', Requests) = SumFunctionOnSet(handle, Requests) - handle[r] + handle'[r]
    BY <1>1, SharesChange
  <1>5. resv[r] \in Nat /\ held[r] \in Nat /\ handle[r] \in Nat BY <1>1
  <1>6. resv'[r] \in Nat /\ held'[r] \in Nat /\ handle'[r] \in Nat OBVIOUS
  <1> QED BY <1>2, <1>3, <1>4, <1>5, <1>6, SumTypes DEF Owned

\* A product grows with either factor.
LEMMA Times == \A a, b \in Int, c \in Nat : a <= b => a * c <= b * c
  <1> SUFFICES ASSUME NEW a \in Int, NEW b \in Int, NEW c \in Nat, a <= b PROVE a * c <= b * c OBVIOUS
  <1>1. PICK d \in Nat : b = a + d
    <2>1. b - a \in Nat /\ b = a + (b - a) OBVIOUS
    <2> QED BY <2>1
  <1>2. b * c = a * c + d * c BY <1>1
  <1>3. d * c \in Nat /\ a * c \in Int /\ b * c \in Int OBVIOUS
  <1> QED BY <1>2, <1>3

\* Giving bytes back, of what is kept or of what was reserved, keeps the bound.
LEMMA Falls ==
    ASSUME KType, Bounded, total' \in Int, total' <= total,
           resv' = resv \/ \E r \in Requests : resv' = [resv EXCEPT ![r] = 0]
    PROVE  Bounded'
  <1>1. PICK s, z : /\ s = SumFunctionOnSet(resv, Requests) /\ z = SumFunctionOnSet(resv', Requests)
    OBVIOUS
  <1>2. s \in Nat /\ z \in Int /\ z <= s
    <2>1. CASE resv' = resv BY <1>1, <2>1, SumTypes
    <2>2. ASSUME NEW r \in Requests, resv' = [resv EXCEPT ![r] = 0] PROVE s \in Nat /\ z \in Int /\ z <= s
      <3>1. resv \in [Requests -> Nat] /\ resv' \in [Requests -> Nat] BY <2>2 DEF KType
      <3>2. z = s - resv[r] + resv'[r] BY <1>1, <2>2, <3>1, SharesChange
      <3>3. resv'[r] = 0 /\ resv[r] \in Nat BY <2>2, <3>1
      <3> QED BY <1>1, <3>2, <3>3, SumTypes
    <2> QED BY <2>1, <2>2
  <1>3. ASSUME NEW n \in Windows, Shortest(n)
        PROVE  total' * Span[n] + z * (Heaviest(n) - Span[n]) <= Budget * Heaviest(n)
    <2>1. PICK a, b \in Nat : a = Span[n] /\ b = Heaviest(n) /\ a <= b BY Weights
    <2>2. total * a + s * (b - a) <= Budget * b BY <1>1, <1>3, <2>1 DEF Bounded
    <2>3. b - a \in Nat /\ total \in Int BY <2>1 DEF KType
    <2>4. total' * a <= total * a BY <2>1, <2>3, Times
    <2>5. z * (b - a) <= s * (b - a) BY <1>2, <2>3, Times
    <2>6. /\ total' * a \in Int /\ total * a \in Int /\ z * (b - a) \in Int /\ s * (b - a) \in Int
          /\ Budget * b \in Int
      BY <1>2, <2>1, <2>3, SizesAssumption
    <2> QED BY <2>1, <2>2, <2>4, <2>5, <2>6
  <1> QED BY <1>1, <1>3 DEF Bounded, Shortest, Heaviest

\* A step that leaves the budget enough for all that is reserved, too.
LEMMA Fitted ==
    ASSUME total' \in Int, total' <= Budget, SumFunctionOnSet(resv', Requests) \in Nat,
           SumFunctionOnSet(resv', Requests) <= total'
    PROVE  Bounded'
  <1>1. PICK z \in Nat : z = SumFunctionOnSet(resv', Requests) OBVIOUS
  <1>2. ASSUME NEW n \in Windows
        PROVE  total' * Span[n] + z * (Heaviest(n) - Span[n]) <= Budget * Heaviest(n)
    <2>1. PICK a, b, c \in Nat : a = Span[n] /\ b = Heaviest(n) /\ c = b - a
      <3>1. Span[n] \in Nat /\ Heaviest(n) \in Nat /\ Heaviest(n) - Span[n] \in Nat BY Weights
      <3> QED BY <3>1
    <2>2. Budget \in Nat /\ z <= Budget BY <1>1, SizesAssumption
    <2>3. total' * a <= Budget * a
      <3>1. PICK t \in Int : t = total' OBVIOUS
      <3>2. t <= Budget BY <3>1
      <3>3. t * a <= Budget * a BY <2>1, <2>2, <3>2, Times
      <3> QED BY <3>1, <3>3
    <2>4. z * c <= Budget * c BY <1>1, <2>2, Times
    <2>5. Budget * b = Budget * a + Budget * c
      <3>1. b = a + c BY <2>1
      <3> QED BY <2>2, <3>1
    <2>6. total' * a \in Int /\ z * c \in Int /\ Budget * a \in Int /\ Budget * c \in Int BY <1>1, <2>2
    <2>7. total' * a + z * c <= Budget * b BY <2>3, <2>4, <2>5, <2>6
    <2> QED BY <2>1, <2>7
  <1> QED BY <1>1, <1>2 DEF Bounded, Heaviest

LEMMA Empty == ASSUME total = 0, SumFunctionOnSet(resv, Requests) = 0 PROVE Bounded
  <1>1. ASSUME NEW n \in Windows PROVE 0 * Span[n] + 0 * (Heaviest(n) - Span[n]) <= Budget * Heaviest(n)
    <2>1. PICK a, b, c \in Nat : a = Span[n] /\ b = Heaviest(n) /\ c = b - a
      <3>1. Span[n] \in Nat /\ Heaviest(n) \in Nat /\ Heaviest(n) - Span[n] \in Nat BY Weights
      <3> QED BY <3>1
    <2>2. 0 * a = 0 /\ 0 * c = 0 BY <2>1
    <2>3. Budget * b \in Nat BY SizesAssumption
    <2> QED BY <2>1, <2>2, <2>3
  <1> QED BY <1>1 DEF Bounded

\* A walk ends, and what it kept takes the place of what it had reserved.
LEMMA Weighs ==
    ASSUME KType, Bounded, NEW r \in Requests, Plan(r) \in Mkv, NEW e \in Nat, e = Span[Win(r)],
           NEW v \in Nat, v <= SizeOf(Tracks), total' = total - e + v,
           SumFunctionOnSet(resv', Requests) = SumFunctionOnSet(resv, Requests) - e
    PROVE  Bounded'
  <1>1. PICK s, z : s = SumFunctionOnSet(resv, Requests) /\ z = SumFunctionOnSet(resv', Requests) OBVIOUS
  <1>2. s \in Nat /\ z = s - e /\ total \in Int BY <1>1, SumTypes DEF KType
  <1>3. ASSUME NEW n \in Windows, Shortest(n)
        PROVE  total' * Span[n] + z * (Heaviest(n) - Span[n]) <= Budget * Heaviest(n)
    <2>1. PICK a, b, c \in Nat : a = Span[n] /\ b = Heaviest(n) /\ c = b - a /\ v <= b
      <3>1. Span[n] \in Nat /\ Heaviest(n) \in Nat /\ Heaviest(n) - Span[n] \in Nat BY Weights
      <3>2. v <= Heaviest(n)
        <4>1. SizeOf(Tracks) \in Nat /\ SizeOf(Tracks) <= Heaviest(n) BY Weights, Sizes
        <4> QED BY <3>1, <4>1
      <3> QED BY <3>1, <3>2
    <2>2. a <= e
      <3>1. Win(r) \in Windows BY DEF KType, Win
      <3> QED BY <1>3, <2>1, <3>1 DEF Shortest
    <2>3. total * a + s * c <= Budget * b BY <1>1, <1>3, <2>1 DEF Bounded
    <2>4. v * a <= b * a BY <2>1, Times
    <2>5. a * b <= e * b BY <2>2, Times
    <2>6. total' * a + z * c = (total * a + s * c) + (v * a - e * b)
      <3>1. total' * a = total * a - e * a + v * a BY <1>2
      <3>2. z * c = s * c - e * c BY <1>2
      <3>3. e * b = e * a + e * c
        <4>1. b = a + c BY <2>1
        <4> QED BY <4>1
      <3>4. total * a \in Int /\ e * a \in Int /\ v * a \in Int /\ s * c \in Int /\ e * c \in Int BY <1>2
      <3> QED BY <3>1, <3>2, <3>3, <3>4
    <2>7. a * b = b * a /\ v * a \in Int /\ e * b \in Int /\ a * b \in Int BY <2>1
    <2>8. total * a + s * c \in Int /\ Budget * b \in Int BY <1>2, SizesAssumption
    <2>9. total' * a + z * c <= Budget * b BY <2>3, <2>4, <2>5, <2>6, <2>7, <2>8
    <2> QED BY <2>1, <2>9
  <1> QED BY <1>1, <1>3 DEF Bounded, Shortest, Heaviest

\* A step that changes what a request has reserved, or what its handle holds, and no table or window.
LEMMA MoveKeeps ==
    ASSUME KInv, NEW r \in Requests, NEW s \in {"walk", "publish", "written", "returned"}, Goto(r, s),
           pc[r] \in {"reserve", "reclaim", "walk", "writing", "written"},
           s = "walk" <=> pc[r] \in {"reserve", "reclaim"}, s = "publish" <=> pc[r] = "walk",
           s = "publish" => Plan(r) \in Mkv,
           UNCHANGED <<wants, left, from, kept, taken, held, acct, tab, share, keepers, done, ok, collected>>,
           visit' \in [Requests -> Seq(Plans)], \A q \in Requests \ {r} : visit'[q] = visit[q],
           NEW v \in Nat, resv' = [resv EXCEPT ![r] = v], v # 0 => s = "walk" /\ v = Need(r),
           NEW h \in Nat, handle' = [handle EXCEPT ![r] = h], h = 0,
           total' \in Int, panics' \in Nat, Totals'
    PROVE  KInv'
  <1> USE DEF KInv, tab
  <1>1. pc' \in [Requests -> KSteps] /\ pc'[r] = s /\ \A q \in Requests \ {r} : pc'[q] = pc[q]
    BY DEF Goto, KType, KSteps
  <1>2. \A q \in Requests : Plan(q)' = Plan(q) /\ Win(q)' = Win(q) /\ Need(q)' = Need(q) BY SameAsked
  <1>3. \A q \in Requests : /\ resv'[q] = IF q = r THEN v ELSE resv[q]
                            /\ handle'[q] = IF q = r THEN h ELSE handle[q]
    BY DEF KType
  <1>4. KType'
    <2>1. resv' \in [Requests -> Nat] /\ handle' \in [Requests -> Nat] BY DEF KType
    <2> QED BY <1>1, <2>1 DEF KType, share
  <1>5. \A q \in Requests : pc[q] \in Built => pc'[q] \in Built BY <1>1 DEF Built
  <1>6. Plan(r) \in Mp4 => (pc[r] \in Building <=> s \in Building) BY PlansAssumption DEF Building, Requested, Side
  <1>7. Requested'
    <2>1. \A q \in Requests : (Side(q) /\ Visiting(q) /\ Ended(q) /\ Gone(q) /\ Wanted(q))'
      BY <1>1, <1>2 DEF Requested, Side, Visiting, Ended, Gone, Wanted, Built
    <2>2. \A q \in Requests : (Reserved(q) /\ Handled(q))'
      BY <1>1, <1>2, <1>3 DEF Requested, Reserved, Handled
    <2>3. ASSUME NEW q \in Requests PROVE Source(q)'
      <3>1. Source(q) /\ from'[q] = from[q] BY DEF Requested
      <3>2. CASE q = r BY <1>1, <1>2, <3>1, <3>2 DEF Source, Building
      <3>3. CASE q # r /\ pc[q] \in {"wait", "take"} BY <1>1, <1>2, <1>5, <3>1, <3>3 DEF Source
      <3>4. CASE q # r /\ pc[q] \notin {"wait", "take"} BY <1>1, <1>2, <3>1, <3>4 DEF Source
      <3> QED BY <3>2, <3>3, <3>4
    <2> QED BY <2>1, <2>2, <2>3 DEF Requested
  <1>8. Tabs'
    <2>1. \A p \in Mkv : \A n \in Windows : (Flown(p, n) /\ Tabled(p, n))'
      BY <1>2, <1>5 DEF Tabs, Flown, Tabled, KType
    <2>2. \A q \in Requests : (Placed(q) /\ Weighed(q))'
      BY <1>1, <1>2 DEF Tabs, Placed, Weighed
    <2> QED BY <2>1, <2>2 DEF Tabs
  <1>9. Shares'
    <2>1. \A p \in Mp4 : \A n \in Windows : Shared(p, n)'
      <3> SUFFICES ASSUME NEW p \in Mp4, NEW n \in Windows, wins'[p][n] # None PROVE Shared(p, n)'
        BY DEF Shared
      <3>1. PICK w \in Requests : w = wins[p][n] /\ wins'[p][n] = w BY DEF share, KType
      <3>2. Plan(w) = p /\ Win(w) = n /\ (w \in runs \/ pc[w] \in Building)
        BY <3>1 DEF Shares, Shared, share
      <3>3. w \in runs' \/ pc'[w] \in Building BY <1>1, <1>6, <3>2 DEF share
      <3>4. Plan(w)' = p /\ Win(w)' = n BY <1>2, <3>2
      <3> QED BY <3>1, <3>3, <3>4 DEF Shared
    <2>2. \A q \in Requests : (Reading(q) /\ Running(q) /\ Timed(q) /\ Lent(q))'
      BY <1>1, <1>2, <1>6 DEF Shares, Reading, Running, Timed, Lent, share
    <2> QED BY <2>1, <2>2 DEF Shares
  <1>10. Accounts' /\ Rooms' /\ TabAges'
    <2>1. \A p \in Mkv : TableBytes(p)' = TableBytes(p) BY DEF TableBytes
    <2> QED BY <2>1 DEF Accounts, Rooms, TabAges
  <1> QED BY <1>4, <1>7, <1>8, <1>9, <1>10

\* The bytes are reserved when they fit; nothing is held by the request before.
LEMMA TakesRoom ==
    ASSUME KInv, NEW r \in Requests, pc[r] \in {"reserve", "reclaim"}, Goto(r, "walk"),
           \/ Fits(Need(r)) /\ resv' = [resv EXCEPT ![r] = Need(r)] /\ total' = total + Need(r)
           \/ UNCHANGED <<resv, total>>,
           visit' \in [Requests -> Seq(Plans)], \A q \in Requests \ {r} : visit'[q] = visit[q],
           UNCHANGED <<wants, left, from, kept, taken, held, handle, acct, tab, share, keepers, done, ok, panics, collected>>
    PROVE  KInv'
  <1> USE DEF KInv
  <1>1. resv[r] = 0 /\ handle[r] = 0 /\ held[r] \in Nat BY DEF Requested, Reserved, Handled, KType
  <1>2. PICK v \in Nat : /\ resv' = [resv EXCEPT ![r] = v] /\ total' = total + v
                         /\ v # 0 => v = Need(r) /\ total + v <= Budget
    <2>1. CASE Fits(Need(r)) /\ resv' = [resv EXCEPT ![r] = Need(r)] /\ total' = total + Need(r)
      BY <2>1, Needs DEF Fits
    <2>2. CASE UNCHANGED <<resv, total>>
      <3>1. resv' = [resv EXCEPT ![r] = 0] /\ total' = total + 0 BY <1>1, <2>2 DEF KType
      <3> QED BY <3>1
    <2> QED BY <2>1, <2>2
  <1>3. handle' = [handle EXCEPT ![r] = 0] BY <1>1 DEF KType
  <1>4. Owned' = Owned + v /\ Owned \in Nat
    <2>1. resv' \in [Requests -> Nat] /\ held' \in [Requests -> Nat] /\ handle' \in [Requests -> Nat] BY <1>2 DEF KType
    <2>2. \A q \in Requests \ {r} : resv'[q] = resv[q] /\ held'[q] = held[q] /\ handle'[q] = handle[q] BY <1>2 DEF KType
    <2>3. Owned' = Owned - resv[r] - held[r] - handle[r] + resv'[r] + held'[r] + handle'[r] /\ Owned \in Nat
      BY <2>1, <2>2, OwnedChange
    <2>4. resv'[r] = v /\ held'[r] = held[r] /\ handle'[r] = handle[r] BY <1>2 DEF KType
    <2> QED BY <1>1, <2>3, <2>4
  <1>5. total \in Int /\ panics \in Nat BY DEF KType
  <1>6. Bounded'
    <2>1. CASE v = 0
      <3>1. resv' = [resv EXCEPT ![r] = 0] BY <1>2, <2>1
      <3>2. total' \in Int /\ total' <= total BY <1>2, <1>5, <2>1
      <3> QED BY <3>1, <3>2, Falls DEF Totals
    <2>2. CASE v # 0
      <3>1. SumFunctionOnSet(resv', Requests) \in Nat /\ SumFunctionOnSet(resv', Requests) <= Owned'
        <4>1. \A q \in Requests : resv'[q] \in Nat BY <1>2 DEF KType
        <4>2. SumFunctionOnSet(resv', Requests) \in Nat BY <4>1, Finite, SumNat
        <4>3. Owned' = SumFunctionOnSet(resv', Requests) + SumFunctionOnSet(held, Requests)
                       + SumFunctionOnSet(handle, Requests)
          BY DEF Owned
        <4> QED BY <4>2, <4>3, SumTypes
      <3>2. Owned' <= total' /\ total' \in Int /\ total' <= Budget /\ Owned' \in Int
        BY <1>2, <1>4, <1>5, <2>2 DEF Totals
      <3> QED BY <3>1, <3>2, Fitted
    <2> QED BY <2>1, <2>2
  <1>7. Totals' /\ total' \in Int /\ panics' \in Nat BY <1>2, <1>4, <1>5, <1>6 DEF Totals
  <1> QED BY <1>2, <1>3, <1>7, MoveKeeps

LEMMA ReserveKeeps == ASSUME KInv, NEW r \in Requests, Reserve(r) PROVE KInv'
  <1> USE DEF ends
  <1>1. CASE Fits(Need(r))
    <2>1. visit' \in [Requests -> Seq(Plans)] /\ UNCHANGED visit BY <1>1 DEF Reserve, KInv, KType
    <2> QED BY <1>1, <2>1, TakesRoom DEF Reserve
  <1>2. CASE ~ Fits(Need(r))
    <2>1. <<Plan(r)>> \in Seq(Plans) BY Asked DEF KInv, Plans
    <2>2. /\ pc[r] = "reserve" /\ Goto(r, "reclaim") /\ visit' = [visit EXCEPT ![r] = <<Plan(r)>>]
          /\ UNCHANGED <<wants, left, from, kv, tab, share, keepers, done, ok, panics, collected>>
      BY <1>2 DEF Reserve, kv
    <2> QED BY <2>1, <2>2, VisitKeeps DEF Building
  <1> QED BY <1>1, <1>2

LEMMA ReserveAgainKeeps == ASSUME KInv, NEW r \in Requests, ReserveAgain(r) PROVE KInv'
  <1>1. visit' \in [Requests -> Seq(Plans)] /\ \A q \in Requests \ {r} : visit'[q] = visit[q]
    BY DEF ReserveAgain, KInv, KType
  <1> QED BY <1>1, TakesRoom DEF ReserveAgain, ends

\* A walk that fails gives its bytes back; one that panics only forgets them.
LEMMA WalkStops == ASSUME KInv, NEW r \in Requests, WalkFails(r) \/ WalkPanics(r) PROVE KInv'
  <1> USE DEF KInv, claim
  <1>1. /\ pc[r] = "walk" /\ Plan(r) \in Mkv /\ Goto(r, "publish") /\ resv' = [resv EXCEPT ![r] = 0]
        /\ UNCHANGED <<wants, left, from, kept, taken, held, handle, acct, tab, share, keepers, visit, done, ok, collected>>
        /\ \/ total' = total - resv[r] /\ panics' = panics
           \/ total' = total /\ panics' = panics + 1
    BY DEF WalkFails, WalkPanics
  <1>2. handle[r] = 0 /\ held[r] \in Nat /\ resv[r] \in Nat BY <1>1 DEF Requested, Handled, KType
  <1>3. handle' = [handle EXCEPT ![r] = 0] BY <1>1, <1>2 DEF KType
  <1>4. Owned' = Owned - resv[r] /\ Owned \in Nat
    <2>1. resv' \in [Requests -> Nat] /\ held' \in [Requests -> Nat] /\ handle' \in [Requests -> Nat] BY <1>1 DEF KType
    <2>2. \A q \in Requests \ {r} : resv'[q] = resv[q] /\ held'[q] = held[q] /\ handle'[q] = handle[q] BY <1>1 DEF KType
    <2>3. Owned' = Owned - resv[r] - held[r] - handle[r] + resv'[r] + held'[r] + handle'[r] /\ Owned \in Nat
      BY <2>1, <2>2, OwnedChange
    <2>4. resv'[r] = 0 /\ held'[r] = held[r] /\ handle'[r] = handle[r] BY <1>1 DEF KType
    <2> QED BY <1>2, <2>3, <2>4
  <1>5. total \in Int /\ panics \in Nat BY DEF KType
  <1>6. Totals' /\ total' \in Int
    <2>1. total' \in Int /\ total' <= total BY <1>1, <1>2, <1>5
    <2>2. Bounded' BY <1>1, <2>1, Falls DEF Totals
    <2>3. CASE total' = total - resv[r] /\ panics' = panics BY <1>2, <1>4, <1>5, <2>2, <2>3 DEF Totals
    <2>4. CASE total' = total /\ panics' = panics + 1 BY <1>2, <1>4, <1>5, <2>2, <2>4 DEF Totals
    <2> QED BY <1>1, <2>1, <2>3, <2>4
  <1>7. visit' \in [Requests -> Seq(Plans)] /\ panics' \in Nat BY <1>1, <1>5 DEF KType
  <1> QED BY <1>1, <1>3, <1>6, <1>7, MoveKeeps

LEMMA ReleaseKeeps == ASSUME KInv, NEW r \in Requests, Written(r) \/ Close(r) PROVE KInv'
  <1> USE DEF KInv, claim, ends
  <1>1. /\ pc[r] \in {"writing", "written"} /\ \E s \in {"written", "returned"} : Goto(r, s)
        /\ total' = total - handle[r] /\ handle' = [handle EXCEPT ![r] = 0]
        /\ UNCHANGED <<wants, left, from, kept, taken, held, resv, acct, tab, share, keepers, visit, done, ok, panics, collected>>
    BY DEF Written, Close, Release
  <1>2. resv[r] = 0 /\ held[r] \in Nat /\ handle[r] \in Nat BY <1>1 DEF Requested, Reserved, KType
  <1>3. resv' = [resv EXCEPT ![r] = 0] BY <1>1, <1>2 DEF KType
  <1>4. Owned' = Owned - handle[r] /\ Owned \in Nat
    <2>1. resv' \in [Requests -> Nat] /\ held' \in [Requests -> Nat] /\ handle' \in [Requests -> Nat] BY <1>1 DEF KType
    <2>2. \A q \in Requests \ {r} : resv'[q] = resv[q] /\ held'[q] = held[q] /\ handle'[q] = handle[q] BY <1>1 DEF KType
    <2>3. Owned' = Owned - resv[r] - held[r] - handle[r] + resv'[r] + held'[r] + handle'[r] /\ Owned \in Nat
      BY <2>1, <2>2, OwnedChange
    <2>4. resv'[r] = resv[r] /\ held'[r] = held[r] /\ handle'[r] = 0 BY <1>1 DEF KType
    <2> QED BY <1>2, <2>3, <2>4
  <1>5. total \in Int BY DEF KType
  <1>6. Totals' /\ total' \in Int
    <2>1. total' \in Int /\ total' <= total BY <1>1, <1>2, <1>5
    <2>2. Bounded' BY <1>1, <2>1, Falls DEF Totals
    <2> QED BY <1>1, <1>2, <1>4, <1>5, <2>1, <2>2 DEF Totals
  <1>7. visit' \in [Requests -> Seq(Plans)] /\ panics' \in Nat BY <1>1 DEF KType
  <1> QED BY <1>1, <1>3, <1>6, <1>7, MoveKeeps

-----------------------------------------------------------------------------
(* What a step of the one kind of plan leaves of the other's.              *)

\* A step over the remote MP4 plans.
LEMMA MkvSame ==
    ASSUME KInv,
           UNCHANGED <<wants, tables, tabOrder, flight, cancelled, kept, collected, acct, from, ok>>,
           \A q \in Requests : Plan(q) \in Mkv =>
             /\ pc'[q] = pc[q] /\ held'[q] = held[q] /\ resv'[q] = resv[q] /\ handle'[q] = handle[q]
             /\ visit'[q] = visit[q] /\ (q \in done' <=> q \in done)
    PROVE  /\ Tabs' /\ TabAges' /\ Accounts' /\ Rooms'
           /\ \A q \in Requests : Source(q)' /\ Wanted(q)'
           /\ \A q \in Requests : Plan(q) \in Mkv =>
                (Side(q) /\ Visiting(q) /\ Ended(q) /\ Gone(q) /\ Reserved(q) /\ Handled(q))'
  <1> USE DEF KInv
  <1>1. \A q \in Requests : Plan(q)' = Plan(q) /\ Win(q)' = Win(q) /\ Need(q)' = Need(q) BY SameAsked
  <1>2. Tabs'
    <2>1. ASSUME NEW p \in Mkv, NEW n \in Windows PROVE Flown(p, n)' /\ Tabled(p, n)'
      BY <1>1 DEF Tabs, Flown, Tabled, KType
    <2>2. \A q \in Requests : (Placed(q) /\ Weighed(q))'
      BY <1>1 DEF Tabs, Placed, Weighed
    <2> QED BY <2>1, <2>2 DEF Tabs
  <1>3. TabAges' /\ Rooms' BY DEF TabAges, Rooms
  <1>4. Accounts'
    <2>1. ASSUME NEW p \in Mkv PROVE TableBytes(p)' = TableBytes(p)
      <3>1. \A n \in Windows : tables[p][n] # None => held'[tables[p][n]] = held[tables[p][n]]
        BY DEF Tabs, Tabled, KType
      <3> QED BY <3>1 DEF TableBytes
    <2> QED BY <2>1 DEF Accounts
  <1>5. ASSUME NEW q \in Requests PROVE Source(q)' /\ Wanted(q)'
    <2>1. Source(q) /\ Wanted(q) BY DEF Requested
    <2>2. from'[q] = from[q] OBVIOUS
    <2>3. Plan(q) \in Mkv /\ from[q] \in Requests /\ Plan(from[q]) = Plan(q) => pc'[from[q]] = pc[from[q]] OBVIOUS
    <2> QED BY <1>1, <2>1, <2>2, <2>3 DEF Source, Wanted, Building
  <1>6. ASSUME NEW q \in Requests, Plan(q) \in Mkv
        PROVE  (Side(q) /\ Visiting(q) /\ Ended(q) /\ Gone(q) /\ Reserved(q) /\ Handled(q))'
    BY <1>1, <1>6 DEF Requested, Side, Visiting, Ended, Gone, Reserved, Handled
  <1> QED BY <1>2, <1>3, <1>4, <1>5, <1>6

\* A step over the Matroska plans.
LEMMA Mp4Same ==
    ASSUME KInv, UNCHANGED <<wants, wins, runs, timers, collected, cancelled>>, done \subseteq done',
           \A q \in Requests : Plan(q) \in Mp4 =>
             /\ pc'[q] = pc[q] /\ held'[q] = held[q] /\ resv'[q] = resv[q] /\ handle'[q] = handle[q]
             /\ visit'[q] = visit[q] /\ (q \in done' <=> q \in done)
    PROVE  /\ Shares'
           /\ \A q \in Requests : Wanted(q)'
           /\ \A q \in Requests : Plan(q) \in Mp4 =>
                (Side(q) /\ Visiting(q) /\ Ended(q) /\ Gone(q) /\ Source(q) /\ Reserved(q) /\ Handled(q))'
  <1> USE DEF KInv
  <1>1. \A q \in Requests : Plan(q)' = Plan(q) /\ Win(q)' = Win(q) /\ Need(q)' = Need(q) BY SameAsked
  <1>2. Shares'
    <2>1. ASSUME NEW p \in Mp4, NEW n \in Windows PROVE Shared(p, n)'
      <3>1. CASE wins[p][n] = None BY <3>1 DEF Shared
      <3>2. CASE wins[p][n] # None
        <4>1. PICK w \in Requests : w = wins[p][n] /\ wins'[p][n] = w BY <3>2 DEF KType
        <4>2. Plan(w) = p /\ Win(w) = n /\ (w \in runs \/ pc[w] \in Building) BY <3>2, <4>1 DEF Shares, Shared
        <4>3. pc'[w] = pc[w] /\ Plan(w)' = p /\ Win(w)' = n BY <1>1, <4>2
        <4> QED BY <4>1, <4>2, <4>3 DEF Shared
      <3> QED BY <3>1, <3>2
    <2>2. \A q \in Requests : (Reading(q) /\ Running(q) /\ Timed(q) /\ Lent(q))'
      BY <1>1 DEF Shares, Reading, Running, Timed, Lent
    <2> QED BY <2>1, <2>2 DEF Shares
  <1>3. \A q \in Requests : Wanted(q)' BY <1>1 DEF Requested, Wanted
  <1>4. ASSUME NEW q \in Requests, Plan(q) \in Mp4
        PROVE  (Side(q) /\ Visiting(q) /\ Ended(q) /\ Gone(q) /\ Source(q) /\ Reserved(q) /\ Handled(q))'
    <2>1. (Side(q) /\ Visiting(q) /\ Ended(q) /\ Gone(q) /\ Reserved(q) /\ Handled(q))'
      BY <1>1, <1>4 DEF Requested, Side, Visiting, Ended, Gone, Reserved, Handled
    <2>2. Source(q)' BY <1>1, <1>4, PlansAssumption DEF Source
    <2> QED BY <2>1, <2>2
  <1> QED BY <1>2, <1>3, <1>4

-----------------------------------------------------------------------------
(* The shared windows of a remote MP4 plan.                                *)

\* A window that is dropped, or not, while a request of the plan may return from its copy.
LEMMA DropWinKeeps ==
    ASSUME KInv, NEW p \in Mp4, NEW n \in Windows,
           \/ wins[p][n] \in done /\ DropWin(p, n)
           \/ UNCHANGED <<wins, winOrder, total, held, runs>>,
           pc' \in [Requests -> KSteps],
           \A q \in Requests : pc'[q] = pc[q] \/ (Plan(q) \in Mp4 /\ pc[q] = "copy" /\ pc'[q] = "returned"),
           owed' \in [Requests -> SUBSET Tracks], timers' \in SUBSET timers,
           UNCHANGED <<wants, left, from, kept, taken, resv, handle, acct, tab, keepers, visit, done, ok, panics, collected>>
    PROVE  KInv'
  <1> USE DEF KInv, tab
  <1>1. \A q \in Requests : Plan(q)' = Plan(q) /\ Win(q)' = Win(q) /\ Need(q)' = Need(q) BY SameAsked
  <1>2. PICK w : w = wins[p][n] /\ w \in Requests \cup {None} BY DEF KType
  <1>3. DropWin(p, n) /\ w \in done =>
          /\ w \in Requests /\ Plan(w) = p /\ Win(w) = n /\ pc[w] \in Built
          /\ wins' = [wins EXCEPT ![p][n] = None] /\ winOrder' = [winOrder EXCEPT ![p] = RemoveFirst(@, n)]
          /\ total' = total - held[w] /\ held' = [held EXCEPT ![w] = 0] /\ runs' = runs \ {w}
    <2>1. w \in done => w \in Requests /\ w # None BY PlansAssumption DEF KType
    <2>2. w \in done => pc[w] \in Built BY <2>1 DEF Requested, Ended
    <2>3. w \in done => Plan(w) = p /\ Win(w) = n BY <1>2, <2>1 DEF Shares, Shared
    <2> QED BY <1>2, <2>1, <2>2, <2>3 DEF DropWin
  <1>11. /\ DropWin(p, n) /\ w \in done =>
             \A o \in Mp4, m \in Windows : wins'[o][m] = IF o = p /\ m = n THEN None ELSE wins[o][m]
         /\ UNCHANGED wins \/ (DropWin(p, n) /\ w \in done)
    <2>1. wins \in [Mp4 -> [Windows -> Requests \cup {None}]] BY DEF KType
    <2>2. ASSUME wins' = [wins EXCEPT ![p][n] = None], NEW o \in Mp4, NEW m \in Windows
          PROVE  wins'[o][m] = IF o = p /\ m = n THEN None ELSE wins[o][m]
      <3> HIDE DEF KInv
      <3> QED BY <2>1, <2>2
    <2> QED BY <1>2, <1>3, <2>2
  <1>4. \A q \in Requests : held'[q] = held[q] \/ (q = w /\ held'[q] = 0 /\ Plan(w) = p) BY <1>2, <1>3 DEF KType
  <1>5. KType'
    <2>1. winOrder' \in [Mp4 -> Seq(Windows)]
      <3>1. RemoveFirst(winOrder[p], n) \in Seq(Windows) BY RemoveType DEF KType
      <3>2. winOrder \in [Mp4 -> Seq(Windows)] BY DEF KType
      <3>3. winOrder' = winOrder \/ winOrder' = [winOrder EXCEPT ![p] = RemoveFirst(winOrder[p], n)] BY <1>2, <1>3
      <3> HIDE DEF KInv
      <3> QED BY <3>1, <3>2, <3>3
    <2>2. wins' \in [Mp4 -> [Windows -> Requests \cup {None}]]
      <3>1. wins \in [Mp4 -> [Windows -> Requests \cup {None}]] BY DEF KType
      <3>2. wins' = wins \/ wins' = [wins EXCEPT ![p][n] = None] BY <1>2, <1>3
      <3> HIDE DEF KInv
      <3> QED BY <3>1, <3>2
    <2>3. held' \in [Requests -> Nat] /\ total' \in Int /\ runs' \in SUBSET Requests BY <1>2, <1>3 DEF KType
    <2> QED BY <2>1, <2>2, <2>3 DEF KType
  <1>6. /\ Tabs' /\ TabAges' /\ Accounts' /\ Rooms'
        /\ \A q \in Requests : Source(q)' /\ Wanted(q)'
        /\ \A q \in Requests : Plan(q) \in Mkv =>
             (Side(q) /\ Visiting(q) /\ Ended(q) /\ Gone(q) /\ Reserved(q) /\ Handled(q))'
    <2>1. \A q \in Requests : Plan(q) \in Mkv => pc'[q] = pc[q] /\ held'[q] = held[q]
      BY <1>4, PlansAssumption
    <2> QED BY <2>1, MkvSame
  <1>7. Requested'
    <2>1. ASSUME NEW q \in Requests, Plan(q) \in Mp4
          PROVE  (Side(q) /\ Visiting(q) /\ Ended(q) /\ Gone(q) /\ Reserved(q) /\ Handled(q))'
      <3>1. pc'[q] = pc[q] \/ (pc[q] = "copy" /\ pc'[q] = "returned") OBVIOUS
      <3> QED BY <1>1, <2>1, <3>1 DEF Requested, Side, Visiting, Ended, Gone, Reserved, Handled, Built
    <2>2. \A q \in Requests : Plan(q) \in Mkv \cup Mp4 BY Asked
    <2> QED BY <1>6, <2>1, <2>2 DEF Requested
  <1>8. \A q \in Requests : pc'[q] \in Building <=> pc[q] \in Building BY DEF Building
  <1>9. Shares'
    <2>1. \A m \in Windows, o \in Mp4 : wins'[o][m] = wins[o][m] \/ wins'[o][m] = None BY <1>11
    <2>2. \A o \in Mp4, m \in Windows : w \in done /\ DropWin(p, n) /\ wins[o][m] = w => wins'[o][m] = None
      <3> SUFFICES ASSUME NEW o \in Mp4, NEW m \in Windows, w \in done, DropWin(p, n), wins[o][m] = w
                   PROVE  wins'[o][m] = None
        OBVIOUS
      <3>1. o = p /\ m = n BY <1>3, PlansAssumption DEF Shares, Shared
      <3> QED BY <1>3, <3>1 DEF KType
    <2>3. \A q \in Requests : q \in runs => q \in runs' \/ (w \in done /\ DropWin(p, n) /\ q = w) BY <1>2, <1>3
    <2>4. ASSUME NEW o \in Mp4, NEW m \in Windows PROVE Shared(o, m)'
      <3>1. CASE wins'[o][m] = None BY <3>1 DEF Shared
      <3>2. CASE wins'[o][m] # None
        <4>1. PICK v \in Requests : v = wins[o][m] /\ wins'[o][m] = v BY <2>1, <3>2 DEF KType
        <4>2. Plan(v) = o /\ Win(v) = m /\ (v \in runs \/ pc[v] \in Building) BY <2>1, <3>2, <4>1 DEF Shares, Shared
        <4>3. v \in runs => v \in runs' BY <2>2, <2>3, <3>2, <4>1
        <4> QED BY <1>1, <1>8, <4>1, <4>2, <4>3 DEF Shared
      <3> QED BY <3>1, <3>2
    <2>5. ASSUME NEW q \in Requests PROVE (Reading(q) /\ Running(q) /\ Timed(q) /\ Lent(q))'
      <3>1. Plan(q) \in Mp4 /\ wins[Plan(q)][Win(q)] = q /\ ~ (w \in done /\ DropWin(p, n) /\ q = w)
            => wins'[Plan(q)][Win(q)] = q
        <4> SUFFICES ASSUME Plan(q) \in Mp4, wins[Plan(q)][Win(q)] = q, ~ (w \in done /\ DropWin(p, n) /\ q = w)
                     PROVE  wins'[Plan(q)][Win(q)] = q
          OBVIOUS
        <4>1. CASE w \in done /\ DropWin(p, n)
          <5>1. ~ (Plan(q) = p /\ Win(q) = n) BY <1>2, <4>1
          <5> QED BY <1>11, <4>1, <5>1, Asked
        <4>2. CASE UNCHANGED wins BY <4>2
        <4> QED BY <1>2, <4>1, <4>2
      <3>2. (Reading(q))'
        <4>1. w \in done /\ q = w => pc[q] \notin Building BY <1>2, PlansAssumption DEF Requested, Ended, Built, Building, KType
        <4> QED BY <1>1, <1>8, <3>1, <4>1 DEF Shares, Reading
      <3>3. (Running(q))'
        <4>1. q \in runs' => q \in runs /\ ~ (w \in done /\ DropWin(p, n) /\ q = w) BY <1>2, <1>3
        <4> QED BY <1>1, <3>1, <4>1 DEF Shares, Running
      <3>4. (Timed(q))' BY <1>1 DEF Shares, Timed
      <3>5. (Lent(q))'
        <4>1. w \in done /\ DropWin(p, n) /\ q = w => held'[q] = 0 BY <1>3 DEF KType
        <4> QED BY <1>1, <1>4, <2>3, <4>1 DEF Shares, Lent
      <3> QED BY <3>2, <3>3, <3>4, <3>5
    <2> QED BY <2>4, <2>5 DEF Shares
  <1>10. Totals'
    <2>1. CASE wins[p][n] \in done /\ DropWin(p, n)
      <3>1. held' \in [Requests -> Nat] /\ resv' \in [Requests -> Nat] /\ handle' \in [Requests -> Nat] BY <1>5 DEF KType
      <3>2. w \in Requests /\ held'[w] = 0 /\ total' = total - held[w] BY <1>2, <1>3, <2>1 DEF KType
      <3>3. \A q \in Requests \ {w} : resv'[q] = resv[q] /\ held'[q] = held[q] /\ handle'[q] = handle[q] BY <1>4
      <3>4. Owned' = Owned - resv[w] - held[w] - handle[w] + resv'[w] + held'[w] + handle'[w] /\ Owned \in Nat
        BY <3>1, <3>2, <3>3, OwnedChange
      <3>5. resv[w] \in Nat /\ held[w] \in Nat /\ handle[w] \in Nat /\ resv'[w] = resv[w] /\ handle'[w] = handle[w]
        BY <3>2 DEF KType
      <3>6. Owned' = Owned - held[w] /\ total \in Int BY <3>2, <3>4, <3>5 DEF KType
      <3>7. total' \in Int /\ total' <= total /\ resv' = resv BY <1>5, <3>2, <3>5, <3>6
      <3>8. Bounded' BY <3>7, Falls DEF Totals
      <3> QED BY <1>5, <3>2, <3>4, <3>5, <3>6, <3>8 DEF Totals
    <2>2. CASE UNCHANGED <<total, held>> BY <1>5, <2>2 DEF Totals, Owned, Bounded
    <2> QED BY <2>1, <2>2
  <1> QED BY <1>5, <1>6, <1>7, <1>9, <1>10

\* What a reclaim finds in a plan's order.
LEMMA OldestFound ==
    ASSUME KInv, NEW p \in Plans, Oldest(p) # 0
    PROVE  \/ /\ p \in Mkv /\ Oldest(p) \in 1 .. Len(tabOrder[p])
              /\ tabOrder[p][Oldest(p)] \in Windows /\ held[tables[p][tabOrder[p][Oldest(p)]]] > 0
           \/ /\ p \in Mp4 /\ winOrder[p][Oldest(p)] \in Windows /\ wins[p][winOrder[p][Oldest(p)]] \in runs
  <1>1. CASE p \in Mkv
    <2> DEFINE I == {i \in 1 .. Len(tabOrder[p]) : held[tables[p][tabOrder[p][i]]] > 0}
    <2>1. Oldest(p) = IF I # {} THEN Min(I) ELSE 0 BY <1>1 DEF Oldest, SelectInSeq
    <2>2. tabOrder[p] \in Seq(Windows) BY <1>1 DEF KInv, KType
    <2>3. Len(tabOrder[p]) \in Nat BY <2>2
    <2>4. I # {} => Min(I) \in I
      <3>1. I \subseteq 1 .. Len(tabOrder[p]) OBVIOUS
      <3> HIDE DEF I
      <3> QED BY <2>3, <3>1, MinIndex
    <2>5. Oldest(p) \in I BY <2>1, <2>4
    <2> QED BY <1>1, <2>2, <2>5
  <1>2. CASE p \in Mp4
    <2> DEFINE I == {i \in 1 .. Len(winOrder[p]) : wins[p][winOrder[p][i]] \in runs}
    <2>0. p \notin Mkv BY <1>2, PlansAssumption
    <2>1. Oldest(p) = IF I # {} THEN Min(I) ELSE 0 BY <2>0 DEF Oldest, SelectInSeq
    <2>2. winOrder[p] \in Seq(Windows) BY <1>2 DEF KInv, KType
    <2>3. Len(winOrder[p]) \in Nat BY <2>2
    <2>4. I # {} => Min(I) \in I
      <3>1. I \subseteq 1 .. Len(winOrder[p]) OBVIOUS
      <3> HIDE DEF I
      <3> QED BY <2>3, <3>1, MinIndex
    <2>5. Oldest(p) \in I BY <2>1, <2>4
    <2> QED BY <1>2, <2>2, <2>5
  <1> QED BY <1>1, <1>2 DEF Plans

LEMMA ServedKeeps == ASSUME KInv, NEW r \in Requests, Served(r) PROVE KInv'
  <1> USE DEF KInv
  <1>1. pc[r] = "copy" /\ Plan(r) \in Mp4 /\ Win(r) \in Windows /\ Goto(r, "returned")
    BY Asked DEF Served, Requested, Side
  <1>2. PICK p \in Mp4, n \in Windows : p = Plan(r) /\ n = Win(r) BY <1>1
  <1>3. PICK w : w = wins[p][n] /\ w \in Requests \cup {None} BY DEF KType
  <1>4. /\ \/ w \in runs /\ DropWin(p, n)
           \/ UNCHANGED <<wins, winOrder, total, held, runs>>
        /\ \/ w \in runs /\ owed' = [owed EXCEPT ![w] = owed[w] \ {Track(r)}]
           \/ owed' = owed
        /\ timers' = timers
        /\ UNCHANGED <<wants, left, from, kept, taken, resv, handle, acct, tab, keepers, visit, done, ok, panics, collected>>
    BY <1>2, <1>3 DEF Served, claim, ends, KType
  <1>5. w \in runs => w \in done BY DEF Shares, Running, KType
  <1>6. owed' \in [Requests -> SUBSET Tracks]
    <2>1. owed \in [Requests -> SUBSET Tracks] BY DEF KType
    <2>2. owed' = owed \/ owed' = [owed EXCEPT ![w] = owed[w] \ {Track(r)}] BY <1>4
    <2> HIDE DEF KInv
    <2> QED BY <2>1, <2>2
  <1>7. /\ pc' \in [Requests -> KSteps]
        /\ \A q \in Requests : pc'[q] = pc[q] \/ (Plan(q) \in Mp4 /\ pc[q] = "copy" /\ pc'[q] = "returned")
    BY <1>1 DEF Goto, KType, KSteps
  <1> QED BY <1>3, <1>4, <1>5, <1>6, <1>7, DropWinKeeps

LEMMA TTLKeeps == ASSUME KInv, NEW r \in Requests, TTL(r) PROVE KInv'
  <1> USE DEF KInv
  <1>1. r \in timers /\ r \in done /\ Plan(r) \in Mp4 /\ Win(r) \in Windows
    BY Asked DEF TTL, Shares, Timed
  <1>2. PICK p \in Mp4, n \in Windows : p = Plan(r) /\ n = Win(r) BY <1>1
  <1>4. /\ \/ wins[p][n] = r /\ DropWin(p, n)
           \/ UNCHANGED <<wins, winOrder, total, held, runs>>
        /\ owed' = owed /\ timers' = timers \ {r} /\ pc' = pc
        /\ UNCHANGED <<wants, left, from, kept, taken, resv, handle, acct, tab, keepers, visit, done, ok, panics, collected>>
    BY <1>2 DEF TTL, claim, ends
  <1>6. owed' \in [Requests -> SUBSET Tracks] /\ pc' \in [Requests -> KSteps] BY <1>4 DEF KType
  <1> QED BY <1>1, <1>4, <1>6, DropWinKeeps

LEMMA DropSharedKeeps == ASSUME KInv, NEW r \in Requests, Drop(r), Head(visit[r]) \in Mp4 PROVE KInv'
  <1> USE DEF KInv
  <1>1. PICK p \in Mp4 : p = Head(visit[r]) OBVIOUS
  <1>2. p \notin Mkv /\ p \in Plans BY PlansAssumption DEF Plans
  <1>3. Oldest(p) # 0 /\ DropWin(p, winOrder[p][Oldest(p)])
        /\ UNCHANGED <<pc, wants, left, from, kept, taken, resv, handle, acct, tab, owed, timers, keepers, visit, done, ok, panics, collected>>
    BY <1>1, <1>2 DEF Drop, ends
  <1>4. PICK n \in Windows : n = winOrder[p][Oldest(p)] /\ wins[p][n] \in runs
    BY <1>2, <1>3, OldestFound
  <1>5. wins[p][n] \in done BY <1>4 DEF Shares, Running, KType
  <1>6. DropWin(p, n) BY <1>3, <1>4
  <1>7. owed' \in [Requests -> SUBSET Tracks] /\ pc' \in [Requests -> KSteps] BY <1>3 DEF KType
  <1> QED BY <1>3, <1>5, <1>6, <1>7, DropWinKeeps

\* A read begins, and ends.
LEMMA BeginKeeps == ASSUME KInv, NEW r \in Requests, Begin(r) PROVE KInv'
  <1> USE DEF KInv, tab
  <1>1. PICK p \in Mp4, n \in Windows : p = Plan(r) /\ n = Win(r) /\ wins[p][n] = None BY Asked DEF Begin
  <1>2. /\ pc[r] = "new" /\ wins' = [wins EXCEPT ![p][n] = r]
        /\ winOrder' = [winOrder EXCEPT ![p] = Append(winOrder[p], n)]
        /\ owed' = [owed EXCEPT ![r] = Audio]
        /\ keepers' = IF p \in ToSet(keepers) THEN keepers ELSE Append(keepers, p)
        /\ UNCHANGED <<wants, left, from, kv, tab, runs, timers, visit, done, ok, panics, collected>>
    BY <1>1 DEF Begin, ends, KType
  <1>3. /\ pc'[r] = "reserve" /\ pc' \in [Requests -> KSteps]
        /\ \A q \in Requests \ {r} : pc'[q] = pc[q] \/ (Plan(q) = p /\ pc[q] = "grace" /\ pc'[q] = "new")
    <2>1. pc' = [q \in Requests |-> IF q = r THEN "reserve"
                                    ELSE IF pc[q] = "grace" /\ Plan(q) = p THEN "new" ELSE pc[q]]
      BY <1>1 DEF Begin
    <2>2. pc \in [Requests -> KSteps] BY DEF KType
    <2> HIDE DEF KInv
    <2> QED BY <2>1, <2>2 DEF KSteps
  <1>4. \A q \in Requests : Plan(q)' = Plan(q) /\ Win(q)' = Win(q) /\ Need(q)' = Need(q) BY <1>2, SameAsked
  <1>5. KType'
    <2>1. winOrder' \in [Mp4 -> Seq(Windows)]
      <3>1. Append(winOrder[p], n) \in Seq(Windows) BY AppendProperties DEF KType
      <3>2. winOrder \in [Mp4 -> Seq(Windows)] BY DEF KType
      <3> HIDE DEF KInv
      <3> QED BY <1>2, <3>1, <3>2
    <2>2. wins' \in [Mp4 -> [Windows -> Requests \cup {None}]]
      <3>1. wins \in [Mp4 -> [Windows -> Requests \cup {None}]] BY DEF KType
      <3> HIDE DEF KInv
      <3> QED BY <1>2, <3>1
    <2>3. keepers' \in Seq(Plans)
      <3>1. keepers \in Seq(Plans) /\ p \in Plans BY DEF KType, Plans
      <3> HIDE DEF KInv
      <3> QED BY <1>2, <3>1, AppendProperties
    <2>4. owed' \in [Requests -> SUBSET Tracks]
      <3>1. owed \in [Requests -> SUBSET Tracks] /\ Audio \in SUBSET Tracks BY DEF KType, Tracks
      <3> HIDE DEF KInv
      <3> QED BY <1>2, <3>1
    <2> QED BY <1>2, <1>3, <2>1, <2>2, <2>3, <2>4 DEF KType, kv
  <1>6. /\ Tabs' /\ TabAges' /\ Accounts' /\ Rooms'
        /\ \A q \in Requests : Source(q)' /\ Wanted(q)'
        /\ \A q \in Requests : Plan(q) \in Mkv =>
             (Side(q) /\ Visiting(q) /\ Ended(q) /\ Gone(q) /\ Reserved(q) /\ Handled(q))'
    <2>1. \A q \in Requests : Plan(q) \in Mkv => pc'[q] = pc[q] BY <1>1, <1>3, PlansAssumption
    <2> QED BY <1>2, <2>1, MkvSame DEF kv
  <1>7. Requested'
    <2>1. (Side(r) /\ Visiting(r) /\ Ended(r) /\ Gone(r) /\ Reserved(r) /\ Handled(r))'
      BY <1>2, <1>3, <1>4 DEF Requested, Side, Visiting, Ended, Gone, Reserved, Handled, Built, kv
    <2>2. ASSUME NEW q \in Requests \ {r}, Plan(q) \in Mp4
          PROVE  (Side(q) /\ Visiting(q) /\ Ended(q) /\ Gone(q) /\ Reserved(q) /\ Handled(q))'
      <3>1. pc'[q] = pc[q] \/ (pc[q] = "grace" /\ pc'[q] = "new") BY <1>3
      <3> QED BY <1>2, <1>4, <2>2, <3>1 DEF Requested, Side, Visiting, Ended, Gone, Reserved, Handled, Built, kv
    <2>3. \A q \in Requests : Plan(q) \in Mkv \cup Mp4 BY Asked
    <2> QED BY <1>6, <2>1, <2>2, <2>3 DEF Requested
  <1>8. \A q \in Requests \ {r} : pc'[q] \in Building <=> pc[q] \in Building BY <1>3 DEF Building
  <1>9. \A o \in Mp4, m \in Windows : wins'[o][m] = IF o = p /\ m = n THEN r ELSE wins[o][m]
    <2>1. wins \in [Mp4 -> [Windows -> Requests \cup {None}]] BY DEF KType
    <2> HIDE DEF KInv
    <2> QED BY <1>2, <2>1
  <1>10. Shares'
    <2>1. ASSUME NEW o \in Mp4, NEW m \in Windows PROVE Shared(o, m)'
      <3>1. CASE o = p /\ m = n BY <1>1, <1>3, <1>4, <1>9, <3>1 DEF Shared, Building
      <3>2. CASE ~ (o = p /\ m = n)
        <4>1. wins'[o][m] = wins[o][m] /\ wins[o][m] \in Requests \cup {None} BY <1>9, <3>2 DEF KType
        <4>2. \A v \in Requests : pc[v] \in Building => pc'[v] \in Building
          BY <1>2, <1>8 DEF Building
        <4> QED BY <1>2, <1>4, <4>1, <4>2 DEF Shares, Shared
      <3> QED BY <3>1, <3>2
    <2>2. ASSUME NEW q \in Requests PROVE (Reading(q) /\ Running(q) /\ Timed(q) /\ Lent(q))'
      <3>1. Plan(q) \in Mp4 /\ wins[Plan(q)][Win(q)] = q => wins'[Plan(q)][Win(q)] = q
        BY <1>1, <1>9, Asked, PlansAssumption
      <3>2. (Reading(q))'
        <4>1. q = r => wins'[Plan(q)][Win(q)] = q BY <1>1, <1>9
        <4> QED BY <1>4, <1>8, <3>1, <4>1 DEF Shares, Reading
      <3>3. (Running(q) /\ Timed(q) /\ Lent(q))' BY <1>2, <1>4, <3>1 DEF Shares, Running, Timed, Lent, kv
      <3> QED BY <3>2, <3>3
    <2> QED BY <2>1, <2>2 DEF Shares
  <1>11. Totals' BY <1>2, SumsSame DEF kv
  <1> QED BY <1>5, <1>6, <1>7, <1>10, <1>11

LEMMA ReadOverKeeps == ASSUME KInv, NEW r \in Requests, Unshared(r) \/ Read(r) PROVE KInv'
  <1> USE DEF KInv, tab
  <1>1. PICK p \in Mp4, n \in Windows : p = Plan(r) /\ n = Win(r)
    BY Asked DEF Unshared, Read, ReadFails, ReadEnds
  <1>2. /\ pc[r] = "walk" /\ Goto(r, "returned") /\ done' = done \cup {r} /\ resv' = [resv EXCEPT ![r] = 0]
        /\ UNCHANGED <<wants, left, from, kept, taken, handle, acct, tab, owed, keepers, visit, ok, panics, collected>>
    BY DEF Unshared, Read, ReadFails, ReadEnds, EndForgotten, claim
  <1>3. \/ /\ wins' = [wins EXCEPT ![p][n] = None] /\ winOrder' = [winOrder EXCEPT ![p] = RemoveFirst(winOrder[p], n)]
           /\ total' = total - resv[r] /\ UNCHANGED <<held, runs, timers>>
        \/ /\ runs' = runs \cup {r} /\ timers' = timers \cup {r} /\ held' = [held EXCEPT ![r] = resv[r]]
           /\ UNCHANGED <<wins, winOrder, total>>
    BY <1>1 DEF Unshared, Read, ReadFails, ReadEnds, EndForgotten, KType
  <1>4. r \notin done /\ r \notin runs /\ r \notin timers /\ held[r] = 0 /\ wins[p][n] = r /\ handle[r] = 0
    <2>1. r \notin done BY <1>2 DEF Requested, Ended, Built
    <2>2. r \notin runs /\ r \notin timers BY <2>1 DEF Shares, Running, Timed
    <2>3. held[r] = 0 /\ wins[p][n] = r BY <1>1, <1>2, <2>2 DEF Shares, Lent, Reading, Building
    <2>4. handle[r] = 0 BY <1>2 DEF Requested, Handled
    <2> QED BY <2>1, <2>2, <2>3, <2>4
  <1>5. \A q \in Requests : Plan(q)' = Plan(q) /\ Win(q)' = Win(q) /\ Need(q)' = Need(q) BY <1>2, SameAsked
  <1>6. /\ pc' \in [Requests -> KSteps] /\ pc'[r] = "returned" /\ \A q \in Requests \ {r} : pc'[q] = pc[q]
        /\ resv' \in [Requests -> Nat] /\ held' \in [Requests -> Nat]
        /\ resv'[r] = 0 /\ \A q \in Requests \ {r} : resv'[q] = resv[q] /\ held'[q] = held[q]
    <2>1. pc \in [Requests -> KSteps] /\ resv \in [Requests -> Nat] /\ held \in [Requests -> Nat] BY DEF KType
    <2>2. resv[r] \in Nat BY <2>1
    <2> HIDE DEF KInv
    <2> QED BY <1>2, <1>3, <2>1, <2>2 DEF Goto, KSteps
  <1>7. KType'
    <2>1. winOrder' \in [Mp4 -> Seq(Windows)] /\ wins' \in [Mp4 -> [Windows -> Requests \cup {None}]]
      <3>1. RemoveFirst(winOrder[p], n) \in Seq(Windows) BY RemoveType DEF KType
      <3>2. winOrder \in [Mp4 -> Seq(Windows)] /\ wins \in [Mp4 -> [Windows -> Requests \cup {None}]] BY DEF KType
      <3>3. \/ UNCHANGED <<wins, winOrder>>
            \/ wins' = [wins EXCEPT ![p][n] = None] /\ winOrder' = [winOrder EXCEPT ![p] = RemoveFirst(winOrder[p], n)]
        BY <1>3
      <3> HIDE DEF KInv
      <3>4. winOrder' \in [Mp4 -> Seq(Windows)] BY <3>1, <3>2, <3>3
      <3>5. wins' \in [Mp4 -> [Windows -> Requests \cup {None}]]
        <4>1. wins' = wins \/ wins' = [wins EXCEPT ![p][n] = None] BY <3>3
        <4>2. wins \in [Mp4 -> [Windows -> Requests \cup {None}]] BY <3>2
        <4> QED BY <4>1, <4>2
      <3> QED BY <3>4, <3>5
    <2>2. total' \in Int BY <1>3 DEF KType
    <2>3. done' \in SUBSET Requests /\ runs' \in SUBSET Requests /\ timers' \in SUBSET Requests BY <1>2, <1>3 DEF KType
    <2> QED BY <1>2, <1>6, <2>1, <2>2, <2>3 DEF KType
  <1>8. /\ Tabs' /\ TabAges' /\ Accounts' /\ Rooms'
        /\ \A q \in Requests : Source(q)' /\ Wanted(q)'
        /\ \A q \in Requests : Plan(q) \in Mkv =>
             (Side(q) /\ Visiting(q) /\ Ended(q) /\ Gone(q) /\ Reserved(q) /\ Handled(q))'
    <2>1. \A q \in Requests : Plan(q) \in Mkv => q # r BY <1>1, PlansAssumption
    <2> QED BY <1>2, <1>6, <2>1, MkvSame
  <1>9. Requested'
    <2>1. (Side(r) /\ Visiting(r) /\ Ended(r) /\ Gone(r) /\ Reserved(r) /\ Handled(r))'
      BY <1>1, <1>2, <1>4, <1>5, <1>6, PlansAssumption
      DEF Requested, Side, Visiting, Ended, Gone, Reserved, Handled, Built
    <2>2. \A q \in Requests \ {r} : (Side(q) /\ Visiting(q) /\ Ended(q) /\ Gone(q) /\ Reserved(q) /\ Handled(q))'
      BY <1>2, <1>5, <1>6 DEF Requested, Side, Visiting, Ended, Gone, Reserved, Handled
    <2> QED BY <1>8, <2>1, <2>2 DEF Requested
  <1>10. \/ \A o \in Mp4, m \in Windows : wins'[o][m] = IF o = p /\ m = n THEN None ELSE wins[o][m]
         \/ UNCHANGED wins /\ r \in runs'
    <2>1. wins \in [Mp4 -> [Windows -> Requests \cup {None}]] BY DEF KType
    <2> HIDE DEF KInv
    <2> QED BY <1>3, <2>1
  <1>11. Shares'
    <2>1. ASSUME NEW o \in Mp4, NEW m \in Windows PROVE Shared(o, m)'
      <3>1. CASE wins'[o][m] = None BY <3>1 DEF Shared
      <3>2. CASE wins'[o][m] # None
        <4>1. PICK v \in Requests : v = wins[o][m] /\ wins'[o][m] = v BY <1>10, <3>2 DEF KType
        <4>2. Plan(v) = o /\ Win(v) = m /\ (v \in runs \/ pc[v] \in Building) BY <1>10, <3>2, <4>1 DEF Shares, Shared
        <4>3. v = r => r \in runs' BY <1>1, <1>10, <3>2, <4>1, <4>2
        <4>4. v # r => pc'[v] = pc[v] BY <1>6
        <4>5. v \in runs => v \in runs' BY <1>3
        <4> QED BY <1>5, <4>1, <4>2, <4>3, <4>4, <4>5 DEF Shared
      <3> QED BY <3>1, <3>2
    <2>2. ASSUME NEW q \in Requests PROVE (Reading(q) /\ Running(q) /\ Timed(q) /\ Lent(q))'
      <3>1. CASE q = r
        <4>1. r \in runs' => UNCHANGED wins /\ r \in done' BY <1>2, <1>3, <1>4
        <4>2. r \in timers' => r \in done' BY <1>2
        <4>3. held'[r] # 0 => r \in runs' BY <1>3, <1>4
        <4> QED BY <1>1, <1>4, <1>5, <1>6, <3>1, <4>1, <4>2, <4>3 DEF Reading, Running, Timed, Lent, Building
      <3>2. CASE q # r
        <4>1. Plan(q) \in Mp4 /\ wins[Plan(q)][Win(q)] = q => wins'[Plan(q)][Win(q)] = q
          BY <1>4, <1>10, <3>2, Asked
        <4>2. (q \in runs' <=> q \in runs) /\ (q \in timers' <=> q \in timers) BY <1>3, <3>2
        <4>3. pc'[q] = pc[q] /\ held'[q] = held[q] BY <1>6, <3>2
        <4> QED BY <1>2, <1>5, <4>1, <4>2, <4>3 DEF Shares, Reading, Running, Timed, Lent
      <3> QED BY <3>1, <3>2
    <2> QED BY <2>1, <2>2 DEF Shares
  <1>12. Totals'
    <2>1. \A q \in Requests \ {r} : handle'[q] = handle[q] BY <1>2
    <2>2. handle' \in [Requests -> Nat] BY <1>2 DEF KType
    <2>3. Owned' = Owned - resv[r] - held[r] - handle[r] + resv'[r] + held'[r] + handle'[r] /\ Owned \in Nat
      BY <1>6, <2>1, <2>2, OwnedChange
    <2>4. resv[r] \in Nat /\ total \in Int BY DEF KType
    <2>5. Owned' = Owned - resv[r] + held'[r] BY <1>2, <1>4, <1>6, <2>3, <2>4
    <2>6. \/ held'[r] = 0 /\ total' = total - resv[r]
          \/ held'[r] = resv[r] /\ total' = total
      BY <1>3, <1>4 DEF KType
    <2>7. total' \in Int /\ total' <= total /\ resv' = [resv EXCEPT ![r] = 0] BY <1>2, <1>3, <2>4, <2>6
    <2>8. Bounded' BY <2>7, Falls DEF Totals
    <2> QED BY <1>2, <2>3, <2>4, <2>5, <2>6, <2>8 DEF Totals
  <1> QED BY <1>7, <1>8, <1>9, <1>11, <1>12

-----------------------------------------------------------------------------
(* The tables of a Matroska plan.                                          *)

LEMMA TableBytesType ==
    ASSUME KType, NEW p \in Mkv, NEW n \in Windows
    PROVE  /\ TableBytes(p)[n] \in Nat
           /\ TableBytes(p)[n] = IF tables[p][n] = None THEN 0 ELSE held[tables[p][n]]
  <1>1. TableBytes(p)[n] = IF tables[p][n] = None THEN 0 ELSE held[tables[p][n]] BY DEF TableBytes
  <1>2. tables[p][n] \in Requests \cup {None} BY DEF KType
  <1>3. \A f \in Requests : held[f] \in Nat BY DEF KType
  <1> QED BY <1>1, <1>2, <1>3

\* The other plans' accounts stand: a table belongs to one plan.
LEMMA AccountKeeps ==
    ASSUME KInv, NEW p \in Mkv, \A q \in Mkv \ {p} : acct'[q] = acct[q] /\ tables'[q] = tables[q],
           \A f \in Requests : Plan(f) # p => held'[f] = held[f],
           acct'[p] = SumFunctionOnSet(TableBytes(p)', Windows)
    PROVE  Accounts'
  <1> USE DEF KInv
  <1>1. ASSUME NEW q \in Mkv \ {p} PROVE TableBytes(q)' = TableBytes(q)
    <2>1. \A n \in Windows : tables[q][n] # None => held'[tables[q][n]] = held[tables[q][n]]
      BY DEF Tabs, Tabled, KType
    <2> QED BY <2>1 DEF TableBytes
  <1> QED BY <1>1 DEF Accounts

\* One table of a plan keeps less.
LEMMA TableShrinks ==
    ASSUME KInv, UNCHANGED tables, held' \in [Requests -> Nat], NEW p \in Mkv, NEW n \in Windows, NEW f \in Requests,
           tables[p][n] = f, \A q \in Requests \ {f} : held'[q] = held[q],
           \A q \in Mkv \ {p} : acct'[q] = acct[q], acct'[p] = acct[p] - held[f] + held'[f]
    PROVE  Accounts'
  <1> USE DEF KInv
  <1>1. Plan(f) = p /\ Win(f) = n /\ f # None BY PlansAssumption DEF Tabs, Tabled
  <1>2. PICK g, h : g = TableBytes(p) /\ h = TableBytes(p)' OBVIOUS
  <1>3. \A m \in Windows : g[m] \in Nat BY <1>2, TableBytesType
  <1>4. \A m \in Windows \ {n} : h[m] = g[m]
    <2>1. \A m \in Windows \ {n} : tables[p][m] # None => tables[p][m] \in Requests \ {f}
      BY <1>1 DEF Tabs, Tabled, KType
    <2> QED BY <1>2, <2>1 DEF TableBytes
  <1>5. g[n] = held[f] /\ h[n] = held'[f] /\ h[n] \in Nat BY <1>1, <1>2 DEF TableBytes
  <1>6. \A m \in Windows : g[m] \in Int /\ h[m] \in Int BY <1>3, <1>4, <1>5
  <1>7. \A m \in Windows \ {n} : g[m] = h[m] BY <1>4
  <1>8. SumFunctionOnSet(h, Windows) = SumFunctionOnSet(g, Windows) - g[n] + h[n]
    BY <1>6, <1>7, Finite, SumChange
  <1>9. acct'[p] = SumFunctionOnSet(TableBytes(p)', Windows)
    <2>1. acct[p] = SumFunctionOnSet(g, Windows) BY <1>2 DEF Accounts
    <2> QED BY <1>2, <1>5, <1>8, <2>1
  <1> QED BY <1>1, <1>9, AccountKeeps

\* The oldest kept window of a plan is taken back.
LEMMA DropTableKeeps == ASSUME KInv, NEW r \in Requests, Drop(r), Head(visit[r]) \in Mkv PROVE KInv'
  <1> USE DEF KInv, tab
  <1>1. PICK p \in Mkv : p = Head(visit[r]) OBVIOUS
  <1>2. p \in Plans /\ p \notin Mp4 BY PlansAssumption DEF Plans
  <1>3. Oldest(p) # 0 /\ DropKept(p, {tables[p][tabOrder[p][Oldest(p)]]})
        /\ UNCHANGED <<pc, wants, left, from, taken, resv, handle, tab, share, keepers, visit, done, ok, panics, collected>>
    BY <1>1, <1>2 DEF Drop, ends
  <1>4. PICK n \in Windows : n = tabOrder[p][Oldest(p)] /\ tables[p][n] # None
    <2>1. Oldest(p) \in 1 .. Len(tabOrder[p]) /\ tabOrder[p][Oldest(p)] \in Windows BY <1>2, <1>3, OldestFound
    <2>2. tabOrder[p][Oldest(p)] \in ToSet(tabOrder[p]) BY <2>1 DEF ToSet, KType
    <2> QED BY <2>1, <2>2 DEF TabAges
  <1>5. PICK f \in Requests : f = tables[p][n] BY <1>4 DEF KType
  <1>6. Plan(f) = p /\ f # None BY <1>4, <1>5 DEF Tabs, Tabled
  <1>7. held \in [Requests -> Nat] /\ kept \in [Requests -> SUBSET Tracks] /\ acct \in [Mkv -> Int] /\ held[f] \in Nat
    BY DEF KType
  <1>8. /\ kept' = [q \in Requests |-> IF q = f THEN {} ELSE kept[q]]
        /\ held' = [q \in Requests |-> IF q = f THEN 0 ELSE held[q]]
        /\ acct' = [acct EXCEPT ![p] = acct[p] - held[f]] /\ total' = total - held[f]
    <2>1. SumFunctionOnSet(held, {f}) = held[f] BY <1>7, SumOne
    <2> QED BY <1>3, <1>4, <1>5, <1>7, <2>1 DEF DropKept
  <1>9. /\ held' \in [Requests -> Nat] /\ kept' \in [Requests -> SUBSET Tracks] /\ acct' \in [Mkv -> Int]
        /\ held'[f] = 0 /\ acct'[p] = acct[p] - held[f] + held'[f]
        /\ \A q \in Requests \ {f} : held'[q] = held[q] /\ kept'[q] = kept[q]
        /\ \A q \in Mkv \ {p} : acct'[q] = acct[q]
    BY <1>7, <1>8
  <1>10. KType'
    <2>1. total' \in Int BY <1>7, <1>8 DEF KType
    <2> QED BY <1>3, <1>9, <2>1 DEF KType, share
  <1>11. \A q \in Requests : Plan(q)' = Plan(q) /\ Win(q)' = Win(q) /\ Need(q)' = Need(q) BY <1>3, SameAsked
  <1>12. Requested'
    BY <1>3, <1>11 DEF Requested, Side, Visiting, Ended, Gone, Source, Wanted, Reserved, Handled
  <1>13. Tabs'
    <2>1. \A q \in Mkv : \A m \in Windows : (Flown(q, m) /\ Tabled(q, m))'
      BY <1>3, <1>11 DEF Tabs, Flown, Tabled, KType
    <2>2. \A q \in Requests \ {f} : (Placed(q) /\ Weighed(q))' BY <1>3, <1>9, <1>11 DEF Tabs, Placed, Weighed
    <2>3. (Placed(f) /\ Weighed(f))'
      <3>1. kept'[f] = {} BY <1>8
      <3> QED BY <1>9, <3>1, Sizes DEF Placed, Weighed
    <2> QED BY <2>1, <2>2, <2>3 DEF Tabs
  <1>14. Shares'
    <2>1. \A q \in Requests : Plan(q) \in Mp4 => held'[q] = held[q] BY <1>2, <1>6, <1>9
    <2> QED BY <1>3, <2>1, Mp4Same DEF share
  <1>15. Accounts' BY <1>3, <1>5, <1>9, TableShrinks
  <1>16. TabAges' /\ Rooms' BY <1>3 DEF TabAges, Rooms
  <1>17. Totals'
    <2>1. resv' \in [Requests -> Nat] /\ handle' \in [Requests -> Nat] BY <1>3 DEF KType
    <2>2. \A q \in Requests \ {f} : resv'[q] = resv[q] /\ held'[q] = held[q] /\ handle'[q] = handle[q] BY <1>3, <1>9
    <2>3. Owned' = Owned - resv[f] - held[f] - handle[f] + resv'[f] + held'[f] + handle'[f] /\ Owned \in Nat
      BY <1>9, <2>1, <2>2, OwnedChange
    <2>4. resv[f] \in Nat /\ handle[f] \in Nat /\ resv'[f] = resv[f] /\ handle'[f] = handle[f] /\ total \in Int
      BY <1>3 DEF KType
    <2>5. Owned' = Owned - held[f] BY <1>7, <1>9, <2>3, <2>4
    <2>6. total' \in Int /\ total' <= total /\ resv' = resv BY <1>3, <1>7, <1>8, <2>4
    <2>7. Bounded' BY <2>6, Falls DEF Totals
    <2> QED BY <1>3, <1>7, <1>8, <2>3, <2>4, <2>5, <2>7 DEF Totals
  <1> QED BY <1>10, <1>12, <1>13, <1>14, <1>15, <1>16, <1>17

\* A step of a table's builder, or of a request that takes from one, past the walk.
LEMMA OwnStep ==
    ASSUME KInv, NEW r \in Requests, Plan(r) \in Mkv, NEW s \in {"publish", "take", "writing", "returned"}, Goto(r, s),
           pc[r] \in {"walk", "publish", "take"}, s = "publish" => pc[r] = "walk", s = "take" => pc[r] = "publish",
           UNCHANGED <<wants, cancelled, from, visit, collected, share>>,
           done' = done \/ (done' = done \cup {r} /\ pc[r] = "publish"),
           s = "publish" => done' = done,
           resv' \in [Requests -> Nat], handle' \in [Requests -> Nat],
           \A q \in Requests \ {r} : resv'[q] = resv[q] /\ handle'[q] = handle[q],
           resv'[r] = 0, handle'[r] = 0 \/ s = "writing",
           \A q \in Requests : Plan(q) \in Mp4 => held'[q] = held[q]
    PROVE  /\ Requested' /\ Shares' /\ pc' \in [Requests -> KSteps] /\ pc'[r] = s
           /\ \A q \in Requests \ {r} : pc'[q] = pc[q]
           /\ \A q \in Requests : pc[q] \in Built => pc'[q] \in Built
           /\ \A q \in Requests : Plan(q)' = Plan(q) /\ Win(q)' = Win(q)
  <1> USE DEF KInv
  <1>1. pc' \in [Requests -> KSteps] /\ pc'[r] = s /\ \A q \in Requests \ {r} : pc'[q] = pc[q]
    BY DEF Goto, KType, KSteps
  <1>2. \A q \in Requests : Plan(q)' = Plan(q) /\ Win(q)' = Win(q) /\ Need(q)' = Need(q) BY SameAsked
  <1>3. \A q \in Requests : pc[q] \in Built => pc'[q] \in Built BY <1>1 DEF Built
  <1>4. /\ Shares'
        /\ \A q \in Requests : Wanted(q)'
        /\ \A q \in Requests : Plan(q) \in Mp4 =>
             (Side(q) /\ Visiting(q) /\ Ended(q) /\ Gone(q) /\ Source(q) /\ Reserved(q) /\ Handled(q))'
    <2>1. \A q \in Requests : Plan(q) \in Mp4 => q # r BY PlansAssumption
    <2> QED BY <1>1, <2>1, Mp4Same DEF share
  <1>5. ASSUME NEW q \in Requests \ {r}, Plan(q) \in Mkv
        PROVE  (Side(q) /\ Visiting(q) /\ Ended(q) /\ Gone(q) /\ Source(q) /\ Reserved(q) /\ Handled(q))'
    <2>1. (Side(q) /\ Visiting(q) /\ Ended(q) /\ Gone(q) /\ Reserved(q) /\ Handled(q))'
      BY <1>1, <1>2 DEF Requested, Side, Visiting, Ended, Gone, Reserved, Handled
    <2>2. Source(q)'
      <3>1. pc'[q] = pc[q] /\ from'[q] = from[q] /\ Source(q) BY <1>1 DEF Requested
      <3> QED BY <1>2, <1>3, <3>1 DEF Source
    <2> QED BY <2>1, <2>2
  <1>6. (Side(r) /\ Visiting(r) /\ Ended(r) /\ Gone(r) /\ Source(r) /\ Reserved(r) /\ Handled(r))'
    <2>1. (Side(r) /\ Visiting(r) /\ Gone(r) /\ Reserved(r) /\ Handled(r))'
      BY <1>1, <1>2, PlansAssumption DEF Requested, Side, Visiting, Gone, Reserved, Handled
    <2>2. Ended(r)'
      <3>1. s = "publish" => r \notin done BY DEF Requested, Ended, Built
      <3> QED BY <1>1, <3>1 DEF Ended, Built
    <2>3. Source(r)'
      <3>1. s \in {"publish", "take"} => from'[r] = r BY DEF Requested, Source, Building
      <3> QED BY <1>1, <1>2, <3>1 DEF Source, Building, Built
    <2> QED BY <2>1, <2>2, <2>3
  <1>7. \A q \in Requests : Plan(q) \in Mkv \cup Mp4 BY Asked
  <1>8. Requested' BY <1>4, <1>5, <1>6, <1>7 DEF Requested
  <1> QED BY <1>1, <1>2, <1>3, <1>4, <1>8

LEMMA WalkEndsKeeps == ASSUME KInv, NEW r \in Requests, WalkEnds(r) PROVE KInv'
  <1> USE DEF KInv, claim, tab
  <1>1. PICK ts \in {Tracks, {}} :
           /\ ts = IF resv[r] > 0 THEN Tracks ELSE {}
           /\ kept' = [kept EXCEPT ![r] = ts] /\ held' = [held EXCEPT ![r] = SizeOf(ts)]
           /\ resv' = [resv EXCEPT ![r] = 0] /\ total' = total - resv[r] + SizeOf(ts)
    BY DEF WalkEnds
  <1>2. /\ pc[r] = "walk" /\ Plan(r) \in Mkv /\ Goto(r, "publish") /\ ok' = ok \cup {r}
        /\ UNCHANGED <<wants, left, from, taken, handle, acct, tab, share, keepers, visit, done, panics, collected>>
    BY DEF WalkEnds
  <1>3. PICK v : v = SizeOf(ts) /\ v \in Nat /\ v <= SizeOf(Tracks) /\ (resv[r] = 0 => v = 0)
    <2>1. ts \in SUBSET Tracks /\ resv[r] \in Nat BY DEF KType
    <2>2. SizeOf(ts) \in Nat /\ SizeOf(ts) <= SizeOf(Tracks) /\ SizeOf({}) = 0 BY <2>1, Sizes
    <2>3. resv[r] = 0 => ts = {} BY <1>1
    <2> QED BY <2>2, <2>3
  <1>4. \A p \in Mkv : \A n \in Windows : tables[p][n] # r
    BY <1>2, PlansAssumption DEF Tabs, Tabled, Built
  <1>5. held[r] = 0 /\ handle[r] = 0
    <2>1. Win(r) \in Windows BY Asked
    <2> QED BY <1>2, <1>4, <2>1 DEF Tabs, Placed, Requested, Handled
  <1>6. /\ resv' \in [Requests -> Nat] /\ handle' \in [Requests -> Nat] /\ held' \in [Requests -> Nat]
        /\ kept' \in [Requests -> SUBSET Tracks]
        /\ resv'[r] = 0 /\ handle'[r] = 0 /\ held'[r] = v /\ kept'[r] = ts
        /\ \A q \in Requests \ {r} : /\ resv'[q] = resv[q] /\ handle'[q] = handle[q] /\ held'[q] = held[q]
                                     /\ kept'[q] = kept[q]
    <2>1. resv \in [Requests -> Nat] /\ handle \in [Requests -> Nat] /\ held \in [Requests -> Nat] BY DEF KType
    <2>2. kept \in [Requests -> SUBSET Tracks] /\ ts \in SUBSET Tracks BY DEF KType
    <2>3. handle' = handle BY <1>2
    <2>4. handle[r] = 0 BY <1>5
    <2> HIDE DEF KInv
    <2>5. held' = [held EXCEPT ![r] = v] BY <1>1, <1>3
    <2>6. resv' = [resv EXCEPT ![r] = 0] /\ kept' = [kept EXCEPT ![r] = ts] BY <1>1
    <2> QED BY <1>3, <2>1, <2>2, <2>3, <2>4, <2>5, <2>6
  <1>7. /\ Requested' /\ Shares' /\ pc' \in [Requests -> KSteps] /\ pc'[r] = "publish"
        /\ \A q \in Requests \ {r} : pc'[q] = pc[q]
        /\ \A q \in Requests : pc[q] \in Built => pc'[q] \in Built
        /\ \A q \in Requests : Plan(q)' = Plan(q) /\ Win(q)' = Win(q)
    <2>1. \A q \in Requests : Plan(q) \in Mp4 => held'[q] = held[q] BY <1>2, <1>6, PlansAssumption
    <2> QED BY <1>2, <1>6, <2>1, OwnStep
  <1>8. KType'
    <2>1. total' \in Int BY <1>1, <1>3 DEF KType
    <2> QED BY <1>2, <1>6, <1>7, <2>1 DEF KType, share
  <1>9. Tabs'
    <2>1. \A q \in Mkv : \A m \in Windows : (Flown(q, m) /\ Tabled(q, m))'
      BY <1>2, <1>7 DEF Tabs, Flown, Tabled, KType
    <2>2. \A q \in Requests \ {r} : (Placed(q) /\ Weighed(q))' BY <1>2, <1>6, <1>7 DEF Tabs, Placed, Weighed
    <2>3. (Placed(r) /\ Weighed(r))' BY <1>2, <1>3, <1>6, <1>7 DEF Placed, Weighed
    <2> QED BY <2>1, <2>2, <2>3 DEF Tabs
  <1>10. TabAges' /\ Rooms' BY <1>2 DEF TabAges, Rooms
  <1>11. Accounts'
    <2>1. ASSUME NEW p \in Mkv PROVE TableBytes(p)' = TableBytes(p)
      <3>1. \A n \in Windows : tables[p][n] # None => tables[p][n] \in Requests \ {r} BY <1>4 DEF KType
      <3> QED BY <1>2, <1>6, <3>1 DEF TableBytes
    <2> QED BY <1>2, <2>1 DEF Accounts
  <1>12. Totals'
    <2>1. Owned' = Owned - resv[r] - held[r] - handle[r] + resv'[r] + held'[r] + handle'[r] /\ Owned \in Nat
      BY <1>6, OwnedChange
    <2>2. resv[r] \in Nat /\ total \in Int BY DEF KType
    <2>3. Owned' = Owned - resv[r] + v BY <1>3, <1>5, <1>6, <2>1, <2>2
    <2>4. total' = total - resv[r] + v BY <1>1, <1>3
    <2>5. Bounded'
      <3>1. CASE resv[r] = 0
        <4>1. total' \in Int /\ total' <= total BY <1>3, <2>2, <2>4, <3>1
        <4> QED BY <1>1, <4>1, Falls DEF Totals
      <3>2. CASE resv[r] # 0
        <4>1. resv[r] = Span[Win(r)] BY <1>2, <3>2 DEF Requested, Reserved, Need
        <4>2. SumFunctionOnSet(resv', Requests) = SumFunctionOnSet(resv, Requests) - resv[r]
          <5>1. SumFunctionOnSet(resv', Requests) = SumFunctionOnSet(resv, Requests) - resv[r] + resv'[r]
            <6>1. resv \in [Requests -> Nat] BY DEF KType
            <6> QED BY <1>6, <6>1, SharesChange
          <5> QED BY <1>6, <2>2, <5>1, SumTypes
        <4> QED BY <1>2, <1>3, <2>2, <2>4, <4>1, <4>2, Weighs DEF Totals
      <3> QED BY <3>1, <3>2
    <2> QED BY <1>1, <1>2, <1>3, <2>1, <2>2, <2>3, <2>4, <2>5 DEF Totals
  <1> QED BY <1>7, <1>8, <1>9, <1>10, <1>11, <1>12

\* takeKept: the table stands where its plan's account counts it.
LEMMA TakeKeeps == ASSUME KInv, NEW r \in Requests, Take(r) PROVE KInv'
  <1> USE DEF KInv, tab
  <1>1. pc[r] = "take" /\ Plan(r) \in Mkv /\ Track(r) \in Tracks /\ Win(r) \in Windows
    BY Asked DEF Take, Requested, Side
  <1>2. PICK p \in Mkv, n \in Windows, t \in Tracks : p = Plan(r) /\ n = Win(r) /\ t = Track(r) BY <1>1
  <1>3. PICK f \in Requests : f = from[r] /\ Plan(f) = p /\ Win(f) = n /\ pc[f] \in Built
    BY <1>1, <1>2 DEF Requested, Source
  <1>4. p \notin collected BY <1>1, <1>2 DEF Requested, Gone
  <1>5. PICK ks, z : ks = kept[f] \ {t} /\ z = Size[t] OBVIOUS
  <1>6. PICK rest : rest = IF KeptConsumed(ks, taken[f] \cup {t}) THEN held[f] - z ELSE 0 OBVIOUS
  <1>7. /\ t \in kept[f] /\ Goto(r, "writing")
        /\ taken' = [taken EXCEPT ![f] = taken[f] \cup {t}]
        /\ kept' = [kept EXCEPT ![f] = IF rest > 0 THEN {} ELSE ks]
        /\ held' = [held EXCEPT ![f] = held[f] - z - rest]
        /\ acct' = [acct EXCEPT ![p] = acct[p] - rest - IF tables[p][n] = f THEN z ELSE 0]
        /\ total' = total - rest
        /\ handle' = [handle EXCEPT ![r] = z]
        /\ UNCHANGED <<wants, left, from, resv, tab, share, keepers, visit, done, ok, panics, collected>>
    BY <1>2, <1>3, <1>5, <1>6 DEF Take, claim, ends, KType
  <1>8. /\ held[f] = SizeOf(kept[f]) /\ held[f] = z + SizeOf(ks) /\ z \in Nat \ {0} /\ SizeOf(ks) \in Nat /\ SizeOf({}) = 0
    <2>1. kept[f] \in SUBSET Tracks BY DEF KType
    <2>2. held[f] = SizeOf(kept[f]) BY <1>3, <1>4 DEF Tabs, Weighed
    <2> QED BY <1>5, <1>7, <2>1, <2>2, Sizes
  <1>9. rest \in Nat /\ (rest = 0 \/ rest = SizeOf(ks)) BY <1>6, <1>8
  <1>10. tables[p][n] = f
    <2>1. held[f] # 0 BY <1>8
    <2> QED BY <1>3, <2>1 DEF Tabs, Placed, Built
  <1>11. handle[r] = 0 /\ resv[r] = 0 BY <1>1 DEF Requested, Handled, Reserved
  <1>12. /\ held' \in [Requests -> Nat] /\ handle' \in [Requests -> Nat] /\ kept' \in [Requests -> SUBSET Tracks]
         /\ taken' \in [Requests -> SUBSET Tracks] /\ acct' \in [Mkv -> Int]
         /\ held'[f] = held[f] - z - rest /\ handle'[r] = z /\ kept'[f] = IF rest > 0 THEN {} ELSE ks
         /\ \A q \in Requests \ {f} : held'[q] = held[q] /\ kept'[q] = kept[q]
         /\ \A q \in Requests \ {r} : handle'[q] = handle[q]
         /\ acct'[p] = acct[p] - rest - z /\ \A q \in Mkv \ {p} : acct'[q] = acct[q]
    <2>1. held \in [Requests -> Nat] /\ handle \in [Requests -> Nat] BY DEF KType
    <2>2. kept \in [Requests -> SUBSET Tracks] /\ taken \in [Requests -> SUBSET Tracks] /\ ks \in SUBSET Tracks
      BY <1>5 DEF KType
    <2>3. acct \in [Mkv -> Int] BY DEF KType
    <2>4. held[f] - z - rest \in Nat BY <1>8, <1>9
    <2> HIDE DEF KInv
    <2>5. held' \in [Requests -> Nat] /\ held'[f] = held[f] - z - rest /\ \A q \in Requests \ {f} : held'[q] = held[q]
      BY <1>7, <2>1, <2>4
    <2>6. handle' \in [Requests -> Nat] /\ handle'[r] = z /\ \A q \in Requests \ {r} : handle'[q] = handle[q]
      BY <1>7, <1>8, <2>1
    <2>7. kept' \in [Requests -> SUBSET Tracks] /\ taken' \in [Requests -> SUBSET Tracks]
          /\ kept'[f] = (IF rest > 0 THEN {} ELSE ks)
          /\ \A q \in Requests \ {f} : kept'[q] = kept[q]
      BY <1>2, <1>7, <2>2
    <2>8. acct' \in [Mkv -> Int] /\ acct'[p] = acct[p] - rest - z /\ \A q \in Mkv \ {p} : acct'[q] = acct[q]
      BY <1>7, <1>8, <1>9, <1>10, <2>3
    <2> QED BY <2>5, <2>6, <2>7, <2>8
  <1>13. /\ Requested' /\ Shares' /\ pc' \in [Requests -> KSteps] /\ pc'[r] = "writing"
         /\ \A q \in Requests \ {r} : pc'[q] = pc[q]
         /\ \A q \in Requests : pc[q] \in Built => pc'[q] \in Built
         /\ \A q \in Requests : Plan(q)' = Plan(q) /\ Win(q)' = Win(q)
    <2>1. \A q \in Requests : Plan(q) \in Mp4 => held'[q] = held[q] BY <1>3, <1>12, PlansAssumption
    <2>2. resv' \in [Requests -> Nat] /\ \A q \in Requests : resv'[q] = resv[q] BY <1>7 DEF KType
    <2> QED BY <1>1, <1>7, <1>11, <1>12, <2>1, <2>2, OwnStep
  <1>14. KType'
    <2>1. total' \in Int BY <1>7, <1>9 DEF KType
    <2> QED BY <1>7, <1>12, <1>13, <2>1 DEF KType, share
  <1>15. Tabs'
    <2>1. ASSUME NEW q \in Mkv, NEW m \in Windows PROVE (Flown(q, m) /\ Tabled(q, m))'
      <3>1. /\ tables' = tables /\ tables[q][m] \in Requests \cup {None} /\ Tabled(q, m)
            /\ flight' = flight /\ flight[q][m] \in Requests \cup {None} /\ Flown(q, m)
        BY <1>7 DEF Tabs, KType
      <3> HIDE DEF KInv
      <3> QED BY <1>13, <3>1 DEF Flown, Tabled
    <2>2. \A q \in Requests \ {f} : (Placed(q) /\ Weighed(q))'
      BY <1>1, <1>7, <1>12, <1>13 DEF Tabs, Placed, Weighed
    <2>3. Placed(f)' BY <1>3, <1>7, <1>10, <1>13 DEF Placed
    <2>4. Weighed(f)' BY <1>8, <1>9, <1>12 DEF Weighed
    <2> QED BY <2>1, <2>2, <2>3, <2>4 DEF Tabs
  <1>16. TabAges' /\ Rooms' BY <1>7 DEF TabAges, Rooms
  <1>17. Accounts'
    <2>1. acct'[p] = acct[p] - held[f] + held'[f]
      <3>1. acct[p] \in Int BY DEF KType
      <3> QED BY <1>8, <1>9, <1>12, <3>1
    <2> QED BY <1>7, <1>10, <1>12, <2>1, TableShrinks
  <1>18. Totals'
    <2>1. resv \in [Requests -> Nat] /\ held \in [Requests -> Nat] /\ handle \in [Requests -> Nat] BY DEF KType
    <2>2. SumFunctionOnSet(held', Requests) = SumFunctionOnSet(held, Requests) - held[f] + held'[f]
      BY <1>12, <2>1, SharesChange
    <2>3. SumFunctionOnSet(handle', Requests) = SumFunctionOnSet(handle, Requests) - handle[r] + handle'[r]
      BY <1>12, <2>1, SharesChange
    <2>4. SumFunctionOnSet(resv', Requests) = SumFunctionOnSet(resv, Requests) BY <1>7
    <2>5. total \in Int BY DEF KType
    <2>6. Owned' = Owned - rest /\ Owned \in Nat
      <3>1. held[f] \in Nat /\ held'[f] = held[f] - z - rest /\ handle[r] = 0 /\ handle'[r] = z /\ z \in Nat
        BY <1>8, <1>11, <1>12
      <3> QED BY <1>9, <2>2, <2>3, <2>4, <3>1, SumTypes DEF Owned
    <2>7. total' \in Int /\ total' <= total /\ resv' = resv BY <1>7, <1>9, <2>5
    <2>8. Bounded' BY <2>7, Falls DEF Totals
    <2> QED BY <1>7, <1>9, <2>5, <2>6, <2>8 DEF Totals
  <1> QED BY <1>13, <1>14, <1>15, <1>16, <1>17, <1>18

\* How many tables go: no more than the plan has, enough for the budget of them all.
LEMMA EvictBounds ==
    ASSUME KInv, NEW p \in Mkv, NEW c \in Nat \ {0}
    PROVE  /\ TablesKept \in Nat /\ Evict(p, c) \in 0 .. c /\ TablesKept + 1 - Evict(p, c) <= Tables
           /\ TablesKept = SumFunctionOnSet([q \in Mkv |-> Len(tabOrder[q])], Mkv)
  <1> USE DEF KInv
  <1>1. TablesKept = SumFunctionOnSet([q \in Mkv |-> Len(tabOrder[q])], Mkv)
    <2>1. DOMAIN [q \in Mkv |-> Len(tabOrder[q])] = Mkv OBVIOUS
    <2> QED BY <2>1 DEF TablesKept, SumFunction
  <1>2. TablesKept \in Nat
    <2>1. PICK g : g = [q \in Mkv |-> Len(tabOrder[q])] OBVIOUS
    <2>2. \A q \in Mkv : g[q] \in Nat
      <3>1. \A q \in Mkv : tabOrder[q] \in Seq(Windows) BY DEF KType
      <3> QED BY <2>1, <3>1, LenProperties
    <2>3. SumFunctionOnSet(g, Mkv) \in Nat BY <2>2, Finite, SumNat
    <2> QED BY <1>1, <2>1, <2>3
  <1>3. TablesKept <= Tables BY <1>1 DEF Rooms
  <1>4. Tables \in Nat \ {0} /\ PlanTables \in Nat \ {0} BY RoomAssumption
  <1>5. PICK k, a, b : k = TablesKept /\ a = Tables /\ b = PlanTables OBVIOUS
  <1>6. PICK m : m = Min({c, k + 1 - a}) OBVIOUS
  <1>7. k \in Nat /\ a \in Nat \ {0} /\ b \in Nat \ {0} /\ k <= a BY <1>2, <1>3, <1>4, <1>5
  <1> HIDE DEF KInv
  <1>8. m = k + 1 - a
    <2>1. k + 1 - a \in Int /\ k + 1 - a <= c BY <1>7
    <2>2. \E x \in {c, k + 1 - a} : \A y \in {c, k + 1 - a} : x <= y BY <2>1
    <2>3. m \in {c, k + 1 - a} /\ \A y \in {c, k + 1 - a} : m <= y BY <1>6, <2>2 DEF Min
    <2> QED BY <2>1, <2>3
  <1>9. PICK e : e = Max({0, c - b, m}) OBVIOUS
  <1>10. e \in {0, c - b, m} /\ \A y \in {0, c - b, m} : e >= y
    <2>1. c - b \in Int /\ m \in Int BY <1>7, <1>8
    <2>2. \E x \in {0, c - b, m} : \A y \in {0, c - b, m} : x >= y
      <3>1. CASE 0 >= c - b /\ 0 >= m BY <2>1, <3>1
      <3>2. CASE c - b >= 0 /\ c - b >= m BY <2>1, <3>2
      <3>3. CASE m >= 0 /\ m >= c - b BY <2>1, <3>3
      <3> QED BY <2>1, <3>1, <3>2, <3>3
    <2> QED BY <1>9, <2>2 DEF Max
  <1>11. e \in 0 .. c /\ k + 1 - e <= a BY <1>7, <1>8, <1>10
  <1>12. Evict(p, c) = e BY <1>5, <1>6, <1>9 DEF Evict
  <1> QED BY <1>1, <1>2, <1>5, <1>11, <1>12

\* The place of a flight that ends is given up.
LEMMA FlightEnds ==
    ASSUME KInv, NEW r \in Requests, Publish(r)
    PROVE  /\ flight' \in [Mkv -> [Windows -> Requests \cup {None}]]
           /\ \A p \in Mkv : \A n \in Windows : Flown(p, n)'
           /\ pc[r] = "publish" /\ Plan(r) \in Mkv /\ Win(r) \in Windows
           /\ \A p \in Mkv : \A n \in Windows : tables[p][n] # r
           /\ resv[r] = 0 /\ handle[r] = 0 /\ Plan(r) \notin collected
  <1> USE DEF KInv
  <1>1. pc[r] = "publish" /\ Plan(r) \in Mkv /\ Win(r) \in Windows BY Asked DEF Publish, Requested, Side
  <1>2. flight \in [Mkv -> [Windows -> Requests \cup {None}]] BY DEF KType
  <1>3. PICK p0, n0 : p0 = Plan(r) /\ n0 = Win(r) OBVIOUS
  <1>4. flight' = flight \/ flight' = [flight EXCEPT ![p0][n0] = None] BY <1>3 DEF Publish
  <1>5. p0 \in Mkv /\ n0 \in Windows BY <1>1, <1>3
  <1>6. /\ flight' \in [Mkv -> [Windows -> Requests \cup {None}]]
        /\ \A p \in Mkv : \A n \in Windows : flight'[p][n] \in {flight[p][n], None}
    <2> HIDE DEF KInv
    <2> QED BY <1>2, <1>4, <1>5
  <1>7. \A p \in Mkv : \A n \in Windows : Flown(p, n)'
    <2>1. UNCHANGED wants BY DEF Publish
    <2>2. \A q \in Requests : Plan(q)' = Plan(q) /\ Win(q)' = Win(q) BY <2>1, SameAsked
    <2> QED BY <1>2, <1>6, <2>2, PlansAssumption DEF Tabs, Flown
  <1>8. \A p \in Mkv : \A n \in Windows : tables[p][n] # r BY <1>1, PlansAssumption DEF Tabs, Tabled, Built
  <1>9. resv[r] = 0 /\ handle[r] = 0 /\ Plan(r) \notin collected
    BY <1>1 DEF Requested, Reserved, Handled, Gone
  <1> QED BY <1>1, <1>6, <1>7, <1>8, <1>9

\* A flight that failed keeps nothing; one whose window was built again gives back what it kept.
LEMMA PublishNothingKeeps ==
    ASSUME KInv, NEW r \in Requests, Publish(r), r \notin ok \/ StoreDuplicate(r)
    PROVE  KInv'
  <1> USE DEF KInv
  <1>1. /\ flight' \in [Mkv -> [Windows -> Requests \cup {None}]]
        /\ \A p \in Mkv : \A n \in Windows : Flown(p, n)'
        /\ pc[r] = "publish" /\ Plan(r) \in Mkv /\ Win(r) \in Windows
        /\ \A p \in Mkv : \A n \in Windows : tables[p][n] # r
        /\ resv[r] = 0 /\ handle[r] = 0 /\ Plan(r) \notin collected
    BY FlightEnds
  <1>2. PICK s \in {"take", "returned"} : Goto(r, s) BY DEF Publish
  <1>3. /\ done' = done \cup {r}
        /\ UNCHANGED <<wants, left, from, taken, resv, handle, acct, tables, tabOrder, cancelled, share, keepers, visit, ok, panics, collected>>
        /\ \/ r \notin ok /\ UNCHANGED <<kept, held, total>>
           \/ kept' = [kept EXCEPT ![r] = {}] /\ held' = [held EXCEPT ![r] = 0] /\ total' = total - held[r]
    BY DEF Publish, StoreDuplicate, Store
  <1>4. r \notin ok => held[r] = 0 BY <1>1 DEF Tabs, Placed
  <1>5. /\ held' \in [Requests -> Nat] /\ kept' \in [Requests -> SUBSET Tracks]
        /\ held'[r] = 0 /\ \A q \in Requests \ {r} : held'[q] = held[q] /\ kept'[q] = kept[q]
        /\ kept'[r] = {} \/ (kept'[r] = kept[r] /\ held[r] = 0)
    <2>1. held \in [Requests -> Nat] /\ kept \in [Requests -> SUBSET Tracks] BY DEF KType
    <2>2. r \notin ok => held[r] = 0 BY <1>4
    <2> HIDE DEF KInv
    <2> QED BY <1>3, <2>1, <2>2
  <1>6. /\ Requested' /\ Shares' /\ pc' \in [Requests -> KSteps] /\ pc'[r] = s
        /\ \A q \in Requests \ {r} : pc'[q] = pc[q]
        /\ \A q \in Requests : pc[q] \in Built => pc'[q] \in Built
        /\ \A q \in Requests : Plan(q)' = Plan(q) /\ Win(q)' = Win(q)
    <2>1. \A q \in Requests : Plan(q) \in Mp4 => held'[q] = held[q] BY <1>1, <1>5, PlansAssumption
    <2>2. resv' \in [Requests -> Nat] /\ handle' \in [Requests -> Nat] BY <1>3 DEF KType
    <2> QED BY <1>1, <1>2, <1>3, <2>1, <2>2, OwnStep
  <1>7. KType'
    <2>1. total' \in Int /\ done' \in SUBSET Requests BY <1>3 DEF KType
    <2> QED BY <1>1, <1>3, <1>5, <1>6, <2>1 DEF KType, share
  <1>8. Tabs'
    <2>1. \A q \in Mkv : \A m \in Windows : (Tabled(q, m))' BY <1>3, <1>6 DEF Tabs, Tabled, KType
    <2>2. \A q \in Requests \ {r} : (Placed(q) /\ Weighed(q))' BY <1>3, <1>5, <1>6 DEF Tabs, Placed, Weighed
    <2>3. (Placed(r) /\ Weighed(r))'
      <3>1. kept'[r] = kept[r] /\ held[r] = 0 => 0 = SizeOf(kept[r]) BY <1>1 DEF Tabs, Weighed
      <3> QED BY <1>5, <3>1, Sizes DEF Placed, Weighed
    <2> QED BY <1>1, <2>1, <2>2, <2>3 DEF Tabs
  <1>9. TabAges' /\ Rooms' BY <1>3 DEF TabAges, Rooms
  <1>10. Accounts'
    <2>1. ASSUME NEW p \in Mkv PROVE TableBytes(p)' = TableBytes(p)
      <3>1. \A n \in Windows : tables[p][n] # None => tables[p][n] \in Requests \ {r} BY <1>1 DEF KType
      <3> QED BY <1>3, <1>5, <3>1 DEF TableBytes
    <2> QED BY <1>3, <2>1 DEF Accounts
  <1>11. Totals'
    <2>1. resv' \in [Requests -> Nat] /\ handle' \in [Requests -> Nat] /\ resv' = resv /\ handle' = handle
      BY <1>3 DEF KType
    <2>2. Owned' = Owned - resv[r] - held[r] - handle[r] + resv'[r] + held'[r] + handle'[r] /\ Owned \in Nat
      BY <1>5, <2>1, OwnedChange
    <2>3. held[r] \in Nat /\ total \in Int BY DEF KType
    <2>4. total' = total - held[r] BY <1>3, <1>4, <2>3
    <2>5. Owned' = Owned - held[r] BY <1>1, <1>5, <2>1, <2>2, <2>3
    <2>6. total' \in Int /\ total' <= total BY <2>3, <2>4
    <2>7. Bounded' BY <2>1, <2>6, Falls DEF Totals
    <2> QED BY <1>3, <2>2, <2>3, <2>4, <2>5, <2>7 DEF Totals
  <1> QED BY <1>6, <1>7, <1>8, <1>9, <1>10, <1>11

\* storeTable: the table is stored last, and the oldest go while they are too many.
LEMMA StoreKeeps == ASSUME KInv, NEW r \in Requests, Publish(r), r \in ok, Store(r) PROVE KInv'
  <1> USE DEF KInv
  <1>1. /\ flight' \in [Mkv -> [Windows -> Requests \cup {None}]]
        /\ \A p \in Mkv : \A n \in Windows : Flown(p, n)'
        /\ pc[r] = "publish" /\ Plan(r) \in Mkv /\ Win(r) \in Windows
        /\ \A p \in Mkv : \A n \in Windows : tables[p][n] # r
        /\ resv[r] = 0 /\ handle[r] = 0 /\ Plan(r) \notin collected
    BY FlightEnds
  <1>2. PICK p \in Mkv, n \in Windows : p = Plan(r) /\ n = Win(r) BY <1>1
  <1>3. PICK order, k, out, ts, gone :
           /\ order = Append(tabOrder[p], n) /\ k = Evict(p, Len(order)) /\ out = {order[i] : i \in 1 .. k}
           /\ ts = {IF m = n THEN r ELSE tables[p][m] : m \in out} /\ gone = SumFunctionOnSet(held, ts)
    OBVIOUS
  <1>4. /\ tables[p][n] = None
        /\ tabOrder' = [tabOrder EXCEPT ![p] = SubSeq(order, k + 1, Len(order))]
        /\ tables' = [tables EXCEPT ![p] = [m \in Windows |-> IF m \in out THEN None ELSE IF m = n THEN r ELSE tables[p][m]]]
        /\ kept' = [f \in Requests |-> IF f \in ts THEN {} ELSE kept[f]]
        /\ held' = [f \in Requests |-> IF f \in ts THEN 0 ELSE held[f]]
        /\ acct' = [acct EXCEPT ![p] = acct[p] + held[r] - gone]
        /\ total' = total - gone
        /\ keepers' = IF held[r] = 0 \/ p \in ToSet(keepers) THEN keepers ELSE Append(keepers, p)
    <2>1. tables \in [Mkv -> [Windows -> Requests \cup {None}]] /\ acct \in [Mkv -> Int] BY DEF KType
    <2> QED BY <1>2, <1>3, <2>1 DEF Store
  <1>5. /\ Goto(r, "take") /\ done' = done \cup {r}
        /\ UNCHANGED <<wants, left, from, taken, resv, handle, cancelled, share, visit, ok, panics, collected>>
    BY DEF Publish

  \* The order, and the windows that go.
  <1>6. tabOrder[p] \in Seq(Windows) /\ IsInjective(tabOrder[p])
        /\ ToSet(tabOrder[p]) = {m \in Windows : tables[p][m] # None}
    BY DEF KType, TabAges
  <1>7. /\ order \in Seq(Windows) /\ IsInjective(order) /\ Len(order) = Len(tabOrder[p]) + 1
        /\ ToSet(order) = ToSet(tabOrder[p]) \cup {n}
    <2>1. n \notin ToSet(tabOrder[p]) BY <1>4, <1>6
    <2> QED BY <1>3, <1>6, <2>1, OrderAppend, AppendProperties
  <1>8. /\ TablesKept \in Nat /\ k \in 0 .. Len(order) /\ TablesKept + 1 - k <= Tables
        /\ TablesKept = SumFunctionOnSet([q \in Mkv |-> Len(tabOrder[q])], Mkv)
        /\ Len(order) \in Nat /\ Len(tabOrder[p]) \in Nat
    <2>1. Len(order) \in Nat \ {0} /\ Len(tabOrder[p]) \in Nat BY <1>6, <1>7, LenProperties
    <2> HIDE DEF KInv
    <2> QED BY <1>3, <2>1, EvictBounds
  <1>9. PICK rest : /\ rest = SubSeq(order, k + 1, Len(order)) /\ rest \in Seq(Windows) /\ IsInjective(rest)
                    /\ ToSet(rest) = ToSet(order) \ out /\ Len(rest) = Len(order) - k
                    /\ out \subseteq ToSet(order)
    <2>1. k \in Nat /\ k <= Len(order) BY <1>8
    <2>2. ToSet(SubSeq(order, 1, k)) = out
      <3>1. PICK u : u = SubSeq(order, 1, k) OBVIOUS
      <3> HIDE DEF KInv
      <3>2. DOMAIN u = 1 .. k /\ \A i \in 1 .. k : u[i] = order[i] BY <1>7, <1>8, <2>1, <3>1
      <3>3. ToSet(u) = {order[i] : i \in 1 .. k} BY <3>2 DEF ToSet
      <3> QED BY <1>3, <3>1, <3>3
    <2>3. Len(SubSeq(order, k + 1, Len(order))) = Len(order) - k BY <1>7, <1>8, <2>1
    <2> QED BY <1>7, <1>8, <2>2, <2>3, OrderSplit
  <1>10. out \in SUBSET Windows BY <1>6, <1>7, <1>9

  \* What stands in the plan's places when the table is in, before the oldest go.
  <1>11. PICK w : w = [m \in Windows |-> IF m = n THEN r ELSE tables[p][m]] OBVIOUS
  <1>12. /\ \A m \in Windows : w[m] \in Requests \cup {None} /\ (w[m] # None => Plan(w[m]) = p /\ Win(w[m]) = m)
         /\ w[n] = r /\ \A m \in Windows \ {n} : w[m] = tables[p][m]
         /\ \A m \in out : w[m] \in Requests /\ w[m] # None
    <2>1. \A m \in Windows \ {n} : tables[p][m] \in Requests \cup {None}
                                   /\ (tables[p][m] # None => Plan(tables[p][m]) = p /\ Win(tables[p][m]) = m)
      BY DEF KType, Tabs, Tabled
    <2>2. \A m \in out : m = n \/ tables[p][m] # None BY <1>6, <1>7, <1>9
    <2> QED BY <1>2, <1>10, <1>11, <2>1, <2>2, PlansAssumption
  <1>13. /\ ts = {w[m] : m \in out} /\ ts \in SUBSET Requests
         /\ \A m \in Windows : w[m] # None => (w[m] \in ts <=> m \in out)
         /\ \A f \in ts : Plan(f) = p
    <2>1. ts = {w[m] : m \in out} BY <1>3, <1>10, <1>11
    <2> QED BY <1>10, <1>12, <2>1
  <1>14. held \in [Requests -> Nat] /\ kept \in [Requests -> SUBSET Tracks] /\ acct \in [Mkv -> Int] BY DEF KType
  <1>15. tables \in [Mkv -> [Windows -> Requests \cup {None}]] /\ tabOrder \in [Mkv -> Seq(Windows)] BY DEF KType
  <1>16. /\ tables' \in [Mkv -> [Windows -> Requests \cup {None}]]
         /\ \A m \in Windows : tables'[p][m] = IF m \in out THEN None ELSE w[m]
         /\ \A q \in Mkv \ {p} : tables'[q] = tables[q]
    <2>1. tables' = [tables EXCEPT ![p] = [m \in Windows |-> IF m \in out THEN None ELSE w[m]]]
      BY <1>4, <1>11
    <2>2. [m \in Windows |-> IF m \in out THEN None ELSE w[m]] \in [Windows -> Requests \cup {None}]
      BY <1>12
    <2> HIDE DEF KInv
    <2> QED BY <1>15, <2>1, <2>2
  <1>17. /\ tabOrder' \in [Mkv -> Seq(Windows)] /\ tabOrder'[p] = rest
         /\ \A q \in Mkv \ {p} : tabOrder'[q] = tabOrder[q]
    <2>1. tabOrder' = [tabOrder EXCEPT ![p] = rest] BY <1>4, <1>9
    <2> HIDE DEF KInv
    <2> QED BY <1>9, <1>15, <2>1
  <1>18. /\ held' \in [Requests -> Nat] /\ kept' \in [Requests -> SUBSET Tracks]
         /\ \A q \in Requests : /\ held'[q] = IF q \in ts THEN 0 ELSE held[q]
                                /\ kept'[q] = IF q \in ts THEN {} ELSE kept[q]
    <2> HIDE DEF KInv
    <2> QED BY <1>4, <1>14
  <1>19. /\ Requested' /\ Shares' /\ pc' \in [Requests -> KSteps] /\ pc'[r] = "take"
         /\ \A q \in Requests \ {r} : pc'[q] = pc[q]
         /\ \A q \in Requests : pc[q] \in Built => pc'[q] \in Built
         /\ \A q \in Requests : Plan(q)' = Plan(q) /\ Win(q)' = Win(q)
    <2>1. \A q \in Requests : Plan(q) \in Mp4 => held'[q] = held[q] BY <1>13, <1>18, PlansAssumption
    <2>2. resv' \in [Requests -> Nat] /\ handle' \in [Requests -> Nat] BY <1>5 DEF KType
    <2> QED BY <1>1, <1>5, <2>1, <2>2, OwnStep

  \* The sums.
  <1>20. PICK g0, g1, g2 :
           /\ g0 = TableBytes(p)
           /\ g1 = [m \in Windows |-> IF w[m] = None THEN 0 ELSE held[w[m]]]
           /\ g2 = TableBytes(p)'
    OBVIOUS
  <1>21. /\ \A m \in Windows : g0[m] \in Nat /\ g1[m] \in Nat /\ g0[m] \in Int /\ g1[m] \in Int
         /\ \A m \in Windows \ {n} : g0[m] = g1[m]
         /\ g0[n] = 0 /\ g1[n] = held[r]
    <2>1. \A m \in Windows : g0[m] \in Nat /\ g0[m] = IF tables[p][m] = None THEN 0 ELSE held[tables[p][m]]
      BY <1>20, TableBytesType
    <2>2. \A m \in Windows : g1[m] = IF w[m] = None THEN 0 ELSE held[w[m]] BY <1>20
    <2>3. \A m \in Windows : g1[m] \in Nat BY <1>12, <1>14, <2>2
    <2>4. r # None BY PlansAssumption
    <2> QED BY <1>4, <1>12, <2>1, <2>2, <2>3, <2>4
  <1>22. \A m \in Windows : g2[m] = IF m \in out THEN 0 ELSE g1[m]
    <2>1. \A m \in Windows : g2[m] = IF tables'[p][m] = None THEN 0 ELSE held'[tables'[p][m]]
      BY <1>20 DEF TableBytes
    <2> QED BY <1>12, <1>13, <1>16, <1>18, <1>20, <2>1
  <1>23. SumFunctionOnSet(g1, Windows) = SumFunctionOnSet(g0, Windows) + held[r]
    <2>1. \A m \in Windows : g0[m] \in Int /\ g1[m] \in Int BY <1>21
    <2>2. \A m \in Windows \ {n} : g0[m] = g1[m] BY <1>21
    <2>3. SumFunctionOnSet(g1, Windows) = SumFunctionOnSet(g0, Windows) - g0[n] + g1[n]
      BY <2>1, <2>2, Finite, SumChange
    <2>4. SumFunctionOnSet(g0, Windows) \in Int BY <2>1, Finite, SumInt
    <2> QED BY <1>14, <1>21, <2>3, <2>4
  <1>24. /\ SumFunctionOnSet(g2, Windows) = SumFunctionOnSet(g1, Windows) - SumFunctionOnSet(g1, out)
         /\ SumFunctionOnSet(g1, Windows) \in Int /\ SumFunctionOnSet(g1, out) \in Int
    <2>1. \A m \in Windows : g1[m] \in Int /\ g2[m] = IF m \in out THEN 0 ELSE g1[m] BY <1>21, <1>22
    <2> QED BY <1>10, <2>1, Finite, SumWithout
  <1>25. SumFunctionOnSet(g1, out) = gone
    <2>1. IsFiniteSet(out) BY <1>10, Finite, FS_Subset
    <2>2. \A m \in out : w[m] \in Requests /\ g1[m] = held[w[m]] BY <1>10, <1>12, <1>20
    <2>3. \A m, l \in out : w[m] = w[l] => m = l BY <1>10, <1>12
    <2>4. \A q \in Requests : held[q] \in Int BY <1>14
    <2>5. SumFunctionOnSet(g1, out) = SumFunctionOnSet(held, {w[m] : m \in out})
      BY <2>1, <2>2, <2>3, <2>4, Finite, SumImage
    <2> QED BY <1>3, <1>13, <2>5
  <1>26. Accounts'
    <2>1. acct[p] = SumFunctionOnSet(g0, Windows) BY <1>20 DEF Accounts
    <2>2. acct'[p] = acct[p] + held[r] - gone /\ \A q \in Mkv \ {p} : acct'[q] = acct[q] BY <1>4, <1>14
    <2>3. acct'[p] = SumFunctionOnSet(g2, Windows) 
      <3>1. acct[p] \in Int /\ held[r] \in Int BY <1>14
      <3> HIDE DEF KInv
      <3> QED BY <1>23, <1>24, <1>25, <2>1, <2>2, <3>1
    <2>4. \A f \in Requests : Plan(f) # p => held'[f] = held[f] BY <1>13, <1>18
    <2>5. \A q \in Mkv \ {p} : acct'[q] = acct[q] /\ tables'[q] = tables[q] BY <1>16, <2>2
    <2>6. acct'[p] = SumFunctionOnSet(TableBytes(p)', Windows) BY <1>20, <2>3
    <2> QED BY <2>4, <2>5, <2>6, AccountKeeps
  <1>27. gone \in Nat
    <2>1. IsFiniteSet(ts) /\ \A q \in ts : held[q] \in Nat BY <1>13, <1>14, Finite, FS_Subset
    <2> QED BY <1>3, <2>1, SumNat
  <1>28. Totals'
    <2>1. PICK h, g : h = held /\ g = held' OBVIOUS
    <2>2. \A q \in Requests : h[q] \in Int /\ g[q] = IF q \in ts THEN 0 ELSE h[q] BY <1>14, <1>18, <2>1
    <2>3. SumFunctionOnSet(g, Requests) = SumFunctionOnSet(h, Requests) - SumFunctionOnSet(h, ts)
      BY <1>13, <2>2, Finite, SumWithout
    <2>4. SumFunctionOnSet(held', Requests) = SumFunctionOnSet(held, Requests) - gone BY <1>3, <2>1, <2>3
    <2>5. resv' = resv /\ handle' = handle /\ total \in Int BY <1>5 DEF KType
    <2>6. Owned' = Owned - gone /\ Owned \in Nat BY <1>27, <2>4, <2>5, SumTypes DEF Owned
    <2>7. total' \in Int /\ total' <= total BY <1>4, <1>5, <1>27, <2>5
    <2>8. Bounded' BY <2>5, <2>7, Falls DEF Totals
    <2> QED BY <1>4, <1>5, <1>27, <2>5, <2>6, <2>8 DEF Totals
  <1>29. Rooms'
    <2>1. PICK g, h : g = [q \in Mkv |-> Len(tabOrder[q])] /\ h = [q \in Mkv |-> Len(tabOrder'[q])] OBVIOUS
    <2>2. \A q \in Mkv : g[q] \in Int /\ h[q] \in Int BY <1>15, <1>17, <2>1, LenProperties
    <2>3. \A q \in Mkv \ {p} : g[q] = h[q] BY <1>17, <2>1
    <2>4. SumFunctionOnSet(h, Mkv) = SumFunctionOnSet(g, Mkv) - g[p] + h[p] BY <2>2, <2>3, Finite, SumChange
    <2>5. g[p] = Len(tabOrder[p]) /\ h[p] = Len(rest) BY <1>17, <2>1
    <2>6. SumFunctionOnSet(g, Mkv) = TablesKept BY <1>8, <2>1
    <2>7. SumFunctionOnSet(h, Mkv) = TablesKept + 1 - k BY <1>7, <1>8, <1>9, <2>4, <2>5, <2>6
    <2>8. SumFunctionOnSet(h, Mkv) <= Tables BY <1>8, <2>7
    <2> QED BY <2>1, <2>8 DEF Rooms
  <1>30. TabAges'
    <2>1. ToSet(rest) = {m \in Windows : tables'[p][m] # None}
      <3>1. \A m \in Windows : tables'[p][m] # None <=> m \notin out /\ w[m] # None BY <1>16
      <3>2. \A m \in Windows : w[m] # None <=> m = n \/ tables[p][m] # None BY <1>12, PlansAssumption
      <3>3. ToSet(rest) = ({m \in Windows : tables[p][m] # None} \cup {n}) \ out BY <1>6, <1>7, <1>9
      <3> QED BY <3>1, <3>2, <3>3
    <2>2. \A q \in Mkv \ {p} : tabOrder'[q] = tabOrder[q] /\ tables'[q] = tables[q] BY <1>16, <1>17
    <2>3. ASSUME NEW q \in Mkv \ {p}
          PROVE  ToSet(tabOrder'[q]) = {m \in Windows : tables'[q][m] # None} /\ IsInjective(tabOrder'[q])
      BY <2>2 DEF TabAges
    <2>4. ToSet(tabOrder'[p]) = {m \in Windows : tables'[p][m] # None} /\ IsInjective(tabOrder'[p])
      BY <1>9, <1>17, <2>1
    <2> QED BY <2>3, <2>4 DEF TabAges

  \* The tables, and the types.
  <1>31. Tabs'
    <2>1. ASSUME NEW q \in Mkv, NEW m \in Windows PROVE Tabled(q, m)'
      <3>1. CASE q = p
        <4>1. tables'[p][m] # None => tables'[p][m] = w[m] /\ w[m] \in Requests /\ Plan(w[m]) = p /\ Win(w[m]) = m
          BY <1>12, <1>16
        <4>2. w[m] # None => pc'[w[m]] \in Built
          <5>1. CASE m = n BY <1>12, <1>19, <5>1 DEF Built
          <5>2. CASE m # n BY <1>12, <1>19, <5>2 DEF Tabs, Tabled
          <5> QED BY <5>1, <5>2
        <4> QED BY <1>19, <3>1, <4>1, <4>2 DEF Tabled
      <3>2. CASE q # p
        <4>1. tables'[q] = tables[q] /\ tables[q][m] \in Requests \cup {None} BY <1>15, <1>16, <3>2
        <4> QED BY <1>19, <4>1 DEF Tabs, Tabled
      <3> QED BY <3>1, <3>2
    <2>2. ASSUME NEW q \in Requests PROVE Weighed(q)'
      BY <1>5, <1>18, <1>19, Sizes DEF Tabs, Weighed
    <2>3. ASSUME NEW q \in Requests, Plan(q) \in Mkv, held'[q] # 0
          PROVE  (pc'[q] = "publish" /\ q \in ok') \/ tables'[Plan(q)][Win(q)] = q
      <3>1. q \notin ts /\ held[q] # 0 BY <1>18, <2>3
      <3>2. CASE q = r
        <4>1. n \notin out BY <1>12, <1>13, <3>1, <3>2, PlansAssumption
        <4> QED BY <1>2, <1>12, <1>16, <3>2, <4>1
      <3>3. CASE q # r /\ pc[q] = "publish" /\ q \in ok BY <1>5, <1>19, <3>3
      <3>4. CASE q # r /\ tables[Plan(q)][Win(q)] = q
        <4>1. Win(q) \in Windows /\ q # None BY Asked, PlansAssumption
        <4>2. CASE Plan(q) # p BY <1>16, <2>3, <3>4, <4>2
        <4>3. CASE Plan(q) = p
          <5>1. Win(q) # n /\ w[Win(q)] = q BY <1>4, <1>12, <3>4, <4>1, <4>3
          <5>2. Win(q) \notin out BY <1>13, <3>1, <4>1, <5>1
          <5> QED BY <1>16, <4>1, <4>3, <5>1, <5>2
        <4> QED BY <4>2, <4>3
      <3> QED BY <2>3, <3>1, <3>2, <3>3, <3>4 DEF Tabs, Placed
    <2>4. \A q \in Requests : Placed(q)' BY <1>19, <2>3 DEF Placed
    <2> QED BY <1>1, <2>1, <2>2, <2>4 DEF Tabs
  <1>32. KType'
    <2>1. keepers' \in Seq(Plans)
      <3>1. keepers \in Seq(Plans) /\ p \in Plans BY DEF KType, Plans
      <3> HIDE DEF KInv
      <3> QED BY <1>4, <3>1, AppendProperties
    <2>2. acct' \in [Mkv -> Int] /\ total' \in Int
      <3>1. total \in Int /\ held[r] \in Nat BY DEF KType
      <3> QED BY <1>4, <1>14, <1>27, <3>1
    <2>3. done' \in SUBSET Requests BY <1>5 DEF KType
    <2> QED BY <1>1, <1>5, <1>16, <1>17, <1>18, <1>19, <2>1, <2>2, <2>3 DEF KType, share
  <1> QED BY <1>19, <1>26, <1>28, <1>29, <1>30, <1>31, <1>32

LEMMA PublishKeeps == ASSUME KInv, NEW r \in Requests, Publish(r) PROVE KInv'
  <1>1. CASE r \notin ok \/ StoreDuplicate(r) BY <1>1, PublishNothingKeeps
  <1>2. CASE r \in ok /\ Store(r) BY <1>2, StoreKeeps
  <1> QED BY <1>1, <1>2 DEF Publish

\* The collector: the account gives back what the plan's tables kept.
LEMMA CollectKeeps == ASSUME KInv, NEW p \in Plans, Collect(p) PROVE KInv'
  <1> USE DEF KInv
  <1>1. /\ p \in Mkv \ collected /\ \A r \in Requests : Plan(r) = p => pc[r] = "returned"
        /\ collected' = collected \cup {p} /\ total' = total - acct[p] /\ acct' = [acct EXCEPT ![p] = 0]
        /\ held' = [r \in Requests |-> IF r \in {tables[p][n] : n \in Windows} THEN 0 ELSE held[r]]
        /\ tables' = [tables EXCEPT ![p] = [n \in Windows |-> None]]
        /\ tabOrder' = [tabOrder EXCEPT ![p] = <<>>] /\ keepers' = RemoveFirst(keepers, p)
        /\ UNCHANGED <<pc, wants, left, from, kept, taken, resv, handle, flight, cancelled, share, visit, done, ok, panics>>
    BY DEF Collect, Returned, ends
  <1>2. held \in [Requests -> Nat] /\ acct \in [Mkv -> Int] BY DEF KType
  <1>3. tables \in [Mkv -> [Windows -> Requests \cup {None}]] /\ tabOrder \in [Mkv -> Seq(Windows)] BY DEF KType
  <1>4. PICK T, ts : T = {n \in Windows : tables[p][n] # None} /\ ts = {tables[p][n] : n \in T} OBVIOUS
  <1>5. /\ T \in SUBSET Windows /\ ts \in SUBSET Requests
        /\ \A n \in T : tables[p][n] \in Requests /\ Plan(tables[p][n]) = p /\ Win(tables[p][n]) = n
        /\ \A f \in ts : Plan(f) = p
    <2>1. T \in SUBSET Windows BY <1>4
    <2>2. \A n \in T : tables[p][n] \in Requests /\ Plan(tables[p][n]) = p /\ Win(tables[p][n]) = n
      BY <1>1, <1>3, <1>4 DEF Tabs, Tabled
    <2> QED BY <1>4, <2>1, <2>2
  <1>6. /\ held' \in [Requests -> Nat] /\ \A q \in Requests : held'[q] = IF q \in ts THEN 0 ELSE held[q]
        /\ acct' \in [Mkv -> Int] /\ acct'[p] = 0 /\ \A q \in Mkv \ {p} : acct'[q] = acct[q]
    <2>1. \A q \in Requests : q \in {tables[p][n] : n \in Windows} <=> q \in ts BY <1>4, PlansAssumption
    <2> HIDE DEF KInv
    <2> QED BY <1>1, <1>2, <2>1
  <1>7. /\ tables' \in [Mkv -> [Windows -> Requests \cup {None}]] /\ \A n \in Windows : tables'[p][n] = None
        /\ \A q \in Mkv \ {p} : tables'[q] = tables[q]
    <2> HIDE DEF KInv
    <2> QED BY <1>1, <1>3
  <1>8. tabOrder' \in [Mkv -> Seq(Windows)] /\ tabOrder'[p] = <<>> /\ \A q \in Mkv \ {p} : tabOrder'[q] = tabOrder[q]
    <2>1. <<>> \in Seq(Windows) BY EmptySeq
    <2> HIDE DEF KInv
    <2> QED BY <1>1, <1>3, <2>1
  <1>9. KType'
    <2>1. total' \in Int BY <1>1, <1>2 DEF KType
    <2>2. keepers' \in Seq(Plans) BY <1>1, RemoveType DEF KType
    <2> QED BY <1>1, <1>6, <1>7, <1>8, <2>1, <2>2 DEF KType, share
  <1>10. \A q \in Requests : Plan(q)' = Plan(q) /\ Win(q)' = Win(q) /\ Need(q)' = Need(q) BY <1>1, SameAsked
  <1>11. Requested'
    <2>1. \A q \in Requests : (Side(q) /\ Visiting(q) /\ Ended(q) /\ Gone(q) /\ Wanted(q) /\ Reserved(q) /\ Handled(q))'
      BY <1>1, <1>10 DEF Requested, Side, Visiting, Ended, Gone, Wanted, Reserved, Handled
    <2>2. \A q \in Requests : Source(q)' BY <1>1, <1>10 DEF Requested, Source
    <2> QED BY <2>1, <2>2 DEF Requested
  <1>12. Tabs'
    <2>1. \A q \in Mkv : \A m \in Windows : Flown(q, m)' BY <1>1, <1>10 DEF Tabs, Flown, KType
    <2>2. ASSUME NEW q \in Mkv, NEW m \in Windows PROVE Tabled(q, m)'
      <3>1. CASE q = p BY <1>7, <3>1 DEF Tabled
      <3>2. CASE q # p
        <4>1. tables'[q] = tables[q] /\ tables[q][m] \in Requests \cup {None} BY <1>3, <1>7, <3>2
        <4> QED BY <1>1, <1>10, <4>1 DEF Tabs, Tabled
      <3> QED BY <3>1, <3>2
    <2>3. ASSUME NEW q \in Requests PROVE Placed(q)' /\ Weighed(q)'
      <3>1. CASE Plan(q) = p
        <4>1. held[q] # 0 => tables[p][Win(q)] = q BY <1>1, <3>1 DEF Tabs, Placed
        <4>2. held[q] # 0 => q \in ts BY <1>4, <4>1, Asked, PlansAssumption
        <4>3. held'[q] = 0 BY <1>6, <4>2
        <4> QED BY <1>1, <1>10, <3>1, <4>3 DEF Placed, Weighed
      <3>2. CASE Plan(q) # p
        <4>1. held'[q] = held[q] BY <1>5, <1>6, <3>2
        <4>2. Plan(q) \in Mkv => tables'[Plan(q)] = tables[Plan(q)] BY <1>7, <3>2
        <4> QED BY <1>1, <1>10, <3>2, <4>1, <4>2 DEF Tabs, Placed, Weighed
      <3> QED BY <3>1, <3>2
    <2> QED BY <2>1, <2>2, <2>3 DEF Tabs
  <1>13. TabAges'
    <2>1. ToSet(<<>>) = {} /\ IsInjective(<<>>) BY DEF ToSet, IsInjective
    <2>2. ToSet(tabOrder'[p]) = {n \in Windows : tables'[p][n] # None} /\ IsInjective(tabOrder'[p])
      BY <1>7, <1>8, <2>1
    <2>3. ASSUME NEW q \in Mkv \ {p}
          PROVE  ToSet(tabOrder'[q]) = {n \in Windows : tables'[q][n] # None} /\ IsInjective(tabOrder'[q])
      BY <1>7, <1>8 DEF TabAges
    <2> QED BY <2>2, <2>3 DEF TabAges
  <1>14. Shares'
    <2>1. \A q \in Requests : Plan(q) \in Mp4 => held'[q] = held[q] BY <1>1, <1>5, <1>6, PlansAssumption
    <2>2. ASSUME NEW q \in Mp4, NEW n \in Windows PROVE Shared(q, n)'
      <3>1. wins[q][n] \in Requests \cup {None} BY DEF KType
      <3> QED BY <1>1, <1>10, <3>1 DEF Shares, Shared, share
    <2>3. \A q \in Requests : (Reading(q) /\ Running(q) /\ Timed(q) /\ Lent(q))'
      BY <1>1, <1>10, <2>1 DEF Shares, Reading, Running, Timed, Lent, share
    <2> QED BY <2>2, <2>3 DEF Shares
  <1>15. PICK g : g = TableBytes(p) OBVIOUS
  <1>16. \A n \in Windows : g[n] \in Nat /\ g[n] = IF tables[p][n] = None THEN 0 ELSE held[tables[p][n]]
    BY <1>1, <1>15, TableBytesType
  <1>17. acct[p] = SumFunctionOnSet(held, ts) /\ acct[p] \in Nat
    <2>1. IsFiniteSet(T) BY <1>5, Finite, FS_Subset
    <2>2. \A n \in Windows : g[n] \in Int BY <1>16
    <2>3. SumFunctionOnSet(g, Windows) = SumFunctionOnSet(g, T) + SumFunctionOnSet(g, Windows \ T)
      BY <1>5, <2>2, Finite, SumSplit
    <2>4. SumFunctionOnSet(g, Windows \ T) = 0
      <3>1. IsFiniteSet(Windows \ T) BY Finite, FS_Subset
      <3>2. \A n \in Windows \ T : g[n] \in Nat /\ g[n] = 0 BY <1>4, <1>16
      <3> QED BY <3>1, <3>2, SumNat
    <2>5. SumFunctionOnSet(g, T) = SumFunctionOnSet(held, ts)
      <3>1. PICK w : w = tables[p] OBVIOUS
      <3>2. \A n \in T : w[n] \in Requests /\ g[n] = held[w[n]] BY <1>4, <1>5, <1>16, <3>1
      <3>3. \A m, n \in T : w[m] = w[n] => m = n BY <1>5, <3>1
      <3>4. \A q \in Requests : held[q] \in Int BY <1>2
      <3>5. SumFunctionOnSet(g, T) = SumFunctionOnSet(held, {w[n] : n \in T})
        BY <2>1, <3>2, <3>3, <3>4, Finite, SumImage
      <3> QED BY <1>4, <3>1, <3>5
    <2>6. SumFunctionOnSet(g, T) \in Nat
      <3>1. \A n \in T : g[n] \in Nat BY <1>5, <1>16
      <3> QED BY <2>1, <3>1, SumNat
    <2>7. acct[p] = SumFunctionOnSet(g, Windows) BY <1>1, <1>15 DEF Accounts
    <2> QED BY <2>3, <2>4, <2>5, <2>6, <2>7
  <1>18. Accounts'
    <2>1. \A f \in Requests : Plan(f) # p => held'[f] = held[f] BY <1>5, <1>6
    <2>2. SumFunctionOnSet(TableBytes(p)', Windows) = 0
      <3>1. PICK h : h = TableBytes(p)' OBVIOUS
      <3>2. \A n \in Windows : h[n] = 0 /\ h[n] \in Nat BY <1>7, <3>1 DEF TableBytes
      <3>3. SumFunctionOnSet(h, Windows) = 0 BY <3>2, Finite, SumNat
      <3> QED BY <3>1, <3>3
    <2> QED BY <1>1, <1>6, <1>7, <2>1, <2>2, AccountKeeps
  <1>19. Totals'
    <2>1. PICK h, f : h = held /\ f = held' OBVIOUS
    <2>2. \A q \in Requests : h[q] \in Int /\ f[q] = IF q \in ts THEN 0 ELSE h[q] BY <1>2, <1>6, <2>1
    <2>3. SumFunctionOnSet(f, Requests) = SumFunctionOnSet(h, Requests) - SumFunctionOnSet(h, ts)
      BY <1>5, <2>2, Finite, SumWithout
    <2>4. SumFunctionOnSet(held', Requests) = SumFunctionOnSet(held, Requests) - acct[p] BY <1>17, <2>1, <2>3
    <2>5. resv' = resv /\ handle' = handle /\ total \in Int BY <1>1 DEF KType
    <2>6. Owned' = Owned - acct[p] /\ Owned \in Nat BY <1>17, <2>4, <2>5, SumTypes DEF Owned
    <2>7. total' \in Int /\ total' <= total BY <1>1, <1>17, <2>5
    <2>8. Bounded' BY <2>5, <2>7, Falls DEF Totals
    <2> QED BY <1>1, <1>17, <2>5, <2>6, <2>8 DEF Totals
  <1>20. Rooms'
    <2>1. PICK f, h : f = [q \in Mkv |-> Len(tabOrder[q])] /\ h = [q \in Mkv |-> Len(tabOrder'[q])] OBVIOUS
    <2>2. \A q \in Mkv : f[q] \in Nat /\ h[q] \in Int /\ f[q] \in Int BY <1>3, <1>8, <2>1, LenProperties
    <2>3. \A q \in Mkv \ {p} : f[q] = h[q] BY <1>8, <2>1
    <2>4. SumFunctionOnSet(h, Mkv) = SumFunctionOnSet(f, Mkv) - f[p] + h[p] BY <1>1, <2>2, <2>3, Finite, SumChange
    <2>5. h[p] = 0 /\ f[p] \in Nat BY <1>1, <1>8, <2>1, <2>2, LenProperties
    <2>6. SumFunctionOnSet(f, Mkv) \in Int /\ SumFunctionOnSet(f, Mkv) <= Tables
      <3>1. SumFunctionOnSet(f, Mkv) \in Int BY <2>2, Finite, SumInt
      <3> QED BY <2>1, <3>1 DEF Rooms
    <2>7. SumFunctionOnSet(h, Mkv) <= Tables BY <2>4, <2>5, <2>6, RoomAssumption
    <2> QED BY <2>1, <2>7 DEF Rooms
  <1> QED BY <1>9, <1>11, <1>12, <1>13, <1>14, <1>18, <1>19, <1>20

-----------------------------------------------------------------------------
(* The invariant, and what follows from it.                                *)

LEMMA InitKeeps == Init => KInv
  <1> SUFFICES ASSUME Init PROVE KInv OBVIOUS
  <1> USE DEF Init
  <1>1. KType
    <2>1. <<>> \in Seq(Windows) /\ <<>> \in Seq(Plans) BY EmptySeq
    <2>2. wants \in [Requests -> [p : Plans, n : Windows, t : Tracks]] BY AsksAssumption
    <2> QED BY <2>1, <2>2 DEF KType, KSteps
  <1>2. Requested
    BY DEF Requested, Side, Visiting, Ended, Gone, Source, Wanted, Reserved, Handled, Building
  <1>3. Tabs
    <2>1. \A r \in Requests : Weighed(r) BY Sizes DEF Weighed
    <2>2. \A r \in Requests : Placed(r) BY DEF Placed
    <2>3. \A p \in Mkv : \A n \in Windows : Flown(p, n) /\ Tabled(p, n) BY DEF Flown, Tabled
    <2> QED BY <2>1, <2>2, <2>3 DEF Tabs
  <1>4. Shares BY DEF Shares, Shared, Reading, Running, Timed, Lent, Building
  <1>5. TabAges
    <2>1. ToSet(<<>>) = {} /\ IsInjective(<<>>) BY DEF ToSet, IsInjective
    <2> QED BY <2>1 DEF TabAges
  <1>6. ASSUME NEW f, \A r \in Requests : f[r] = 0 PROVE SumFunctionOnSet(f, Requests) = 0
    <2>1. \A r \in Requests : f[r] \in Nat BY <1>6
    <2> QED BY <1>6, <2>1, Finite, SumNat
  <1>7. Totals
    <2>1. SumFunctionOnSet(resv, Requests) = 0 BY <1>6
    <2>2. SumFunctionOnSet(held, Requests) = 0 BY <1>6
    <2>3. SumFunctionOnSet(handle, Requests) = 0 BY <1>6
    <2>4. total = 0 BY DEF Init
    <2>5. Bounded BY <2>1, <2>4, Empty
    <2> QED BY <2>1, <2>2, <2>3, <2>4, <2>5 DEF Totals, Owned
  <1>8. Accounts
    <2>1. ASSUME NEW p \in Mkv PROVE SumFunctionOnSet(TableBytes(p), Windows) = 0
      <3>1. PICK g : g = TableBytes(p) OBVIOUS
      <3>2. \A n \in Windows : g[n] = 0 /\ g[n] \in Nat BY <3>1 DEF TableBytes
      <3>3. SumFunctionOnSet(g, Windows) = 0 BY <3>2, Finite, SumNat
      <3> QED BY <3>1, <3>3
    <2> QED BY <2>1 DEF Accounts
  <1>9. Rooms
    <2>1. PICK g : g = [p \in Mkv |-> Len(tabOrder[p])] OBVIOUS
    <2>2. \A p \in Mkv : g[p] = 0 /\ g[p] \in Nat BY <2>1
    <2>3. SumFunctionOnSet(g, Mkv) = 0 BY <2>2, Finite, SumNat
    <2> QED BY <2>1, <2>3, RoomAssumption DEF Rooms
  <1> QED BY <1>1, <1>2, <1>3, <1>4, <1>5, <1>7, <1>8, <1>9 DEF KInv

LEMMA StutterKeeps == ASSUME KInv, UNCHANGED vars PROVE KInv'
  <1> USE DEF KInv, vars, kv, tab, share, claim, ends
  <1>1. \A q \in Requests : Plan(q)' = Plan(q) /\ Win(q)' = Win(q) /\ Need(q)' = Need(q) BY SameAsked
  <1>2. KType' BY DEF KType
  <1>3. Requested' BY <1>1 DEF Requested, Side, Visiting, Ended, Gone, Source, Wanted, Reserved, Handled
  <1>4. Tabs'
    <2>1. \A p \in Mkv : \A n \in Windows : (Flown(p, n) /\ Tabled(p, n))'
      BY <1>1 DEF Tabs, Flown, Tabled, KType
    <2>2. \A q \in Requests : (Placed(q) /\ Weighed(q))' BY <1>1 DEF Tabs, Placed, Weighed
    <2> QED BY <2>1, <2>2 DEF Tabs
  <1>5. Shares'
    <2>1. \A p \in Mp4 : \A n \in Windows : Shared(p, n)' BY <1>1 DEF Shares, Shared, KType
    <2>2. \A q \in Requests : (Reading(q) /\ Running(q) /\ Timed(q) /\ Lent(q))'
      BY <1>1 DEF Shares, Reading, Running, Timed, Lent
    <2> QED BY <2>1, <2>2 DEF Shares
  <1>6. Totals' /\ Accounts' /\ Rooms' /\ TabAges' BY SumsSame
  <1> QED BY <1>2, <1>3, <1>4, <1>5, <1>6

LEMMA StepsKeep == KInv /\ [Next]_vars => KInv'
  <1> SUFFICES ASSUME KInv, [Next]_vars PROVE KInv' OBVIOUS
  <1>1. ASSUME NEW r \in Requests, Serve(r) \/ Walk(r) \/ Read(r) \/ WalkPanics(r) \/ Leave(r) \/ TTL(r)
        PROVE  KInv'
    <2>1. CASE Hit(r) \/ Join(r) \/ Lead(r) \/ Leave(r) \/ LookUp(r)
      BY <2>1, HitKeeps, JoinKeeps, LeadKeeps, LeaveKeeps, LookUpKeeps
    <2>2. CASE Await(r) \/ QueueEnds(r) \/ Copy(r) \/ Busy(r) \/ GraceOver(r) \/ HeldUp(r) \/ ReadSeen(r) \/ CutShort(r)
      BY <2>2, WaitersKeep
    <2>3. CASE Reserve(r) \/ Lock(r) \/ Unlock(r) \/ ReserveAgain(r)
      BY <2>3, ReserveKeeps, LockKeeps, UnlockKeeps, ReserveAgainKeeps
    <2>4. CASE Drop(r)
      <3>1. pc[r] = "drop" BY <2>4 DEF Drop
      <3>2. visit[r] \in Seq(Plans) /\ visit[r] # <<>> BY <3>1 DEF KInv, KType, Requested, Visiting
      <3>3. Head(visit[r]) \in Mkv \cup Mp4 BY <3>2, HeadTailProperties DEF Plans
      <3> QED BY <2>4, <3>3, DropTableKeeps, DropSharedKeeps
    <2>5. CASE Publish(r) \/ Take(r) BY <2>5, PublishKeeps, TakeKeeps
    <2>6. CASE Written(r) \/ Close(r) BY <2>6, ReleaseKeeps
    <2>7. CASE Begin(r) \/ Unshared(r) \/ Read(r) BY <2>7, BeginKeeps, ReadOverKeeps
    <2>8. CASE Served(r) \/ TTL(r) BY <2>8, ServedKeeps, TTLKeeps
    <2>9. CASE WalkEnds(r) \/ WalkFails(r) \/ WalkPanics(r) BY <2>9, WalkEndsKeeps, WalkStops
    <2> QED BY <1>1, <2>1, <2>2, <2>3, <2>4, <2>5, <2>6, <2>7, <2>8, <2>9 DEF Serve, Walk
  <1>2. ASSUME NEW p \in Plans, Collect(p) PROVE KInv' BY <1>2, CollectKeeps
  <1>3. CASE UNCHANGED vars BY <1>3, StutterKeeps
  <1> QED BY <1>1, <1>2, <1>3 DEF Next

\* The invariant of the budget, the tables and the shared windows, for any plans and requests.
THEOREM BudgetInvariant == Spec => []KInv
  <1> QED BY InitKeeps, StepsKeep, PTL DEF Spec

\* mp4share.go: a window in its place is read, or kept: whatever ends, fails, panics or runs out late, none
\* stays busy with nobody reading it, and what is kept can be found.
THEOREM NoWindowIsDead == Spec => []NoDeadWindow
  <1>1. KInv => NoDeadWindow
    <2> SUFFICES ASSUME KInv PROVE NoDeadWindow OBVIOUS
    <2> USE DEF KInv
    <2>1. ASSUME NEW p \in Mp4, NEW n \in Windows, wins[p][n] # None PROVE wins[p][n] \notin done \/ wins[p][n] \in runs
      <3>1. PICK w \in Requests : w = wins[p][n] BY <2>1 DEF KType
      <3>2. w \in runs \/ pc[w] \in Building BY <2>1, <3>1 DEF Shares, Shared
      <3>3. w \in done => pc[w] \notin Building BY DEF Requested, Ended, Built, Building
      <3> QED BY <3>1, <3>2, <3>3
    <2>2. \A w \in runs : wins[Plan(w)][Win(w)] = w BY DEF Shares, Running, KType
    <2> QED BY <2>1, <2>2 DEF NoDeadWindow
  <1> QED BY <1>1, BudgetInvariant, PTL

\* hlsstream.go, windowBytesTotal and tabAcct: each byte reserved is given back exactly once, and a plan's
\* account is what its tables hold, through walks that fail, tables dropped, taken from, stored twice or
\* collected, in any order of any number of requests.
THEOREM BytesAreConserved == Spec => []Conserved
  <1>1. KInv => Conserved
    <2> SUFFICES ASSUME KInv PROVE Conserved OBVIOUS
    <2> USE DEF KInv
    <2>1. Holding = Owned
      <3>1. PICK f, g, h : /\ f = [r \in Requests |-> resv[r] + held[r]] /\ g = [r \in Requests |-> resv[r] + held[r] + handle[r]]
                           /\ h = handle
        OBVIOUS
      <3>2. \A r \in Requests : resv[r] \in Nat /\ held[r] \in Nat /\ handle[r] \in Nat BY DEF KType
      <3>3. \A r \in Requests : resv[r] \in Int /\ held[r] \in Int /\ f[r] = resv[r] + held[r] BY <3>1, <3>2
      <3>4. \A r \in Requests : f[r] \in Int /\ h[r] \in Int /\ g[r] = f[r] + h[r] BY <3>1, <3>2
      <3>5. SumFunctionOnSet(f, Requests) = SumFunctionOnSet(resv, Requests) + SumFunctionOnSet(held, Requests)
        BY <3>3, Finite, SumPlus
      <3>6. SumFunctionOnSet(g, Requests) = SumFunctionOnSet(f, Requests) + SumFunctionOnSet(h, Requests)
        BY <3>4, Finite, SumPlus
      <3>7. Holding = SumFunctionOnSet(g, Requests) BY <3>1 DEF Holding, SumFunction
      <3> QED BY <3>1, <3>5, <3>6, <3>7, SumTypes DEF Owned
    <2>2. \A p \in Mkv : SumFunction([n \in Windows |-> IF tables[p][n] = None THEN 0 ELSE held[tables[p][n]]])
                         = SumFunctionOnSet(TableBytes(p), Windows)
      BY DEF SumFunction, TableBytes
    <2> QED BY <2>1, <2>2 DEF Conserved, Totals, Accounts
  <1> QED BY <1>1, BudgetInvariant, PTL

\* SetWindowBytes and SetTableCacheBytes: no order of reserves, reclaims and stores of any number of plans
\* takes the process over either budget, but for what windowSpan underestimates; each plan's age order is
\* that of its tables.
THEOREM BudgetsHold == Spec => []WithinBudget
  <1>1. KInv => WithinBudget
    <2> SUFFICES ASSUME KInv PROVE WithinBudget OBVIOUS
    <2> USE DEF KInv
    <2>1. acct \in [Mkv -> Nat]
      <3>1. ASSUME NEW p \in Mkv PROVE acct[p] \in Nat
        <4>1. PICK g : g = TableBytes(p) OBVIOUS
        <4>2. \A n \in Windows : g[n] \in Nat BY <4>1, TableBytesType
        <4>3. SumFunctionOnSet(g, Windows) \in Nat BY <4>2, Finite, SumNat
        <4> QED BY <4>1, <4>3 DEF Accounts
      <3> QED BY <3>1 DEF KType
    <2>2. total \in Nat
      <3>1. Owned \in Nat /\ total \in Int BY SumTypes DEF Owned, KType
      <3> QED BY <3>1 DEF Totals
    <2>3. /\ {left, cancelled, runs, timers, done, ok} \subseteq SUBSET Requests
          /\ \A f \in {owed, kept, taken} : f \in [Requests -> SUBSET Tracks]
          /\ \A f \in {held, resv, handle} : f \in [Requests -> Nat]
      BY DEF KType
    <2>4. TypeOK BY <2>1, <2>2, <2>3 DEF TypeOK, KType, KSteps
    <2>5. TablesKept <= Tables
      <3>1. TablesKept = SumFunctionOnSet([p \in Mkv |-> Len(tabOrder[p])], Mkv) BY DEF TablesKept, SumFunction
      <3> QED BY <3>1 DEF Rooms
    <2>6. ASSUME NEW n \in Windows, \A m \in Windows : Span[n] <= Span[m]
          PROVE  total * Span[n] <= Budget * Max({Span[n], SizeOf(Tracks)})
      <3>1. PICK a, b, c, s \in Nat : /\ a = Span[n] /\ b = Heaviest(n) /\ c = b - a
                                      /\ s = SumFunctionOnSet(resv, Requests)
        <4>1. Span[n] \in Nat /\ Heaviest(n) \in Nat /\ Heaviest(n) - Span[n] \in Nat BY Weights
        <4> QED BY <4>1, SumTypes
      <3>2. total * a + s * c <= Budget * b BY <2>6, <3>1 DEF Totals, Bounded, Shortest
      <3>3. s * c \in Nat /\ total * a \in Int /\ Budget * b \in Int BY <2>2, <3>1, SizesAssumption
      <3>4. total * a <= Budget * b BY <3>2, <3>3
      <3> QED BY <3>1, <3>4 DEF Heaviest
    <2> QED BY <2>4, <2>5, <2>6 DEF WithinBudget, TabAges
  <1> QED BY <1>1, BudgetInvariant, PTL

=============================================================================
