------------------------- MODULE GrowingPlanProofs -------------------------
(***************************************************************************)
(* What a plan of a file still being written guarantees, for every set of  *)
(* files, number of requests and of scans that fail.                       *)
(*                                                                         *)
(* The first part is about the loops of the model: a recursion on the      *)
(* numbers up to n has a solution (RecursionExists), so Picked, the cuts   *)
(* of PlanHLS and those of a scan are what their equations say, one        *)
(* element at a time. Covers is what a scan keeps true of the cuts: they   *)
(* are those of the first m blocks of the file, m no less than what was    *)
(* walked, since a scan that failed may have recorded keyframes ahead of   *)
(* the cursor and a retry records them once.                               *)
(*                                                                         *)
(* The second is one lemma for each step of a scan (BlockMoves to          *)
(* FailMoves), on which each invariant then splits: WalkInv, where the     *)
(* cursor is; CutsInv; ListInv, the playlist; LeadInv, the opening frames; *)
(* ReqInv, the requests.                                                   *)
(*                                                                         *)
(* The third is about the segments. A track's times are followed as the    *)
(* file is written (Heard): what is written of a window no longer changes  *)
(* it once every track was heard past its end, and that is what a folded   *)
(* grid window says (GridInv, then SettledInv): the window it publishes,   *)
(* and the one after when its audio spills, are settled. A walk over what  *)
(* is written is then the full pass's (Right), whatever ends the walks     *)
(* before it recorded (EndsKnown) and whichever side of a boundary was     *)
(* asked for first (StartsKnown); AnswersInv keeps it through a request's  *)
(* steps, and through those of the scans between them.                     *)
(***************************************************************************)
EXTENDS GrowingPlan, SumsAndOrders, SequenceTheorems

\* A set that holds 0, and with each number of 1..n the one before it, holds 0..n.
LEMMA UpTo ==
    ASSUME NEW n \in Nat, NEW S, 0 \in S, \A i \in 1..n : i - 1 \in S => i \in S
    PROVE  \A i \in 0..n : i \in S
<1> DEFINE T == {i \in 0..n : i \notin S}
<1>1. SUFFICES ASSUME T # {} PROVE FALSE
  OBVIOUS
<1>2. PICK m \in T : \A k \in 0..m-1 : k \notin T
  <2> T \subseteq 0..n
    OBVIOUS
  <2> HIDE DEF T
  <2> QED BY <1>1, LeastIndex
<1>3. m \in 1..n /\ m \notin S /\ m - 1 \in 0..n /\ m - 1 \in 0..m-1
  BY <1>2
<1>4. m - 1 \in S
  BY <1>2, <1>3
<1> QED BY <1>3, <1>4

\* A recursion on the numbers up to n, each value made of the one before it, has a solution.
Follows(c, n, base, D) == c[0] = base /\ \A i \in 1..n : c[i] = D[<<c[i-1], i>>]

LEMMA RecursionExists ==
    ASSUME NEW V, NEW base \in V, NEW n \in Nat, NEW D \in [V \X (1..n) -> V]
    PROVE  \E c : c \in [0..n -> V] /\ Follows(c, n, base, D)
<1> USE DEF Follows
<1> DEFINE Runs(m, c) == c \in [0..m -> V] /\ Follows(c, m, base, D)
           S == {m \in 0..n : \E c : Runs(m, c)}
<1>1. 0 \in S
  <2>1. Runs(0, [i \in 0..0 |-> base])
    OBVIOUS
  <2> HIDE DEF Runs
  <2> QED BY <2>1
<1>2. ASSUME NEW i \in 1..n, i - 1 \in S PROVE i \in S
  <2>1. PICK c : Runs(i - 1, c)
    BY <1>2
  <2>2. c[i-1] \in V /\ D[<<c[i-1], i>>] \in V
    BY <2>1
  <2> DEFINE d == [j \in 0..i |-> IF j = i THEN D[<<c[i-1], i>>] ELSE c[j]]
  <2>3. d \in [0..i -> V] /\ d[0] = base
    BY <2>1, <2>2
  <2>4. ASSUME NEW j \in 1..i PROVE d[j] = D[<<d[j-1], j>>]
    <3>1. d[j-1] = c[j-1] /\ d[j] = IF j = i THEN D[<<c[i-1], i>>] ELSE c[j]
      OBVIOUS
    <3>2. j # i => c[j] = D[<<c[j-1], j>>]
      BY <2>1
    <3> HIDE DEF d
    <3> QED BY <3>1, <3>2
  <2>5. Runs(i, d)
    <3> HIDE DEF d
    <3> QED BY <2>3, <2>4
  <2> HIDE DEF Runs
  <2> QED BY <2>5
<1>3. n \in S
  <2> HIDE DEF S
  <2> QED BY <1>1, <1>2, UpTo
<1> QED BY <1>3

-----------------------------------------------------------------------------
(* The elements of a sequence at some places.                               *)

Picks(s, I, out) ==
  out[0] = <<>> /\ \A i \in 1..Len(s) : out[i] = IF i \in I THEN Append(out[i-1], s[i]) ELSE out[i-1]

LEMMA PickedIs ==
    ASSUME NEW V, NEW s \in Seq(V), NEW I
    PROVE  \E out : out \in [0..Len(s) -> Seq(V)] /\ Picks(s, I, out) /\ Picked(s, I) = out[Len(s)]
<1> DEFINE Is(g) == g = [i \in 0..Len(s) |->
                          IF i = 0 THEN <<>> ELSE IF i \in I THEN Append(g[i-1], s[i]) ELSE g[i-1]]
           D == [x \in Seq(V) \X (1..Len(s)) |-> IF x[2] \in I THEN Append(x[1], s[x[2]]) ELSE x[1]]
<1>1. D \in [Seq(V) \X (1..Len(s)) -> Seq(V)] /\ <<>> \in Seq(V) /\ Len(s) \in Nat
  OBVIOUS
<1>2. PICK c : c \in [0..Len(s) -> Seq(V)] /\ Follows(c, Len(s), <<>>, D)
  <2> HIDE DEF D
  <2> QED BY <1>1, RecursionExists
<1>3. ASSUME NEW i \in 1..Len(s) PROVE c[i] = IF i \in I THEN Append(c[i-1], s[i]) ELSE c[i-1]
  <2>1. i - 1 \in 0..Len(s) /\ i \in 1..Len(s)
    BY <1>1
  <2>2. c[i-1] \in Seq(V) /\ c[i] = D[<<c[i-1], i>>]
    <3> HIDE DEF D
    <3> QED BY <1>2, <2>1 DEF Follows
  <2>3. D[<<c[i-1], i>>] = IF i \in I THEN Append(c[i-1], s[i]) ELSE c[i-1]
    BY <2>1, <2>2
  <2> QED BY <2>2, <2>3
<1>4. Is(c)
  <2> HIDE DEF D
  <2>1. c = [i \in 0..Len(s) |-> c[i]]
    BY <1>2
  <2>2. ASSUME NEW i \in 0..Len(s)
        PROVE  c[i] = IF i = 0 THEN <<>> ELSE IF i \in I THEN Append(c[i-1], s[i]) ELSE c[i-1]
    <3>1. i = 0 \/ i \in 1..Len(s)
      BY <1>1
    <3> QED BY <1>2, <1>3, <3>1 DEF Follows
  <2> QED BY <2>1, <2>2, Zenon
<1>5. Picked(s, I) = (CHOOSE g : Is(g))[Len(s)]
  BY DEF Picked
<1>6. PICK g : Is(g) /\ Picked(s, I) = g[Len(s)]
  <2> HIDE DEF Is
  <2> QED BY <1>4, <1>5, Zenon
<1> HIDE DEF D
<1>7. g[0] = <<>> /\ \A i \in 1..Len(s) : g[i] = IF i \in I THEN Append(g[i-1], s[i]) ELSE g[i-1]
  <2>1. g = [i \in 0..Len(s) |-> IF i = 0 THEN <<>> ELSE IF i \in I THEN Append(g[i-1], s[i]) ELSE g[i-1]]
    BY <1>6
  <2>2. ASSUME NEW i \in 1..Len(s) PROVE g[i] = IF i \in I THEN Append(g[i-1], s[i]) ELSE g[i-1]
    <3>1. i \in 0..Len(s) /\ i # 0
      OBVIOUS
    <3> QED BY <2>1, <3>1
  <2>3. 0 \in 0..Len(s)
    BY <1>1
  <2>4. g[0] = <<>>
    BY <2>1, <2>3
  <2> QED BY <2>2, <2>4
<1>8. \A i \in 0..Len(s) : i \in {j \in 0..Len(s) : g[j] \in Seq(V)}
  <2> DEFINE S == {j \in 0..Len(s) : g[j] \in Seq(V)}
  <2>1. 0 \in S
    <3>1. g[0] \in Seq(V) /\ Len(s) \in Nat
      BY <1>1, <1>7
    <3> QED BY <3>1
  <2>2. ASSUME NEW i \in 1..Len(s), i - 1 \in S PROVE i \in S
    <3>1. i \in 0..Len(s) /\ g[i-1] \in Seq(V) /\ s[i] \in V
      BY <1>1, <2>2
    <3>2. g[i] \in Seq(V)
      <4>1. g[i] = IF i \in I THEN Append(g[i-1], s[i]) ELSE g[i-1]
        BY <1>7
      <4> QED BY <3>1, <4>1
    <3> QED BY <3>1, <3>2
  <2> HIDE DEF S
  <2>3. \A i \in 0..Len(s) : i \in S
    BY <1>1, <2>1, <2>2, UpTo
  <2> QED BY <2>3 DEF S
<1>9. g \in [0..Len(s) -> Seq(V)]
  BY <1>6, <1>8
<1> QED BY <1>6, <1>7, <1>9 DEF Picks

LEMMA PickedType == ASSUME NEW V, NEW s \in Seq(V), NEW I PROVE Picked(s, I) \in Seq(V)
<1>1. PICK out : out \in [0..Len(s) -> Seq(V)] /\ Picked(s, I) = out[Len(s)]
  BY PickedIs, Zenon
<1> QED BY <1>1

\* Two runs from one place that take the same elements agree.
Lockstep(n, a, b) == a[0] = b[0] /\ \A i \in 1..n : a[i-1] = b[i-1] => a[i] = b[i]
Agree(n, a, b) == \A i \in 0..n : a[i] = b[i]

LEMMA RunsAgree == ASSUME NEW n \in Nat, NEW a, NEW b, Lockstep(n, a, b) PROVE Agree(n, a, b)
<1> USE DEF Lockstep, Agree
<1> DEFINE S == {i \in 0..n : a[i] = b[i]}
<1>1. 0 \in S /\ \A i \in 1..n : i - 1 \in S => i \in S
  OBVIOUS
<1>2. \A i \in 0..n : i \in S
  <2> HIDE DEF S
  <2> QED BY <1>1, UpTo
<1> QED BY <1>2

\* Only the places of the sequence count.
LEMMA PickedSame ==
    ASSUME NEW V, NEW s \in Seq(V), NEW I, NEW J, \A i \in 1..Len(s) : i \in I <=> i \in J
    PROVE  Picked(s, I) = Picked(s, J)
<1>1. PICK a : Picks(s, I, a) /\ Picked(s, I) = a[Len(s)]
  BY PickedIs, Zenon
<1>2. PICK b : Picks(s, J, b) /\ Picked(s, J) = b[Len(s)]
  BY PickedIs, Zenon
<1>3. \A i \in 0..Len(s) : a[i] = b[i]
  <2>1. \A i \in 1..Len(s) : a[i-1] = b[i-1] => a[i] = b[i]
    BY <1>1, <1>2 DEF Picks
  <2>2. a[0] = b[0]
    BY <1>1, <1>2 DEF Picks
  <2>3. Len(s) \in Nat
    OBVIOUS
  <2>4. Lockstep(Len(s), a, b)
    BY <2>1, <2>2 DEF Lockstep
  <2> QED BY <2>3, <2>4, RunsAgree DEF Agree
<1> QED BY <1>1, <1>2, <1>3

PickedNext(s, x, I) ==
  Picked(Append(s, x), I) = IF Len(s) + 1 \in I THEN Append(Picked(s, I), x) ELSE Picked(s, I)

LEMMA PickedAppend == ASSUME NEW V, NEW s \in Seq(V), NEW x \in V, NEW I PROVE PickedNext(s, x, I)
<1> USE DEF PickedNext
<1> DEFINE t == Append(s, x)
<1>0. t \in Seq(V) /\ Len(t) = Len(s) + 1 /\ t[Len(s) + 1] = x /\ \A i \in 1..Len(s) : t[i] = s[i]
  OBVIOUS
<1> HIDE DEF t
<1>1. PICK a : Picks(s, I, a) /\ Picked(s, I) = a[Len(s)]
  BY PickedIs, Zenon
<1>2. PICK b : Picks(t, I, b) /\ Picked(t, I) = b[Len(t)]
  BY <1>0, PickedIs, Zenon
<1>3. \A i \in 0..Len(s) : a[i] = b[i]
  <2>1. \A i \in 1..Len(s) : a[i-1] = b[i-1] => a[i] = b[i]
    BY <1>0, <1>1, <1>2 DEF Picks
  <2>2. a[0] = b[0]
    BY <1>1, <1>2 DEF Picks
  <2>3. Len(s) \in Nat
    OBVIOUS
  <2>4. Lockstep(Len(s), a, b)
    BY <2>1, <2>2 DEF Lockstep
  <2> QED BY <2>3, <2>4, RunsAgree DEF Agree
<1>4. b[Len(s) + 1] = IF Len(s) + 1 \in I THEN Append(b[Len(s)], x) ELSE b[Len(s)]
  BY <1>0, <1>2 DEF Picks
<1> QED BY <1>0, <1>1, <1>2, <1>3, <1>4 DEF t

LEMMA PickedEmpty == ASSUME NEW I PROVE Picked(<<>>, I) = <<>>
<1>1. <<>> \in Seq({}) /\ Len(<<>>) = 0
  OBVIOUS
<1>2. PICK out : Picks(<<>>, I, out) /\ Picked(<<>>, I) = out[Len(<<>>)]
  BY <1>1, PickedIs, Zenon
<1> QED BY <1>1, <1>2 DEF Picks

\* The first i elements of a sequence, one by one.
PickedSteps(s, I) ==
  /\ Picked(SubSeq(s, 1, 0), I) = <<>>
  /\ Picked(SubSeq(s, 1, Len(s)), I) = Picked(s, I)
  /\ \A i \in 1..Len(s) :
       Picked(SubSeq(s, 1, i), I) =
         IF i \in I THEN Append(Picked(SubSeq(s, 1, i - 1), I), s[i]) ELSE Picked(SubSeq(s, 1, i - 1), I)

LEMMA PickedStep == ASSUME NEW V, NEW s \in Seq(V), NEW I PROVE PickedSteps(s, I)
<1>1. SubSeq(s, 1, 0) = <<>> /\ SubSeq(s, 1, Len(s)) = s
  OBVIOUS
<1>2. ASSUME NEW i \in 1..Len(s)
      PROVE  Picked(SubSeq(s, 1, i), I) =
               IF i \in I THEN Append(Picked(SubSeq(s, 1, i - 1), I), s[i]) ELSE Picked(SubSeq(s, 1, i - 1), I)
  <2>1. /\ SubSeq(s, 1, i - 1) \in Seq(V) /\ Len(SubSeq(s, 1, i - 1)) = i - 1 /\ s[i] \in V
        /\ SubSeq(s, 1, i) = Append(SubSeq(s, 1, i - 1), s[i])
    OBVIOUS
  <2> DEFINE t == SubSeq(s, 1, i - 1)
  <2> HIDE DEF t
  <2>2. t \in Seq(V) /\ Len(t) + 1 = i /\ s[i] \in V /\ SubSeq(s, 1, i) = Append(t, s[i])
    BY <2>1 DEF t
  <2>3. Picked(Append(t, s[i]), I) = IF Len(t) + 1 \in I THEN Append(Picked(t, I), s[i]) ELSE Picked(t, I)
    <3>1. t \in Seq(V) /\ s[i] \in V
      BY <2>2
    <3>2. PickedNext(t, s[i], I)
      BY <3>1, PickedAppend
    <3> QED BY <3>2 DEF PickedNext
  <2> QED BY <2>2, <2>3 DEF t
<1>3. Picked(SubSeq(s, 1, 0), I) = <<>>
  BY <1>1, PickedEmpty, Zenon
<1>4. Picked(SubSeq(s, 1, Len(s)), I) = Picked(s, I)
  BY <1>1, Zenon
<1> QED BY <1>2, <1>3, <1>4, Zenon DEF PickedSteps

-----------------------------------------------------------------------------
(* The cuts after the first blocks of a file.                               *)

Cut    == [ms : Nat, at : Nat]
CutSeq == Seq(Cut) \ {<<>>}

LEMMA FileTypes ==
    ASSUME NEW f \in Files
    PROVE  /\ f.blocks \in Seq(Blocks) /\ \A i \in 1..Len(f.blocks) : f.blocks[i].t \in f.tracks
           /\ f.ends \in Seq(Nat) /\ Len(f.ends) \in Nat \ {0} /\ f.ends[Len(f.ends)] = Len(f.blocks)
           /\ \A c, d \in 1..Len(f.ends) : c <= d => f.ends[c] <= f.ends[d]
           /\ \A c \in 1..Len(f.ends) : f.ends[c] \in 0..Len(f.blocks)
           /\ Len(f.blocks) \in Nat /\ "v" \in f.tracks /\ f.tracks \subseteq {"v", "a"}
           /\ f.grid \in BOOLEAN /\ (f.grid => "a" \in f.tracks)
           /\ f.ending \in {"cues", "declared", "open"}
<1>1. /\ f.blocks \in Seq(Blocks) /\ \A i \in DOMAIN f.blocks : f.blocks[i].t \in f.tracks
      /\ f.ends \in Seq(Nat) \ {<<>>} /\ Last(f.ends) = Len(f.blocks)
      /\ \A c, d \in DOMAIN f.ends : c <= d => f.ends[c] <= f.ends[d]
      /\ "v" \in f.tracks /\ f.tracks \subseteq {"v", "a"}
      /\ f.grid \in BOOLEAN /\ (f.grid => "a" \in f.tracks)
      /\ f.ending \in {"cues", "declared", "open"}
  BY FilesAssumption, Zenon
<1>2. /\ DOMAIN f.ends = 1..Len(f.ends) /\ Len(f.ends) \in Nat \ {0} /\ f.ends[Len(f.ends)] = Len(f.blocks)
      /\ DOMAIN f.blocks = 1..Len(f.blocks) /\ Len(f.blocks) \in Nat
  <2>1. f.ends \in Seq(Nat) /\ f.ends # <<>>
    BY <1>1
  <2>2. DOMAIN f.ends = 1..Len(f.ends) /\ Len(f.ends) \in Nat \ {0}
    BY <2>1
  <2> QED BY <1>1, <2>2 DEF Last
<1>3. ASSUME NEW c \in 1..Len(f.ends) PROVE f.ends[c] \in 0..Len(f.blocks)
  <2>1. f.ends[c] \in Nat /\ c <= Len(f.ends) /\ Len(f.ends) \in 1..Len(f.ends)
    BY <1>1, <1>2
  <2>2. f.ends[c] <= f.ends[Len(f.ends)]
    BY <1>1, <1>2, <2>1
  <2> QED BY <1>2, <2>1, <2>2
<1> QED BY <1>1, <1>2, <1>3

\* A block lies in one cluster.
LEMMA ClusterIs ==
    ASSUME NEW f \in Files, NEW i \in 1..Len(f.blocks)
    PROVE  /\ ClusterOf(f, i) \in 1..Len(f.ends)
           /\ \A c \in 1..Len(f.ends) : i <= f.ends[c] /\ (c > 1 => i > f.ends[c-1]) => ClusterOf(f, i) = c
<1> DEFINE In(c) == i <= f.ends[c] /\ (c > 1 => i > f.ends[c-1])
           T == {c \in 1..Len(f.ends) : i <= f.ends[c]}
<1>1. /\ DOMAIN f.ends = 1..Len(f.ends) /\ Len(f.ends) \in Nat \ {0} /\ f.ends[Len(f.ends)] = Len(f.blocks)
      /\ \A c \in 1..Len(f.ends) : f.ends[c] \in Nat
      /\ \A c, d \in 1..Len(f.ends) : c <= d => f.ends[c] <= f.ends[d]
      /\ Len(f.blocks) \in Nat
  BY FileTypes
<1>2. T \subseteq 0..Len(f.ends) /\ Len(f.ends) \in T
  BY <1>1
<1>3. PICK m \in T : \A k \in 0..m-1 : k \notin T
  <2> HIDE DEF T
  <2> QED BY <1>1, <1>2, LeastIndex
<1>4. m \in 1..Len(f.ends) /\ In(m)
  BY <1>1, <1>3
<1>5. ASSUME NEW c \in 1..Len(f.ends), NEW d \in 1..Len(f.ends), In(c), In(d) PROVE ~(c < d)
  <2>1. c < d => c <= d - 1 /\ d - 1 \in 1..Len(f.ends) /\ d > 1
    BY <1>1
  <2>2. c < d => f.ends[c] <= f.ends[d-1] /\ f.ends[c] \in Nat /\ f.ends[d-1] \in Nat
    BY <1>1, <2>1
  <2> QED BY <1>1, <1>5, <2>1, <2>2
<1>6. ClusterOf(f, i) = CHOOSE c \in 1..Len(f.ends) : In(c)
  BY <1>1 DEF ClusterOf
<1> HIDE DEF In
<1>7. ClusterOf(f, i) \in 1..Len(f.ends) /\ In(ClusterOf(f, i))
  BY <1>4, <1>6
<1>8. ASSUME NEW c \in 1..Len(f.ends), In(c) PROVE ClusterOf(f, i) = c
  BY <1>1, <1>5, <1>7, <1>8
<1> QED BY <1>7, <1>8 DEF In

\* The blocks as the index would name them, and those it names.
KeyList(f)   == [i \in DOMAIN f.blocks |-> [ms |-> f.blocks[i].ms, at |-> ClusterOf(f, i)]]
KeyPlaces(f) == {i \in DOMAIN f.blocks : IsKey(f.blocks[i])}
KeysTo(f, i) == Picked(SubSeq(KeyList(f), 1, i), KeyPlaces(f))

LEMMA KeyListType ==
    ASSUME NEW f \in Files
    PROVE  /\ KeyList(f) \in Seq(Cut) /\ Len(KeyList(f)) = Len(f.blocks) /\ DOMAIN f.blocks = 1..Len(f.blocks)
           /\ \A i \in 1..Len(f.blocks) : KeyList(f)[i] = [ms |-> f.blocks[i].ms, at |-> ClusterOf(f, i)]
<1>1. f.blocks \in Seq(Blocks) /\ Len(f.blocks) \in Nat /\ DOMAIN f.blocks = 1..Len(f.blocks)
  BY FileTypes
<1>2. ASSUME NEW i \in 1..Len(f.blocks) PROVE [ms |-> f.blocks[i].ms, at |-> ClusterOf(f, i)] \in Cut
  <2>1. ClusterOf(f, i) \in Nat
    BY ClusterIs, FileTypes
  <2>2. f.blocks[i] \in Blocks
    BY <1>1
  <2> QED BY <2>1, <2>2 DEF Blocks, Cut
<1>3. KeyList(f) = [i \in 1..Len(f.blocks) |-> [ms |-> f.blocks[i].ms, at |-> ClusterOf(f, i)]]
  BY <1>1 DEF KeyList
<1>4. KeyList(f) \in [1..Len(f.blocks) -> Cut]
  BY <1>2, <1>3
<1>5. KeyList(f) \in Seq(Cut) /\ Len(KeyList(f)) = Len(f.blocks)
  <2> DEFINE k == KeyList(f)
             n == Len(f.blocks)
  <2>1. k \in [1..n -> Cut] /\ n \in Nat
    BY <1>1, <1>4
  <2> HIDE DEF k, n
  <2>2. k \in Seq(Cut) /\ Len(k) = n
    BY <2>1
  <2> QED BY <2>2 DEF k, n
<1>6. ASSUME NEW i \in 1..Len(f.blocks)
      PROVE  KeyList(f)[i] = [ms |-> f.blocks[i].ms, at |-> ClusterOf(f, i)]
  BY <1>3
<1> QED BY <1>1, <1>5, <1>6

LEMMA KeysAre ==
    ASSUME NEW f \in Files
    PROVE  /\ KeysOf(f) = KeysTo(f, Len(f.blocks)) /\ KeysTo(f, 0) = <<>>
           /\ \A i \in 0..Len(f.blocks) : KeysTo(f, i) \in Seq(Cut)
           /\ \A i \in 1..Len(f.blocks) :
                KeysTo(f, i) = IF IsKey(f.blocks[i])
                               THEN Append(KeysTo(f, i - 1), [ms |-> f.blocks[i].ms, at |-> ClusterOf(f, i)])
                               ELSE KeysTo(f, i - 1)
<1> DEFINE s == KeyList(f)
           I == KeyPlaces(f)
<1>1. s \in Seq(Cut) /\ Len(s) = Len(f.blocks) /\ DOMAIN f.blocks = 1..Len(f.blocks) /\ Len(f.blocks) \in Nat
      /\ \A i \in 1..Len(f.blocks) : s[i] = [ms |-> f.blocks[i].ms, at |-> ClusterOf(f, i)]
  BY KeyListType, FileTypes
<1>2. \A i \in 1..Len(f.blocks) : i \in I <=> IsKey(f.blocks[i])
  BY <1>1 DEF KeyPlaces
<1>3. KeysOf(f) = Picked(s, I)
  BY DEF KeysOf, KeyList, KeyPlaces
<1> HIDE DEF s, I
<1>4. PickedSteps(s, I)
  <2>1. s \in Seq(Cut)
    BY <1>1
  <2> QED BY <2>1, PickedStep, Zenon
<1>5. ASSUME NEW i \in 0..Len(f.blocks) PROVE Picked(SubSeq(s, 1, i), I) \in Seq(Cut)
  <2>1. SubSeq(s, 1, i) \in Seq(Cut)
    BY <1>1
  <2> QED BY <2>1, PickedType
<1>6. \A i : KeysTo(f, i) = Picked(SubSeq(s, 1, i), I)
  BY DEF KeysTo, s, I
<1> QED BY <1>1, <1>2, <1>3, <1>4, <1>5, <1>6 DEF PickedSteps

\* The cuts after the first keys of the index, and after the first blocks of the file.
Cutting(f) ==
  LET keys == KeysOf(f)
      cuts[i \in 0..Len(keys)] ==
        IF i = 0 THEN <<[ms |-> 0, at |-> keys[1].at]>>
        ELSE IF keys[i].ms >= Last(cuts[i-1]).ms + SegMs THEN Append(cuts[i-1], keys[i]) ELSE cuts[i-1]
  IN cuts
FoundAt(f, i) == IF KeysTo(f, i) = <<>> THEN <<>> ELSE Cutting(f)[Len(KeysTo(f, i))]

CutOn(cuts, k) == IF k.ms >= Last(cuts).ms + SegMs THEN Append(cuts, k) ELSE cuts
CutsFrom(g, keys) ==
  g[0] = <<[ms |-> 0, at |-> keys[1].at]>> /\ \A i \in 1..Len(keys) : g[i] = CutOn(g[i-1], keys[i])

LEMMA CutOnType ==
    ASSUME NEW cuts \in CutSeq, NEW k \in Cut
    PROVE  /\ CutOn(cuts, k) \in CutSeq /\ cuts[Len(cuts)] \in Cut /\ Len(cuts) \in Nat \ {0}
           /\ Last(cuts) \in Cut
<1>1. cuts \in Seq(Cut) /\ Len(cuts) \in Nat \ {0} /\ cuts[Len(cuts)] \in Cut
  BY DEF CutSeq
<1>2. Append(cuts, k) \in Seq(Cut) /\ Append(cuts, k) # <<>>
  BY <1>1
<1> QED BY <1>1, <1>2 DEF CutOn, CutSeq, Last

LEMMA CuttingIs ==
    ASSUME NEW f \in Files
    PROVE  /\ KeysOf(f) \in Seq(Cut) /\ Len(KeysOf(f)) \in Nat \ {0}
           /\ Cutting(f) \in [0..Len(KeysOf(f)) -> CutSeq] /\ CutsFrom(Cutting(f), KeysOf(f))
           /\ PlannedCuts(f) = Cutting(f)[Len(KeysOf(f))]
<1> DEFINE keys == KeysOf(f)
           base == <<[ms |-> 0, at |-> keys[1].at]>>
           Is(g) == g = [i \in 0..Len(keys) |->
                          IF i = 0 THEN base
                          ELSE IF keys[i].ms >= Last(g[i-1]).ms + SegMs THEN Append(g[i-1], keys[i]) ELSE g[i-1]]
           D == [x \in CutSeq \X (1..Len(keys)) |-> CutOn(x[1], keys[x[2]])]
<1>1. PlannedCuts(f) = Cutting(f)[Len(keys)]
  BY DEF PlannedCuts, Cutting
<1>2. keys \in Seq(Cut) /\ Len(keys) \in Nat \ {0} /\ \A i \in 1..Len(keys) : keys[i] \in Cut
  <2>1. keys \in Seq(Cut)
    BY KeysAre, FileTypes
  <2>2. keys # <<>>
    BY KeysAssumption
  <2> HIDE DEF keys
  <2> QED BY <2>1, <2>2
<1>3. Cutting(f) = CHOOSE g : Is(g)
  BY DEF Cutting
<1> HIDE DEF keys
<1>4. base \in CutSeq
  <2>1. [ms |-> 0, at |-> keys[1].at] \in Cut
    BY <1>2 DEF Cut
  <2> QED BY <2>1 DEF CutSeq
<1>5. D \in [CutSeq \X (1..Len(keys)) -> CutSeq]
  <2>1. ASSUME NEW x \in CutSeq \X (1..Len(keys)) PROVE CutOn(x[1], keys[x[2]]) \in CutSeq
    <3>1. x[1] \in CutSeq /\ keys[x[2]] \in Cut
      BY <1>2
    <3> QED BY <3>1, CutOnType
  <2> QED BY <2>1
<1> HIDE DEF base
<1>6. PICK c : c \in [0..Len(keys) -> CutSeq] /\ Follows(c, Len(keys), base, D)
  <2> HIDE DEF D
  <2>1. Len(keys) \in Nat
    BY <1>2
  <2> QED BY <1>4, <1>5, <2>1, RecursionExists
<1>7. ASSUME NEW i \in 1..Len(keys) PROVE c[i] = CutOn(c[i-1], keys[i])
  <2>1. i - 1 \in 0..Len(keys) /\ i \in 1..Len(keys)
    BY <1>2
  <2>2. c[i-1] \in CutSeq /\ c[i] = D[<<c[i-1], i>>]
    <3> HIDE DEF D
    <3> QED BY <1>6, <2>1 DEF Follows
  <2>3. D[<<c[i-1], i>>] = CutOn(c[i-1], keys[i])
    BY <2>1, <2>2
  <2> QED BY <2>2, <2>3
<1> HIDE DEF D
<1>8. Is(c)
  <2>1. c = [i \in 0..Len(keys) |-> c[i]]
    BY <1>6
  <2>2. ASSUME NEW i \in 0..Len(keys)
        PROVE  c[i] = IF i = 0 THEN base
                      ELSE IF keys[i].ms >= Last(c[i-1]).ms + SegMs THEN Append(c[i-1], keys[i]) ELSE c[i-1]
    <3>1. i = 0 \/ i \in 1..Len(keys)
      BY <1>2
    <3>2. i = 0 => c[i] = base
      BY <1>6 DEF Follows
    <3> QED BY <1>7, <3>1, <3>2 DEF CutOn
  <2> QED BY <2>1, <2>2, Zenon
<1>9. PICK g : Is(g) /\ Cutting(f) = g
  <2> HIDE DEF Is
  <2> QED BY <1>3, <1>8, Zenon
<1>10. CutsFrom(g, keys)
  <2>1. g = [i \in 0..Len(keys) |->
              IF i = 0 THEN base
              ELSE IF keys[i].ms >= Last(g[i-1]).ms + SegMs THEN Append(g[i-1], keys[i]) ELSE g[i-1]]
    BY <1>9
  <2>2. ASSUME NEW i \in 1..Len(keys) PROVE g[i] = CutOn(g[i-1], keys[i])
    <3>1. i \in 0..Len(keys) /\ i # 0
      OBVIOUS
    <3> QED BY <2>1, <3>1 DEF CutOn
  <2>3. 0 \in 0..Len(keys)
    BY <1>2
  <2>4. g[0] = base
    BY <2>1, <2>3
  <2> QED BY <2>2, <2>4 DEF CutsFrom, base
<1>11. \A i \in 0..Len(keys) : g[i] \in CutSeq
  <2> DEFINE S == {j \in 0..Len(keys) : g[j] \in CutSeq}
  <2>1. 0 \in S
    BY <1>2, <1>4, <1>10 DEF CutsFrom, base
  <2>2. ASSUME NEW i \in 1..Len(keys), i - 1 \in S PROVE i \in S
    <3>1. i \in 0..Len(keys) /\ g[i-1] \in CutSeq /\ keys[i] \in Cut
      BY <1>2, <2>2
    <3>2. g[i] \in CutSeq
      BY <1>10, <3>1, CutOnType DEF CutsFrom
    <3> QED BY <3>1, <3>2
  <2> HIDE DEF S
  <2>3. \A i \in 0..Len(keys) : i \in S
    BY <1>2, <2>1, <2>2, UpTo
  <2> QED BY <2>3 DEF S
<1>12. g \in [0..Len(keys) -> CutSeq]
  BY <1>9, <1>11
<1> QED BY <1>1, <1>2, <1>9, <1>10, <1>12 DEF keys

\* What is cut after one more block.
LEMMA FoundStep ==
    ASSUME NEW f \in Files
    PROVE  /\ FoundAt(f, 0) = <<>> /\ FoundAt(f, Len(f.blocks)) = PlannedCuts(f)
           /\ \A i \in 0..Len(f.blocks) : FoundAt(f, i) \in Seq(Cut)
           /\ \A i \in 1..Len(f.blocks) :
                FoundAt(f, i) = IF IsKey(f.blocks[i])
                                THEN recordKeyframe(FoundAt(f, i - 1), f.blocks[i].ms, ClusterOf(f, i))
                                ELSE FoundAt(f, i - 1)
<1> DEFINE n == Len(f.blocks)
           keys == KeysOf(f)
           g == Cutting(f)
<1>1. /\ n \in Nat /\ keys = KeysTo(f, n) /\ KeysTo(f, 0) = <<>>
      /\ \A i \in 0..n : KeysTo(f, i) \in Seq(Cut)
  BY FileTypes, KeysAre
<1>2. \A i \in 1..n :
        KeysTo(f, i) = IF IsKey(f.blocks[i])
                       THEN Append(KeysTo(f, i - 1), [ms |-> f.blocks[i].ms, at |-> ClusterOf(f, i)])
                       ELSE KeysTo(f, i - 1)
  BY KeysAre
<1>3. /\ keys \in Seq(Cut) /\ Len(keys) \in Nat \ {0} /\ g \in [0..Len(keys) -> CutSeq]
      /\ CutsFrom(g, keys) /\ PlannedCuts(f) = g[Len(keys)]
  BY CuttingIs
<1> HIDE DEF n, keys, g
\* The keys of the first blocks are the first keys.
<1> DEFINE S == {j \in 0..n : /\ Len(KeysTo(f, n - j)) <= Len(keys)
                              /\ \A i \in 1..Len(KeysTo(f, n - j)) : KeysTo(f, n - j)[i] = keys[i]}
<1>4. 0 \in S
  BY <1>1, <1>3
<1>5. ASSUME NEW j \in 1..n, j - 1 \in S PROVE j \in S
  <2>1. n - (j - 1) \in 1..n /\ n - j \in 0..n /\ n - (j - 1) - 1 = n - j
    BY <1>1
  <2> DEFINE a == KeysTo(f, n - j)
             b == KeysTo(f, n - (j - 1))
  <2>2. b = a \/ \E k \in Cut : b = Append(a, k)
    <3>1. f.blocks[n - (j - 1)] \in Blocks /\ ClusterOf(f, n - (j - 1)) \in Nat
      BY <2>1, FileTypes, ClusterIs DEF n
    <3>2. [ms |-> f.blocks[n - (j - 1)].ms, at |-> ClusterOf(f, n - (j - 1))] \in Cut
      BY <3>1 DEF Cut, Blocks
    <3> QED BY <1>2, <2>1, <3>2
  <2>3. a \in Seq(Cut) /\ b \in Seq(Cut)
    BY <1>1, <2>1
  <2>4. Len(b) <= Len(keys) /\ \A i \in 1..Len(b) : b[i] = keys[i]
    BY <1>5
  <2> HIDE DEF a, b
  <2>5. Len(a) <= Len(keys) /\ \A i \in 1..Len(a) : a[i] = keys[i]
    <3>1. CASE b = a
      BY <2>4, <3>1
    <3>2. ASSUME NEW k \in Cut, b = Append(a, k) PROVE <2>5
      <4>1. Len(b) = Len(a) + 1 /\ Len(a) \in Nat /\ \A i \in 1..Len(a) : b[i] = a[i]
        BY <2>3, <3>2
      <4>2. Len(keys) \in Nat /\ \A i \in 1..Len(a) : i \in 1..Len(b)
        BY <1>3, <4>1
      <4> QED BY <2>4, <4>1, <4>2
    <3> QED BY <2>2, <3>1, <3>2
  <2> QED BY <2>5 DEF a
<1>6. \A j \in 0..n : j \in S
  <2> HIDE DEF S
  <2> QED BY <1>1, <1>4, <1>5, UpTo
<1>7. ASSUME NEW i \in 0..n
      PROVE  Len(KeysTo(f, i)) <= Len(keys) /\ \A k \in 1..Len(KeysTo(f, i)) : KeysTo(f, i)[k] = keys[k]
  <2>1. n - i \in 0..n /\ n - (n - i) = i
    BY <1>1
  <2> QED BY <1>6, <2>1
<1>8. FoundAt(f, 0) = <<>> /\ FoundAt(f, n) = PlannedCuts(f)
  BY <1>1, <1>3 DEF FoundAt, g
<1>9. ASSUME NEW i \in 0..n PROVE FoundAt(f, i) \in Seq(Cut)
  <2>1. Len(KeysTo(f, i)) \in 0..Len(keys)
    BY <1>1, <1>3, <1>7
  <2>2. g[Len(KeysTo(f, i))] \in Seq(Cut)
    BY <1>3, <2>1 DEF CutSeq
  <2> QED BY <2>2 DEF FoundAt, g
<1>10. ASSUME NEW i \in 1..n
       PROVE  FoundAt(f, i) = IF IsKey(f.blocks[i])
                              THEN recordKeyframe(FoundAt(f, i - 1), f.blocks[i].ms, ClusterOf(f, i))
                              ELSE FoundAt(f, i - 1)
  <2> DEFINE a == KeysTo(f, i - 1)
             b == KeysTo(f, i)
             k == [ms |-> f.blocks[i].ms, at |-> ClusterOf(f, i)]
  <2>1. i - 1 \in 0..n /\ i \in 0..n
    BY <1>1
  <2>2. a \in Seq(Cut) /\ b \in Seq(Cut) /\ b = IF IsKey(f.blocks[i]) THEN Append(a, k) ELSE a
    BY <1>1, <1>2, <2>1
  <2>3. Len(b) <= Len(keys) /\ \A j \in 1..Len(b) : b[j] = keys[j]
    BY <1>7, <2>1
  <2>4. FoundAt(f, i) = (IF b = <<>> THEN <<>> ELSE g[Len(b)])
        /\ FoundAt(f, i - 1) = (IF a = <<>> THEN <<>> ELSE g[Len(a)])
    BY DEF FoundAt, g
  <2>5. ASSUME IsKey(f.blocks[i])
        PROVE  FoundAt(f, i) = recordKeyframe(FoundAt(f, i - 1), f.blocks[i].ms, ClusterOf(f, i))
    <3>1. k \in Cut
      <4>1. f.blocks[i] \in Blocks /\ ClusterOf(f, i) \in Nat
        BY FileTypes, ClusterIs DEF n
      <4> QED BY <4>1 DEF Cut, Blocks
    <3>2. b = Append(a, k)
      BY <2>2, <2>5
    <3> HIDE DEF a, b
    <3>3. Len(b) = Len(a) + 1 /\ b # <<>> /\ b[Len(b)] = k /\ Len(a) \in Nat /\ (a = <<>> <=> Len(a) = 0)
      BY <2>2, <3>1, <3>2
    <3>4. Len(b) \in 1..Len(keys) /\ keys[Len(b)] = k
      BY <1>3, <2>3, <3>3
    <3>5. g[Len(b)] = CutOn(g[Len(a)], k)
      BY <1>3, <3>3, <3>4 DEF CutsFrom
    <3>6. a = <<>> => g[Len(a)] = <<[ms |-> 0, at |-> ClusterOf(f, i)]>>
      <4>1. a = <<>> => keys[1] = k /\ Len(a) = 0
        BY <3>3, <3>4
      <4> QED BY <1>3, <4>1 DEF CutsFrom
    <3>7. a # <<>> => g[Len(a)] # <<>>
      BY <1>3, <3>3, <3>4 DEF CutSeq
    <3> QED BY <2>4, <3>3, <3>5, <3>6, <3>7 DEF recordKeyframe, CutOn
  <2> HIDE DEF k
  <2>6. ~IsKey(f.blocks[i]) => FoundAt(f, i) = FoundAt(f, i - 1)
    BY <2>2, <2>4
  <2> QED BY <2>5, <2>6
<1> QED BY <1>8, <1>9, <1>10 DEF n

\* A sequence begins another.
LEMMA PrefixIs ==
    ASSUME NEW V, NEW s \in Seq(V), NEW t \in Seq(V)
    PROVE  IsPrefix(s, t) <=> (Len(s) <= Len(t) /\ \A i \in 1..Len(s) : s[i] = t[i])
<1>1. Len(s) \in Nat /\ Len(t) \in Nat
  OBVIOUS
<1>2. ASSUME Len(s) <= Len(t)
      PROVE  SubSeq(s, 1, Len(s)) = SubSeq(t, 1, Len(s)) <=> \A i \in 1..Len(s) : s[i] = t[i]
  <2> DEFINE a == SubSeq(s, 1, Len(s))
             b == SubSeq(t, 1, Len(s))
  <2>1. /\ a \in Seq(V) /\ b \in Seq(V) /\ Len(a) = Len(s) /\ Len(b) = Len(s)
        /\ \A i \in 1..Len(s) : a[i] = s[i] /\ b[i] = t[i]
    BY <1>1, <1>2
  <2> HIDE DEF a, b
  <2>2. a = b <=> \A i \in 1..Len(s) : a[i] = b[i]
    <3>1. (\A i \in 1..Len(s) : a[i] = b[i]) => a = b
      BY <2>1, SeqEqual, Zenon
    <3> QED BY <3>1
  <2> QED BY <2>1, <2>2 DEF a, b
<1> QED BY <1>2 DEF IsPrefix

LEMMA PrefixTrans ==
    ASSUME NEW V, NEW s \in Seq(V), NEW t \in Seq(V), NEW u \in Seq(V), IsPrefix(s, t), IsPrefix(t, u)
    PROVE  IsPrefix(s, u)
<1>1. Len(s) <= Len(t) /\ (\A i \in 1..Len(s) : s[i] = t[i]) /\ Len(t) <= Len(u) /\ \A i \in 1..Len(t) : t[i] = u[i]
  BY PrefixIs
<1>2. Len(s) \in Nat /\ Len(t) \in Nat /\ Len(u) \in Nat
  OBVIOUS
<1>3. Len(s) <= Len(u) /\ \A i \in 1..Len(s) : s[i] = u[i]
  BY <1>1, <1>2
<1> QED BY <1>3, PrefixIs

\* A keyframe changes the cuts only past the last of them, and is recorded once.
Recorded(cuts, ms, after) ==
  /\ after \in Seq(Cut) /\ after # <<>> /\ IsPrefix(cuts, after)
  /\ ms < Last(after).ms + SegMs
  /\ cuts # <<>> => Last(cuts).ms <= Last(after).ms
  /\ cuts # <<>> /\ ms < Last(cuts).ms + SegMs => after = cuts

LEMMA LastCut == ASSUME NEW cuts \in Seq(Cut), cuts # <<>> PROVE Last(cuts) \in Cut /\ Last(cuts).ms \in Nat
<1>1. cuts[Len(cuts)] \in Cut
  OBVIOUS
<1> QED BY <1>1 DEF Last, Cut

LEMMA RecordKeyframe ==
    ASSUME NEW cuts \in Seq(Cut), NEW ms \in Nat, NEW at \in Nat
    PROVE  Recorded(cuts, ms, recordKeyframe(cuts, ms, at))
<1> DEFINE known == IF cuts = <<>> THEN <<[ms |-> 0, at |-> at]>> ELSE cuts
           k == [ms |-> ms, at |-> at]
           after == recordKeyframe(cuts, ms, at)
<1>1. known \in CutSeq /\ k \in Cut /\ SegMs \in Nat \ {0}
  <2>1. [ms |-> 0, at |-> at] \in Cut
    BY DEF Cut
  <2>2. k \in Cut
    BY DEF Cut
  <2>3. known \in CutSeq
    BY <2>1 DEF CutSeq
  <2> QED BY <2>2, <2>3, GrowingAssumption
<1>2. after = CutOn(known, k)
  BY DEF recordKeyframe, CutOn
<1>3. k.ms = ms /\ (cuts # <<>> => known = cuts)
  OBVIOUS
<1> HIDE DEF known, k
<1>4. /\ after \in CutSeq /\ known[Len(known)] \in Cut /\ Len(known) \in Nat \ {0}
      /\ Last(known) = known[Len(known)]
  BY <1>1, <1>2, CutOnType DEF Last
<1>5. Last(known).ms \in Nat /\ ms \in Nat
  BY <1>4 DEF Cut
<1> HIDE DEF after
<1>6. IsPrefix(cuts, known)
  <2>1. cuts # <<>> => IsPrefix(cuts, cuts)
    BY PrefixIs
  <2>2. cuts = <<>> => Len(cuts) = 0 /\ known \in Seq(Cut) /\ Len(known) \in Nat
    BY <1>1 DEF CutSeq
  <2>3. ASSUME cuts = <<>> PROVE IsPrefix(cuts, known)
    <3>1. known \in Seq(Cut) /\ Len(cuts) <= Len(known) /\ \A i \in 1..Len(cuts) : cuts[i] = known[i]
      BY <2>2, <2>3
    <3> QED BY <3>1, PrefixIs
  <2> QED BY <1>3, <2>1, <2>3
<1>7. CASE ms >= Last(known).ms + SegMs
  <2>1. after = Append(known, k)
    BY <1>2, <1>3, <1>7 DEF CutOn
  <2>2. /\ Len(after) = Len(known) + 1 /\ after[Len(after)] = k
        /\ \A i \in 1..Len(known) : known[i] = after[i]
    BY <1>1, <2>1 DEF CutSeq
  <2>3. Last(after) = k
    BY <2>2 DEF Last
  <2>4. IsPrefix(known, after)
    <3>1. known \in Seq(Cut) /\ after \in Seq(Cut)
      BY <1>1, <1>4 DEF CutSeq
    <3> QED BY <1>4, <2>2, <3>1, PrefixIs
  <2>5. IsPrefix(cuts, after)
    <3>1. known \in Seq(Cut) /\ after \in Seq(Cut)
      BY <1>1, <1>4 DEF CutSeq
    <3> QED BY <1>6, <2>4, <3>1, PrefixTrans
  <2>6. ms < Last(after).ms + SegMs /\ (cuts # <<>> => Last(cuts).ms <= Last(after).ms)
    BY <1>1, <1>3, <1>5, <1>7, <2>3
  <2>7. ~(cuts # <<>> /\ ms < Last(cuts).ms + SegMs)
    BY <1>1, <1>3, <1>5, <1>7
  <2> QED BY <1>4, <2>5, <2>6, <2>7 DEF CutSeq, Recorded, after
<1>8. CASE ~(ms >= Last(known).ms + SegMs)
  <2>1. after = known
    BY <1>2, <1>3, <1>8 DEF CutOn
  <2>2. ms < Last(after).ms + SegMs /\ (cuts # <<>> => Last(cuts).ms <= Last(after).ms)
    BY <1>1, <1>3, <1>5, <1>8, <2>1
  <2> QED BY <1>3, <1>4, <1>6, <2>1, <2>2 DEF CutSeq, Recorded, after
<1> QED BY <1>7, <1>8

\* The cuts only grow as blocks are walked.
LEMMA FoundGrows ==
    ASSUME NEW f \in Files, NEW i \in 0..Len(f.blocks), NEW j \in i..Len(f.blocks)
    PROVE  IsPrefix(FoundAt(f, i), FoundAt(f, j))
<1> DEFINE n == Len(f.blocks)
           S == {d \in 0..n-i : IsPrefix(FoundAt(f, i), FoundAt(f, i + d))}
<1>1. n \in Nat /\ \A k \in 0..n : FoundAt(f, k) \in Seq(Cut)
  BY FoundStep, FileTypes
<1> HIDE DEF n
<1>2. i \in 0..n /\ j \in i..n /\ n - i \in Nat
  BY <1>1 DEF n
<1>3. 0 \in S
  <2>1. IsPrefix(FoundAt(f, i), FoundAt(f, i))
    BY <1>1, <1>2, PrefixIs
  <2>2. i + 0 = i
    BY <1>2
  <2> QED BY <1>2, <2>1, <2>2
<1>4. ASSUME NEW d \in 1..n-i, d - 1 \in S PROVE d \in S
  <2>1. i + d \in 1..n /\ i + (d - 1) = i + d - 1 /\ i + d - 1 \in 0..n /\ d \in 0..n-i /\ i + d \in 0..n
    BY <1>1, <1>2
  <2>2. IsPrefix(FoundAt(f, i + d - 1), FoundAt(f, i + d))
    <3>1. FoundAt(f, i + d) = IF IsKey(f.blocks[i + d])
                              THEN recordKeyframe(FoundAt(f, i + d - 1), f.blocks[i + d].ms, ClusterOf(f, i + d))
                              ELSE FoundAt(f, i + d - 1)
      BY <2>1, FoundStep DEF n
    <3>2. f.blocks[i + d].ms \in Nat /\ ClusterOf(f, i + d) \in Nat
      <4>1. f.blocks[i + d] \in Blocks
        BY <2>1, FileTypes DEF n
      <4>2. ClusterOf(f, i + d) \in 1..Len(f.ends) /\ Len(f.ends) \in Nat
        BY <2>1, ClusterIs, FileTypes DEF n
      <4> QED BY <4>1, <4>2 DEF Blocks
    <3>3. FoundAt(f, i + d - 1) \in Seq(Cut)
      BY <1>1, <2>1
    <3>4. IsPrefix(FoundAt(f, i + d - 1), recordKeyframe(FoundAt(f, i + d - 1), f.blocks[i + d].ms, ClusterOf(f, i + d)))
      BY <3>2, <3>3, RecordKeyframe DEF Recorded
    <3>5. IsPrefix(FoundAt(f, i + d - 1), FoundAt(f, i + d - 1))
      BY <3>3, PrefixIs
    <3> QED BY <3>1, <3>4, <3>5
  <2>3. IsPrefix(FoundAt(f, i), FoundAt(f, i + d - 1))
    BY <1>4, <2>1
  <2>4. FoundAt(f, i) \in Seq(Cut) /\ FoundAt(f, i + d - 1) \in Seq(Cut) /\ FoundAt(f, i + d) \in Seq(Cut)
    BY <1>1, <1>2, <2>1
  <2>5. IsPrefix(FoundAt(f, i), FoundAt(f, i + d))
    BY <2>2, <2>3, <2>4, PrefixTrans
  <2> QED BY <2>1, <2>5
<1>5. \A d \in 0..n-i : d \in S
  <2> HIDE DEF S
  <2> QED BY <1>2, <1>3, <1>4, UpTo
<1>6. j - i \in 0..n-i /\ i + (j - i) = j
  BY <1>1, <1>2
<1> QED BY <1>5, <1>6

\* A keyframe walked leaves no cut to make for it.
LEMMA FoundSettled ==
    ASSUME NEW f \in Files, NEW i \in 1..Len(f.blocks), IsKey(f.blocks[i]), NEW j \in i..Len(f.blocks)
    PROVE  FoundAt(f, j) # <<>> /\ f.blocks[i].ms < Last(FoundAt(f, j)).ms + SegMs
<1> DEFINE n == Len(f.blocks)
           ms == f.blocks[i].ms
           Settled(cuts) == cuts # <<>> /\ ms < Last(cuts).ms + SegMs
           S == {d \in 0..n-i : Settled(FoundAt(f, i + d))}
<1>1. n \in Nat /\ (\A k \in 0..n : FoundAt(f, k) \in Seq(Cut)) /\ SegMs \in Nat
  BY FoundStep, FileTypes, GrowingAssumption
<1>2. \A k \in 1..n :
        /\ f.blocks[k].ms \in Nat /\ ClusterOf(f, k) \in Nat
        /\ FoundAt(f, k) = IF IsKey(f.blocks[k])
                           THEN recordKeyframe(FoundAt(f, k - 1), f.blocks[k].ms, ClusterOf(f, k))
                           ELSE FoundAt(f, k - 1)
  <2> TAKE k \in 1..n
  <2>1. f.blocks[k] \in Blocks
    BY FileTypes
  <2>2. ClusterOf(f, k) \in 1..Len(f.ends) /\ Len(f.ends) \in Nat
    BY ClusterIs, FileTypes
  <2> QED BY <2>1, <2>2, FoundStep DEF Blocks
<1> HIDE DEF n
<1>3. i \in 1..n /\ j \in i..n /\ n - i \in Nat
  BY <1>1 DEF n
<1>4. 0 \in S
  <2>1. FoundAt(f, i - 1) \in Seq(Cut)
    BY <1>1, <1>3
  <2>2. FoundAt(f, i) = recordKeyframe(FoundAt(f, i - 1), ms, ClusterOf(f, i)) /\ ms \in Nat /\ ClusterOf(f, i) \in Nat
    BY <1>2, <1>3
  <2>3. Recorded(FoundAt(f, i - 1), ms, FoundAt(f, i))
    BY <2>1, <2>2, RecordKeyframe
  <2>4. Settled(FoundAt(f, i))
    BY <2>3 DEF Recorded
  <2>5. i + 0 = i /\ 0 \in 0..n-i
    BY <1>3
  <2> HIDE DEF Settled
  <2> QED BY <2>4, <2>5
<1>5. ASSUME NEW d \in 1..n-i, d - 1 \in S PROVE d \in S
  <2>1. i + d \in 1..n /\ i + (d - 1) = i + d - 1 /\ i + d - 1 \in 0..n /\ d \in 0..n-i
    BY <1>1, <1>3
  <2> DEFINE k == i + d
             before == FoundAt(f, k - 1)
  <2>2. before \in Seq(Cut) /\ Settled(before)
    BY <1>1, <1>5, <2>1
  <2>3. f.blocks[k].ms \in Nat /\ ClusterOf(f, k) \in Nat
        /\ (FoundAt(f, k) = before \/ FoundAt(f, k) = recordKeyframe(before, f.blocks[k].ms, ClusterOf(f, k)))
    BY <1>2, <2>1
  <2>4. ms \in Nat
    BY <1>2, <1>3
  <2> HIDE DEF before, k, ms
  <2>5. CASE FoundAt(f, k) = before
    BY <2>1, <2>2, <2>5 DEF k
  <2>6. CASE FoundAt(f, k) = recordKeyframe(before, f.blocks[k].ms, ClusterOf(f, k))
    <3> DEFINE after == FoundAt(f, k)
    <3>0. Recorded(before, f.blocks[k].ms, after)
      BY <2>2, <2>3, <2>6, RecordKeyframe
    <3>1. /\ after \in Seq(Cut) /\ after # <<>>
          /\ Last(before).ms <= Last(after).ms
      BY <2>2, <3>0 DEF Recorded
    <3>2. Last(before).ms \in Nat /\ Last(after).ms \in Nat
      BY <2>2, <3>1, LastCut
    <3> HIDE DEF after
    <3>3. Settled(after)
      BY <1>1, <2>2, <2>4, <3>1, <3>2
    <3> QED BY <2>1, <3>3 DEF after, k
  <2> QED BY <2>3, <2>5, <2>6
<1>6. \A d \in 0..n-i : d \in S
  <2> HIDE DEF S
  <2> QED BY <1>3, <1>4, <1>5, UpTo
<1>7. j - i \in 0..n-i /\ i + (j - i) = j
  BY <1>1, <1>3
<1> QED BY <1>6, <1>7

\* The cuts of a plan that walked the first i blocks, and may have walked some of the next before a scan failed.
Covers(f, cuts, i) == \E m \in i..Len(f.blocks) : cuts = FoundAt(f, m)

LEMMA CoverStep ==
    ASSUME NEW f \in Files, NEW i \in 1..Len(f.blocks), NEW cuts, Covers(f, cuts, i - 1)
    PROVE  /\ IsKey(f.blocks[i]) => Covers(f, recordKeyframe(cuts, f.blocks[i].ms, ClusterOf(f, i)), i)
           /\ ~IsKey(f.blocks[i]) => Covers(f, cuts, i)
<1> DEFINE n == Len(f.blocks)
<1>1. n \in Nat /\ i \in 1..n
  BY FileTypes
<1>2. PICK m \in i-1..n : cuts = FoundAt(f, m)
  BY DEF Covers
<1>3. f.blocks[i].ms \in Nat /\ ClusterOf(f, i) \in Nat
  <2>1. f.blocks[i] \in Blocks
    BY FileTypes
  <2>2. ClusterOf(f, i) \in 1..Len(f.ends) /\ Len(f.ends) \in Nat
    BY ClusterIs, FileTypes
  <2> QED BY <2>1, <2>2 DEF Blocks
<1>4. CASE m = i - 1
  <2>1. FoundAt(f, i) = IF IsKey(f.blocks[i])
                        THEN recordKeyframe(cuts, f.blocks[i].ms, ClusterOf(f, i)) ELSE cuts
    BY <1>1, <1>2, <1>4, FoundStep
  <2>2. i \in i..n
    BY <1>1
  <2> QED BY <2>1, <2>2 DEF Covers
<1>5. CASE m # i - 1
  <2>1. m \in i..n /\ m \in 0..n
    BY <1>1, <1>2, <1>5
  <2>2. cuts \in Seq(Cut)
    BY <1>2, <2>1, FoundStep
  <2>3. Covers(f, cuts, i)
    BY <1>2, <2>1 DEF Covers
  <2>4. ASSUME IsKey(f.blocks[i]) PROVE recordKeyframe(cuts, f.blocks[i].ms, ClusterOf(f, i)) = cuts
    <3>1. cuts # <<>> /\ f.blocks[i].ms < Last(cuts).ms + SegMs
      BY <1>2, <2>1, <2>4, FoundSettled
    <3> QED BY <1>3, <2>2, <3>1, RecordKeyframe DEF Recorded
  <2> QED BY <2>3, <2>4
<1> QED BY <1>4, <1>5

\* What covers a block covers the ones before it, begins what PlanHLS plans, and is all of it at the last block.
LEMMA CoversPlanned ==
    ASSUME NEW f \in Files, NEW i \in 0..Len(f.blocks), NEW cuts, Covers(f, cuts, i)
    PROVE  /\ cuts \in Seq(Cut) /\ IsPrefix(cuts, PlannedCuts(f))
           /\ \A k \in 0..i : Covers(f, cuts, k)
           /\ i = Len(f.blocks) => cuts = PlannedCuts(f)
<1> DEFINE n == Len(f.blocks)
<1>1. n \in Nat /\ i \in 0..n /\ FoundAt(f, n) = PlannedCuts(f)
  BY FileTypes, FoundStep
<1>2. PICK m \in i..n : cuts = FoundAt(f, m)
  BY DEF Covers
<1>3. m \in 0..n /\ n \in m..n /\ (i = n => m = n) /\ \A k \in 0..i : m \in k..n
  BY <1>1, <1>2
<1>4. cuts \in Seq(Cut)
  BY <1>2, <1>3, FoundStep
<1>5. IsPrefix(cuts, PlannedCuts(f))
  <2>1. IsPrefix(FoundAt(f, m), FoundAt(f, n))
    BY <1>3, FoundGrows
  <2> QED BY <1>1, <1>2, <2>1
<1>6. \A k \in 0..i : Covers(f, cuts, k)
  BY <1>2, <1>3 DEF Covers
<1> QED BY <1>1, <1>2, <1>3, <1>4, <1>5, <1>6

\* The keyframes of a cluster, kept aside and recorded together.
Records(cuts, keys, at, after) ==
  after[0] = cuts /\ \A i \in 1..Len(keys) : after[i] = recordKeyframe(after[i-1], keys[i], at)

LEMMA RecordKeyframesIs ==
    ASSUME NEW cuts \in Seq(Cut), NEW keys \in Seq(Nat), NEW at \in Nat
    PROVE  \E after : /\ after \in [0..Len(keys) -> Seq(Cut)] /\ Records(cuts, keys, at, after)
                      /\ recordKeyframes(cuts, keys, at) = after[Len(keys)]
<1> DEFINE n == Len(keys)
           Is(g) == g = [i \in 0..Len(keys) |-> IF i = 0 THEN cuts ELSE recordKeyframe(g[i-1], keys[i], at)]
           D == [x \in Seq(Cut) \X (1..n) |-> recordKeyframe(x[1], keys[x[2]], at)]
<1>1. n \in Nat /\ \A i \in 1..n : keys[i] \in Nat
  OBVIOUS
<1>2. D \in [Seq(Cut) \X (1..n) -> Seq(Cut)]
  <2>1. ASSUME NEW x \in Seq(Cut) \X (1..n) PROVE recordKeyframe(x[1], keys[x[2]], at) \in Seq(Cut)
    <3>1. x[1] \in Seq(Cut) /\ keys[x[2]] \in Nat
      BY <1>1
    <3> QED BY <3>1, RecordKeyframe DEF Recorded
  <2> QED BY <2>1
<1>3. PICK c : c \in [0..n -> Seq(Cut)] /\ Follows(c, n, cuts, D)
  <2> HIDE DEF D, n
  <2> QED BY <1>1, <1>2, RecursionExists
<1>4. ASSUME NEW i \in 1..n PROVE c[i] = recordKeyframe(c[i-1], keys[i], at)
  <2>1. i - 1 \in 0..n /\ i \in 1..n
    BY <1>1
  <2>2. c[i-1] \in Seq(Cut) /\ c[i] = D[<<c[i-1], i>>]
    <3> HIDE DEF D
    <3> QED BY <1>3, <2>1 DEF Follows
  <2>3. D[<<c[i-1], i>>] = recordKeyframe(c[i-1], keys[i], at)
    BY <2>1, <2>2
  <2> QED BY <2>2, <2>3
<1> HIDE DEF D
<1>5. Is(c)
  <2>1. c = [i \in 0..n |-> c[i]]
    BY <1>3
  <2>2. ASSUME NEW i \in 0..n PROVE c[i] = IF i = 0 THEN cuts ELSE recordKeyframe(c[i-1], keys[i], at)
    <3>1. i = 0 \/ i \in 1..n
      BY <1>1
    <3> QED BY <1>3, <1>4, <3>1 DEF Follows
  <2> QED BY <2>1, <2>2, Zenon
<1>6. recordKeyframes(cuts, keys, at) = (CHOOSE g : Is(g))[n]
  BY DEF recordKeyframes
<1>7. PICK g : Is(g) /\ recordKeyframes(cuts, keys, at) = g[n]
  <2> HIDE DEF Is
  <2> QED BY <1>5, <1>6, Zenon
<1>8. Records(cuts, keys, at, g)
  <2>1. g = [i \in 0..n |-> IF i = 0 THEN cuts ELSE recordKeyframe(g[i-1], keys[i], at)]
    BY <1>7
  <2>2. ASSUME NEW i \in 1..n PROVE g[i] = recordKeyframe(g[i-1], keys[i], at)
    <3>1. i \in 0..n /\ i # 0
      OBVIOUS
    <3> QED BY <2>1, <3>1
  <2>3. 0 \in 0..n
    BY <1>1
  <2>4. g[0] = cuts
    BY <2>1, <2>3
  <2> QED BY <2>2, <2>4 DEF Records
<1>9. \A i \in 0..n : g[i] \in Seq(Cut)
  <2> DEFINE S == {j \in 0..n : g[j] \in Seq(Cut)}
  <2>1. 0 \in S
    BY <1>1, <1>8 DEF Records
  <2>2. ASSUME NEW i \in 1..n, i - 1 \in S PROVE i \in S
    <3>1. i \in 0..n /\ g[i-1] \in Seq(Cut) /\ keys[i] \in Nat
      BY <1>1, <2>2
    <3>2. g[i] = recordKeyframe(g[i-1], keys[i], at)
      BY <1>8 DEF Records
    <3>3. Recorded(g[i-1], keys[i], g[i])
      BY <3>1, <3>2, RecordKeyframe
    <3>4. g[i] \in Seq(Cut)
      BY <3>3 DEF Recorded
    <3> QED BY <3>1, <3>4
  <2> HIDE DEF S
  <2>3. \A i \in 0..n : i \in S
    BY <1>1, <2>1, <2>2, UpTo
  <2> QED BY <2>3 DEF S
<1>10. g \in [0..n -> Seq(Cut)]
  BY <1>7, <1>9
<1> QED BY <1>7, <1>8, <1>10

LEMMA RecordKeyframesType ==
    ASSUME NEW cuts \in Seq(Cut), NEW keys \in Seq(Nat), NEW at \in Nat
    PROVE  recordKeyframes(cuts, keys, at) \in Seq(Cut) /\ IsPrefix(cuts, recordKeyframes(cuts, keys, at))
<1> DEFINE n == Len(keys)
<1>1. PICK a : /\ a \in [0..n -> Seq(Cut)] /\ Records(cuts, keys, at, a)
               /\ recordKeyframes(cuts, keys, at) = a[n]
  BY RecordKeyframesIs, Zenon
<1>2. n \in Nat /\ \A i \in 1..n : keys[i] \in Nat
  OBVIOUS
<1> DEFINE S == {i \in 0..n : IsPrefix(cuts, a[i])}
<1>3. 0 \in S
  <2>1. IsPrefix(cuts, cuts)
    BY PrefixIs
  <2> QED BY <1>1, <1>2, <2>1 DEF Records
<1>4. ASSUME NEW i \in 1..n, i - 1 \in S PROVE i \in S
  <2>0. i \in 0..n /\ i - 1 \in 0..n /\ keys[i] \in Nat
    BY <1>2
  <2>1. i \in 0..n /\ i - 1 \in 0..n /\ a[i-1] \in Seq(Cut) /\ a[i] \in Seq(Cut) /\ keys[i] \in Nat
    <3> HIDE DEF n
    <3> QED BY <1>1, <2>0
  <2>2. a[i] = recordKeyframe(a[i-1], keys[i], at)
    BY <1>1 DEF Records
  <2>3. Recorded(a[i-1], keys[i], a[i])
    BY <2>1, <2>2, RecordKeyframe
  <2>4. IsPrefix(cuts, a[i-1]) /\ IsPrefix(a[i-1], a[i])
    BY <1>4, <2>3 DEF Recorded
  <2>5. IsPrefix(cuts, a[i])
    BY <2>1, <2>4, PrefixTrans
  <2> QED BY <2>1, <2>5
<1>5. \A i \in 0..n : i \in S
  <2> HIDE DEF S, n
  <2> QED BY <1>2, <1>3, <1>4, UpTo
<1>6. n \in 0..n
  BY <1>2
<1> QED BY <1>1, <1>5, <1>6

LEMMA RecordKeyframesSteps ==
    ASSUME NEW cuts \in Seq(Cut), NEW keys \in Seq(Nat), NEW at \in Nat, NEW k \in Nat
    PROVE  /\ recordKeyframes(cuts, <<>>, at) = cuts
           /\ recordKeyframes(cuts, Append(keys, k), at) = recordKeyframe(recordKeyframes(cuts, keys, at), k, at)
<1> DEFINE t == Append(keys, k)
<1>1. t \in Seq(Nat) /\ Len(t) = Len(keys) + 1 /\ t[Len(keys) + 1] = k /\ \A i \in 1..Len(keys) : t[i] = keys[i]
  OBVIOUS
<1>2. <<>> \in Seq(Nat) /\ Len(<<>>) = 0
  OBVIOUS
<1> HIDE DEF t
<1>3. PICK e : Records(cuts, <<>>, at, e) /\ recordKeyframes(cuts, <<>>, at) = e[Len(<<>>)]
  BY <1>2, RecordKeyframesIs, Zenon
<1>4. PICK a : Records(cuts, keys, at, a) /\ recordKeyframes(cuts, keys, at) = a[Len(keys)]
  BY RecordKeyframesIs, Zenon
<1>5. PICK b : Records(cuts, t, at, b) /\ recordKeyframes(cuts, t, at) = b[Len(t)]
  BY <1>1, RecordKeyframesIs, Zenon
<1>6. \A i \in 0..Len(keys) : a[i] = b[i]
  <2>1. \A i \in 1..Len(keys) : a[i-1] = b[i-1] => a[i] = b[i]
    BY <1>1, <1>4, <1>5 DEF Records
  <2>2. Len(keys) \in Nat /\ a[0] = b[0]
    BY <1>4, <1>5 DEF Records
  <2>3. Len(keys) \in Nat
    OBVIOUS
  <2>4. a[0] = b[0]
    BY <2>2
  <2>5. Lockstep(Len(keys), a, b)
    BY <2>1, <2>4 DEF Lockstep
  <2> QED BY <2>3, <2>5, RunsAgree DEF Agree
<1>7. b[Len(keys) + 1] = recordKeyframe(b[Len(keys)], k, at)
  BY <1>1, <1>5 DEF Records
<1>8. Len(keys) \in 0..Len(keys)
  OBVIOUS
<1>9. recordKeyframes(cuts, t, at) = recordKeyframe(recordKeyframes(cuts, keys, at), k, at)
  BY <1>1, <1>4, <1>5, <1>6, <1>7, <1>8
<1> QED BY <1>2, <1>3, <1>9 DEF Records, t

-----------------------------------------------------------------------------
(* The plan's own operators.                                                *)

Lists == [n : Nat, ended : BOOLEAN, served : BOOLEAN]
Plans == [cursor : Nat, cuts : Seq(Cut), gridPts : Seq(Nat), gridWin : Nat, met : SUBSET {"v", "a"},
          lead : Seq(Nat), leadDone : BOOLEAN, headDone : BOOLEAN,
          published : Nat, done : BOOLEAN, list : Lists]
Scans == [pc : {"idle", "scan", "close"}, call : {"none", "refresh", "complete"}, size : Nat, at : Nat,
          locked : BOOLEAN, keys : Seq(Nat), audio : Seq(Nat)]

LEMMA FirstAtIs ==
    ASSUME NEW pts \in Seq(Nat), NEW ms
    PROVE  /\ FirstAt(pts, ms) \in 1..Len(pts)+1 /\ Len(pts) \in Nat
           /\ \A i \in 1..Len(pts) : i < FirstAt(pts, ms) => ~(pts[i] >= ms)
           /\ FirstAt(pts, ms) <= Len(pts) => pts[FirstAt(pts, ms)] >= ms
<1> DEFINE n == Len(pts)
           T == {i \in 1..n : pts[i] >= ms}
<1>1. n \in Nat /\ DOMAIN pts = 1..n
  OBVIOUS
<1>2. FirstAt(pts, ms) = IF T = {} THEN n + 1 ELSE CHOOSE i \in T : \A j \in T : i <= j
  BY <1>1 DEF FirstAt
<1>3. CASE T = {}
  BY <1>1, <1>2, <1>3
<1>4. CASE T # {}
  <2>1. PICK m \in T : \A k \in 0..m-1 : k \notin T
    <3>1. T \subseteq 0..n
      OBVIOUS
    <3> HIDE DEF T, n
    <3> QED BY <1>1, <1>4, <3>1, LeastIndex
  <2>2. \A i \in T : i \in 1..n
    OBVIOUS
  <2> HIDE DEF T, n
  <2>3. \A j \in T : m <= j
    BY <1>1, <2>1, <2>2
  <2>4. FirstAt(pts, ms) \in T /\ \A j \in T : FirstAt(pts, ms) <= j
    BY <1>2, <1>4, <2>3, Zenon
  <2> QED BY <1>1, <2>4 DEF T, n
<1> QED BY <1>3, <1>4

LEMMA DropType ==
    ASSUME NEW p \in Plans, NEW n
    PROVE  dropGridWindows(p, n) \in Seq(Nat)
<1>1. p.gridPts \in Seq(Nat)
  BY DEF Plans
<1>2. FirstAt(p.gridPts, p.cuts[n+1].ms) \in 1..Len(p.gridPts)+1 /\ Len(p.gridPts) \in Nat
  BY <1>1, FirstAtIs
<1>3. SubSeq(p.gridPts, FirstAt(p.gridPts, p.cuts[n+1].ms), Len(p.gridPts)) \in Seq(Nat)
  BY <1>1, <1>2
<1> QED BY <1>1, <1>3 DEF dropGridWindows

\* Everything but what the outputs show.
SameWalk(p, q) ==
  /\ q.cursor = p.cursor /\ q.cuts = p.cuts /\ q.met = p.met /\ q.lead = p.lead /\ q.headDone = p.headDone

\* Every window published is settled, and its frames dropped.
Drops(p, q) ==
  /\ q.gridPts = dropGridWindows(p, q.gridWin)
  /\ \A m \in p.gridWin+1..q.gridWin : m < Len(p.cuts) /\ gridSettled(p, m)

\* The windows are published one after the other, none taken back.
LEMMA PublishSettled ==
    ASSUME NEW p \in Plans, p.gridWin <= Len(p.cuts)
    PROVE  /\ publishSettled(p) \in Plans /\ SameWalk(p, publishSettled(p))
           /\ publishSettled(p).leadDone = p.leadDone /\ publishSettled(p).done = p.done
           /\ publishSettled(p).list = p.list
           /\ publishSettled(p).gridWin \in p.gridWin..Len(p.cuts)
           /\ publishSettled(p).published = publishSettled(p).gridWin
           /\ Drops(p, publishSettled(p))
<1> DEFINE n == Len(p.cuts)
           w == p.gridWin
           Ready(m) == m < n /\ gridSettled(p, m)
           Stop(k) == (\A m \in w+1..k : Ready(m)) /\ ~(k + 1 < n /\ gridSettled(p, k + 1))
           to == CHOOSE k \in w..n : Stop(k)
           T == {k \in w..n : ~Ready(k + 1)}
<1>1. n \in Nat /\ w \in Nat /\ w <= n
  BY DEF Plans
<1>2. T \subseteq 0..n /\ n \in T
  BY <1>1
<1>3. PICK m \in T : \A k \in 0..m-1 : k \notin T
  <2> HIDE DEF T, n
  <2> QED BY <1>1, <1>2, LeastIndex
<1>4. m \in w..n /\ Stop(m)
  <2>1. m \in w..n /\ ~Ready(m + 1)
    BY <1>3
  <2>2. ASSUME NEW k \in w+1..m PROVE Ready(k)
    <3>1. k - 1 \in 0..m-1 /\ k - 1 \in w..n /\ (k - 1) + 1 = k
      BY <1>1, <2>1
    <3> HIDE DEF Ready
    <3>2. Ready((k - 1) + 1)
      BY <1>3, <3>1
    <3> QED BY <3>1, <3>2
  <2> QED BY <2>1, <2>2
<1> HIDE DEF Stop
<1>5. to \in w..n /\ Stop(to)
  BY <1>4
<1>6. publishSettled(p) = [p EXCEPT !.gridWin = to, !.gridPts = dropGridWindows(p, to), !.published = to]
  BY DEF publishSettled, Stop
<1>7. to \in Nat /\ dropGridWindows(p, to) \in Seq(Nat)
  <2> HIDE DEF to
  <2> QED BY <1>1, <1>5, DropType
<1>8. \A k \in w+1..to : k < n /\ gridSettled(p, k)
  <2> HIDE DEF to
  <2> QED BY <1>5 DEF Stop
<1> HIDE DEF to, n, w
<1> DEFINE q == publishSettled(p)
<1>9. /\ q \in Plans /\ SameWalk(p, q) /\ q.leadDone = p.leadDone /\ q.done = p.done
      /\ q.list = p.list /\ q.gridWin = to /\ q.published = to /\ q.gridPts = dropGridWindows(p, to)
  BY <1>1, <1>5, <1>6, <1>7 DEF Plans, SameWalk
<1> HIDE DEF q
<1>10. Drops(p, q)
  BY <1>8, <1>9 DEF Drops, n, w
<1> QED BY <1>5, <1>9, <1>10 DEF n, w, q

\* After the walk of a cluster.
LEMMA UpdateSegCount ==
    ASSUME NEW p \in Plans, p.gridWin <= Len(p.cuts)
    PROVE  /\ updateSegCount(p) \in Plans /\ SameWalk(p, updateSegCount(p))
           /\ updateSegCount(p).leadDone = p.leadDone /\ updateSegCount(p).done = p.done
           /\ updateSegCount(p).list = p.list
           /\ updateSegCount(p).gridWin \in p.gridWin..Len(p.cuts)
           /\ ~p.headDone => updateSegCount(p).published = 0
           /\ p.headDone /\ p.done => updateSegCount(p).published = Len(p.cuts)
           /\ p.headDone /\ ~p.done => updateSegCount(p).published = updateSegCount(p).gridWin
           /\ p.done => updateSegCount(p).gridWin = p.gridWin
           /\ Drops(p, updateSegCount(p))
<1>1. Len(p.cuts) \in Nat /\ p.gridWin \in Nat /\ p.headDone \in BOOLEAN /\ p.done \in BOOLEAN
  BY DEF Plans
<1> DEFINE With(n) == [p EXCEPT !.published = n]
<1>0. ASSUME NEW n \in Nat
      PROVE  /\ With(n) \in Plans /\ SameWalk(p, With(n))
             /\ With(n).leadDone = p.leadDone /\ With(n).done = p.done /\ With(n).list = p.list
             /\ With(n).gridWin = p.gridWin /\ With(n).published = n /\ Drops(p, With(n))
  <2>1. /\ With(n) \in Plans /\ SameWalk(p, With(n))
        /\ With(n).leadDone = p.leadDone /\ With(n).done = p.done /\ With(n).list = p.list
        /\ With(n).gridWin = p.gridWin /\ With(n).published = n /\ With(n).gridPts = p.gridPts
    BY DEF Plans, SameWalk
  <2> HIDE DEF With
  <2>2. dropGridWindows(p, p.gridWin) = p.gridPts
    BY DEF dropGridWindows
  <2>3. \A m \in p.gridWin+1..p.gridWin : FALSE
    BY <1>1
  <2>4. Drops(p, With(n))
    BY <2>1, <2>2, <2>3 DEF Drops
  <2> QED BY <2>1, <2>4
<1>2. CASE ~p.headDone
  <2>1. updateSegCount(p) = With(0)
    BY <1>2 DEF updateSegCount
  <2> HIDE DEF With
  <2> QED BY <1>0, <1>1, <1>2, <2>1
<1>3. CASE p.headDone /\ p.done
  <2>1. updateSegCount(p) = With(Len(p.cuts))
    BY <1>3 DEF updateSegCount
  <2> DEFINE q == With(Len(p.cuts))
  <2>2. /\ q \in Plans /\ SameWalk(p, q)
        /\ q.leadDone = p.leadDone /\ q.done = p.done /\ q.list = p.list
        /\ q.gridWin = p.gridWin /\ q.published = Len(p.cuts) /\ Drops(p, q)
    BY <1>0, <1>1
  <2>3. updateSegCount(p) = q
    BY <2>1
  <2> HIDE DEF q
  <2>4. q.gridWin \in p.gridWin..Len(p.cuts)
    BY <1>1, <2>2
  <2>5. p.headDone /\ p.done /\ (~p.headDone => FALSE) /\ (p.headDone /\ ~p.done => FALSE)
    BY <1>3, Zenon
  <2> QED BY <2>2, <2>3, <2>4, <2>5, Zenon
<1>4. CASE p.headDone /\ ~p.done
  <2>1. updateSegCount(p) = publishSettled(p)
    BY <1>4 DEF updateSegCount
  <2> QED BY <1>1, <1>4, <2>1, PublishSettled
<1> QED BY <1>1, <1>2, <1>3, <1>4

\* One block folded in.
BlockFolded(p, b, at, q) ==
  /\ q \in Plans /\ q.met = p.met \union {b.t}
  /\ q.cursor = p.cursor /\ q.gridWin = p.gridWin /\ q.headDone = p.headDone
  /\ q.published = p.published /\ q.done = p.done /\ q.list = p.list
  /\ q.cuts = IF IsKey(b) THEN recordKeyframe(p.cuts, b.ms, at) ELSE p.cuts
  /\ q.gridPts = IF b.t = "a" THEN Append(p.gridPts, b.ms) ELSE p.gridPts
  /\ b.t = "a" => q.lead = p.lead /\ q.leadDone = p.leadDone
  /\ b.t # "a" => q.lead = extendLead(p, b).lead /\ q.leadDone = extendLead(p, b).leadDone

LEMMA FoldBlock ==
    ASSUME NEW p \in Plans, NEW b \in Blocks, NEW at \in Nat
    PROVE  BlockFolded(p, b, at, foldBlock(p, b, at))
<1> USE DEF BlockFolded
<1> DEFINE e == extendHead(p, b)
           x == extendLead(e, b)
<1>1. b.t \in {"v", "a"} /\ b.ms \in Nat /\ b.key \in BOOLEAN
  BY DEF Blocks
<1>2. /\ e \in Plans /\ e.met = p.met \union {b.t} /\ e.cursor = p.cursor /\ e.gridWin = p.gridWin
      /\ e.headDone = p.headDone /\ e.published = p.published /\ e.done = p.done /\ e.list = p.list
      /\ e.cuts = p.cuts /\ e.gridPts = p.gridPts /\ e.lead = p.lead /\ e.leadDone = p.leadDone
  BY <1>1 DEF extendHead, Plans
<1>3. CASE b.t = "a"
  <2>1. foldBlock(p, b, at) = [e EXCEPT !.gridPts = Append(@, b.ms)]
    BY <1>3 DEF foldBlock
  <2>2. Append(e.gridPts, b.ms) \in Seq(Nat)
    BY <1>1, <1>2 DEF Plans
  <2>3. ~IsKey(b)
    BY <1>3 DEF IsKey
  <2> HIDE DEF e
  <2> QED BY <1>2, <1>3, <2>1, <2>2, <2>3 DEF Plans
<1>4. CASE b.t # "a"
  <2>1. foldBlock(p, b, at) = IF b.key THEN [x EXCEPT !.cuts = recordKeyframe(@, b.ms, at)] ELSE x
    BY <1>4 DEF foldBlock
  <2>2. IsKey(b) <=> b.key
    BY <1>1, <1>4 DEF IsKey
  <2> HIDE DEF e
  <2>3. /\ x \in Plans /\ x.met = e.met /\ x.cursor = e.cursor /\ x.gridWin = e.gridWin
        /\ x.headDone = e.headDone /\ x.published = e.published /\ x.done = e.done /\ x.list = e.list
        /\ x.cuts = e.cuts /\ x.gridPts = e.gridPts
    <3>1. Append(e.lead, b.ms) \in Seq(Nat)
      BY <1>1, <1>2 DEF Plans
    <3> QED BY <1>2, <3>1 DEF extendLead, Plans
  <2>4. x.lead = extendLead(p, b).lead /\ x.leadDone = extendLead(p, b).leadDone
    BY <1>2 DEF extendLead, Plans
  <2>5. recordKeyframe(x.cuts, b.ms, at) \in Seq(Cut)
    <3>1. x.cuts \in Seq(Cut)
      BY <2>3 DEF Plans
    <3>2. Recorded(x.cuts, b.ms, recordKeyframe(x.cuts, b.ms, at))
      BY <1>1, <3>1, RecordKeyframe
    <3> QED BY <3>2 DEF Recorded
  <2> HIDE DEF x
  <2> DEFINE cuts == recordKeyframe(x.cuts, b.ms, at)
             With(c) == [x EXCEPT !.cuts = c]
  <2>6. foldBlock(p, b, at) = IF b.key THEN With(cuts) ELSE x
    BY <2>1
  <2>7. cuts \in Seq(Cut) /\ cuts = recordKeyframe(p.cuts, b.ms, at)
    BY <1>2, <2>3, <2>5
  <2> HIDE DEF cuts
  <2>8. /\ With(cuts) \in Plans /\ With(cuts).met = x.met /\ With(cuts).cursor = x.cursor
        /\ With(cuts).gridWin = x.gridWin /\ With(cuts).headDone = x.headDone
        /\ With(cuts).published = x.published /\ With(cuts).done = x.done /\ With(cuts).list = x.list
        /\ With(cuts).cuts = cuts /\ With(cuts).lead = x.lead /\ With(cuts).leadDone = x.leadDone
        /\ With(cuts).gridPts = x.gridPts
    BY <2>3, <2>7 DEF Plans
  <2> HIDE DEF With
  <2>9. CASE b.key
    BY <1>2, <1>4, <2>2, <2>3, <2>4, <2>6, <2>7, <2>8, <2>9
  <2>10. CASE ~b.key
    BY <1>2, <1>4, <2>2, <2>3, <2>4, <2>6, <2>10
  <2> QED BY <2>9, <2>10
<1> QED BY <1>3, <1>4

-----------------------------------------------------------------------------
(* A cluster and its blocks.                                                *)

LEMMA ClusterBlocks ==
    ASSUME NEW f \in Files, NEW c \in 0..Len(f.ends)-1
    PROVE  LET s == IF c = 0 THEN 0 ELSE f.ends[c]
               k == SubSeq(f.blocks, IF c = 0 THEN 1 ELSE f.ends[c] + 1, f.ends[c+1])
           IN /\ s \in 0..Len(f.blocks) /\ f.ends[c+1] \in s..Len(f.blocks)
              /\ k \in Seq(Blocks) /\ Len(k) = f.ends[c+1] - s
              /\ \A i \in 1..f.ends[c+1] - s :
                   s + i \in 1..Len(f.blocks) /\ k[i] = f.blocks[s + i] /\ ClusterOf(f, s + i) = c + 1
<1> DEFINE s == IF c = 0 THEN 0 ELSE f.ends[c]
           e == f.ends[c+1]
           n == Len(f.blocks)
           k == SubSeq(f.blocks, s + 1, e)
<1>1. /\ f.blocks \in Seq(Blocks) /\ n \in Nat /\ Len(f.ends) \in Nat \ {0}
      /\ \A d, g \in 1..Len(f.ends) : d <= g => f.ends[d] <= f.ends[g]
      /\ \A d \in 1..Len(f.ends) : f.ends[d] \in 0..n
  BY FileTypes
<1>2. c + 1 \in 1..Len(f.ends) /\ (c # 0 => c \in 1..Len(f.ends) /\ (c + 1) - 1 = c)
  BY <1>1
<1>3. s \in 0..n /\ e \in s..n
  <2>1. e \in 0..n
    BY <1>1, <1>2
  <2>2. c # 0 => f.ends[c] \in 0..n /\ f.ends[c] <= e
    BY <1>1, <1>2
  <2> QED BY <1>1, <2>1, <2>2
<1>4. SubSeq(f.blocks, IF c = 0 THEN 1 ELSE f.ends[c] + 1, f.ends[c+1]) = k
  <2>1. (IF c = 0 THEN 1 ELSE f.ends[c] + 1) = s + 1
    <3>1. CASE c = 0
      BY <3>1
    <3>2. CASE c # 0
      BY <3>2
    <3> QED BY <3>1, <3>2
  <2> QED BY <2>1
<1>5. ASSUME NEW i \in 1..e-s PROVE s + i \in 1..n /\ ClusterOf(f, s + i) = c + 1
  <2>1. s + i \in 1..n
    BY <1>1, <1>3
  <2>2. s + i <= f.ends[c+1] /\ (c + 1 > 1 => s + i > f.ends[(c + 1) - 1])
    BY <1>2, <1>3
  <2> HIDE DEF s, n
  <2>3. ClusterOf(f, s + i) = c + 1
    BY <1>2, <2>1, <2>2, ClusterIs DEF n
  <2> QED BY <2>1, <2>3
<1> HIDE DEF s, e
<1>6. k \in Seq(Blocks) /\ Len(k) = e - s /\ \A i \in 1..e-s : k[i] = f.blocks[s + i]
  <2>1. e \in Nat /\ s \in Nat /\ (s + 1) - 1 = s /\ e - (s + 1) + 1 = e - s
    BY <1>1, <1>3
  <2>2. k \in Seq(Blocks) /\ Len(k) = e - s
    BY <1>1, <1>3
  <2>3. ASSUME NEW i \in 1..e-s PROVE k[i] = f.blocks[s + i]
    <3>1. k[i] = f.blocks[s + 1 + i - 1] /\ s + 1 + i - 1 = s + i
      BY <1>1, <1>3
    <3> QED BY <3>1
  <2> QED BY <2>2, <2>3
<1> HIDE DEF k
<1> QED BY <1>3, <1>4, <1>5, <1>6 DEF s, e, n

\* The whole clusters of a file of which w blocks are written.
WholeOf(f, w) == Cardinality({c \in DOMAIN f.ends : f.ends[c] <= w})

LEMMA WholeIs ==
    ASSUME NEW f \in Files, NEW w \in Nat, NEW x \in Nat, w <= x
    PROVE  WholeOf(f, w) \in 0..Len(f.ends) /\ WholeOf(f, w) <= WholeOf(f, x)
<1> DEFINE n == Len(f.ends)
           A == {c \in DOMAIN f.ends : f.ends[c] <= w}
           B == {c \in DOMAIN f.ends : f.ends[c] <= x}
<1>1. n \in Nat /\ DOMAIN f.ends = 1..n /\ \A c \in 1..n : f.ends[c] \in Nat
  BY FileTypes
<1>2. A \subseteq B /\ B \subseteq 1..n
  BY <1>1
<1>3. IsFiniteSet(1..n) /\ Cardinality(1..n) = n
  BY <1>1, FS_Interval
<1> HIDE DEF A, B, n
<1>4. IsFiniteSet(B) /\ Cardinality(B) <= n
  BY <1>2, <1>3, FS_Subset
<1>5. IsFiniteSet(A) /\ Cardinality(A) <= Cardinality(B)
  BY <1>2, <1>4, FS_Subset
<1>6. Cardinality(A) \in Nat /\ Cardinality(B) \in Nat
  BY <1>4, <1>5, FS_CardinalityType
<1> QED BY <1>1, <1>4, <1>5, <1>6 DEF A, B, n, WholeOf

-----------------------------------------------------------------------------
(* What every step keeps.                                                   *)

\* The first block of the cluster at the cursor is the one after.
Base == IF plan.cursor = 0 THEN 0 ELSE file.ends[plan.cursor]

\* The scan stays in the file.
WalkInv ==
  /\ file \in Files /\ written \in 0..Len(file.blocks) /\ trailer \in BOOLEAN /\ opened \in BOOLEAN
  /\ scan \in Scans /\ plan \in Plans /\ plan.met \subseteq file.tracks /\ plan.gridWin <= Len(plan.cuts)
  /\ scan.size <= Whole /\ plan.cursor <= Whole
  /\ scan.at > 0 => Walking /\ scan.at <= Len(Cluster)
  /\ scan.at = 0 => ~scan.locked /\ scan.keys = <<>>
  /\ scan.locked => scan.keys = <<>>

\* The cuts cover the clusters before the cursor, and with the keyframes kept aside the blocks walked.
CutsInv ==
  /\ Covers(file, plan.cuts, Base)
  /\ scan.locked => Covers(file, plan.cuts, Base + scan.at)
  /\ ~scan.locked => Covers(file, recordKeyframes(plan.cuts, scan.keys, plan.cursor + 1), Base + scan.at)

LEMMA WalkFacts ==
    ASSUME WalkInv
    PROVE  /\ Whole = WholeOf(file, written) /\ Whole \in 0..Len(file.ends) /\ plan.cursor \in 0..Len(file.ends)
           /\ Len(file.ends) \in Nat \ {0} /\ Len(file.blocks) \in Nat /\ Base \in 0..Len(file.blocks)
           /\ scan.at \in Nat /\ scan.size \in Nat /\ Len(plan.cuts) \in Nat
           /\ (plan.cursor = Len(file.ends) => Base = Len(file.blocks))
<1>1. /\ file \in Files /\ written \in Nat /\ plan.cursor \in Nat /\ plan.cursor <= Whole
      /\ scan.at \in Nat /\ scan.size \in Nat /\ plan.cuts \in Seq(Cut)
  BY DEF WalkInv, Plans, Scans
<1>2. /\ Len(file.ends) \in Nat \ {0} /\ Len(file.blocks) \in Nat
      /\ \A c \in 1..Len(file.ends) : file.ends[c] \in 0..Len(file.blocks)
      /\ file.ends[Len(file.ends)] = Len(file.blocks)
  BY <1>1, FileTypes
<1>3. Whole = WholeOf(file, written)
  BY DEF Whole, WholeOf
<1>4. WholeOf(file, written) \in 0..Len(file.ends)
  BY <1>1, WholeIs
<1>5. plan.cursor \in 0..Len(file.ends)
  BY <1>1, <1>2, <1>3, <1>4
<1>6. Base \in 0..Len(file.blocks) /\ (plan.cursor = Len(file.ends) => Base = Len(file.blocks))
  BY <1>2, <1>5 DEF Base
<1> QED BY <1>1, <1>2, <1>3, <1>4, <1>5, <1>6

\* The cluster at the cursor.
LEMMA ClusterFacts ==
    ASSUME WalkInv, Walking
    PROVE  /\ plan.cursor + 1 \in 1..Len(file.ends) /\ Cluster \in Seq(Blocks)
           /\ Len(Cluster) = file.ends[plan.cursor + 1] - Base /\ file.ends[plan.cursor + 1] \in Base..Len(file.blocks)
           /\ \A i \in 1..Len(Cluster) : /\ Base + i \in 1..Len(file.blocks) /\ Cluster[i] = file.blocks[Base + i]
                                         /\ ClusterOf(file, Base + i) = plan.cursor + 1
<1>1. /\ file \in Files /\ Whole \in 0..Len(file.ends) /\ plan.cursor \in 0..Len(file.ends)
      /\ scan.size \in Nat /\ Len(file.ends) \in Nat
  BY WalkFacts DEF WalkInv
<1>2. plan.cursor \in 0..Len(file.ends)-1
  BY <1>1 DEF Walking, WalkInv
<1>3. Base = IF plan.cursor = 0 THEN 0 ELSE file.ends[plan.cursor]
  BY DEF Base
<1>4. Cluster = SubSeq(file.blocks, IF plan.cursor = 0 THEN 1 ELSE file.ends[plan.cursor] + 1, file.ends[plan.cursor + 1])
  BY DEF Cluster
<1>5. /\ file.ends[plan.cursor + 1] \in Base..Len(file.blocks)
      /\ Cluster \in Seq(Blocks) /\ Len(Cluster) = file.ends[plan.cursor + 1] - Base
      /\ \A i \in 1..file.ends[plan.cursor + 1] - Base :
           /\ Base + i \in 1..Len(file.blocks) /\ Cluster[i] = file.blocks[Base + i]
           /\ ClusterOf(file, Base + i) = plan.cursor + 1
  BY <1>1, <1>2, <1>3, <1>4, ClusterBlocks, Zenon
<1>6. plan.cursor + 1 \in 1..Len(file.ends)
  BY <1>1, <1>2
<1> QED BY <1>5, <1>6

\* What the steps of a scan do, each on its own fields.
Apart == UNCHANGED <<file, written, trailer, starts, ended, req>>

BlockMoved(b) ==
  /\ Walking /\ scan.at + 1 <= Len(Cluster) /\ b \in Blocks
  /\ Base + scan.at + 1 \in 1..Len(file.blocks) /\ b = file.blocks[Base + scan.at + 1]
  /\ ClusterOf(file, Base + scan.at + 1) = plan.cursor + 1
  /\ scan' \in Scans /\ scan'.pc = "scan" /\ scan'.size = scan.size /\ scan'.at = scan.at + 1
  /\ scan'.locked = (IF scan.at = 0 THEN HeadOpen ELSE scan.locked)
  /\ scan'.locked => plan' = foldBlock(plan, b, plan.cursor + 1) /\ scan'.keys = scan.keys
  /\ ~scan'.locked => plan' = plan /\ scan'.keys = IF IsKey(b) THEN Append(scan.keys, b.ms) ELSE scan.keys
  /\ scan'.audio = IF ~scan'.locked /\ b.t = "a" THEN Append(scan.audio, b.ms) ELSE scan.audio
  /\ scan'.call = scan.call
  /\ Apart /\ UNCHANGED <<opened, refolded>>

LEMMA BlockMoves == ASSUME WalkInv, ScanBlock PROVE \E b : BlockMoved(b)
<1> DEFINE b == Cluster[scan.at + 1]
           locked == IF scan.at = 0 THEN HeadOpen ELSE scan.locked
           next == [scan EXCEPT !.at = @ + 1, !.locked = locked]
<1>1. Walking /\ scan \in Scans /\ plan \in Plans /\ scan.at \in Nat /\ scan.at < Len(Cluster)
  BY DEF ScanBlock, WalkInv, Scans
<1>2. /\ IF locked THEN plan' = foldBlock(plan, b, plan.cursor + 1) /\ scan' = next
         ELSE /\ plan' = plan
              /\ scan' = IF b.t = "a" THEN [next EXCEPT !.audio = Append(@, b.ms)]
                         ELSE IF b.key THEN [next EXCEPT !.keys = Append(@, b.ms)] ELSE next
      /\ Apart /\ UNCHANGED <<opened, refolded>>
  BY DEF ScanBlock, Publish, Apart, filevars, learned
<1>3. /\ Cluster \in Seq(Blocks) /\ Len(Cluster) \in Nat
      /\ \A i \in 1..Len(Cluster) : /\ Base + i \in 1..Len(file.blocks) /\ Cluster[i] = file.blocks[Base + i]
                                    /\ ClusterOf(file, Base + i) = plan.cursor + 1
  BY <1>1, ClusterFacts
<1>4. Base \in Nat
  BY WalkFacts
<1>5. /\ scan.at + 1 \in 1..Len(Cluster) /\ Base + scan.at + 1 = Base + (scan.at + 1)
  BY <1>1, <1>3, <1>4
<1>6. /\ b \in Blocks /\ scan.at + 1 <= Len(Cluster)
      /\ Base + scan.at + 1 \in 1..Len(file.blocks) /\ b = file.blocks[Base + scan.at + 1]
      /\ ClusterOf(file, Base + scan.at + 1) = plan.cursor + 1
  BY <1>3, <1>5
<1>7. locked \in BOOLEAN
  BY <1>1 DEF HeadOpen, Scans
<1> HIDE DEF b, locked
<1>8. /\ next \in Scans /\ next.pc = scan.pc /\ next.size = scan.size /\ next.at = scan.at + 1
      /\ next.locked = locked /\ next.keys = scan.keys /\ next.audio = scan.audio /\ next.call = scan.call
  <2>1. scan.at + 1 \in Nat
    BY <1>1
  <2>2. next \in Scans
    BY <1>1, <1>7, <2>1 DEF Scans
  <2> QED BY <1>1, <2>2 DEF Scans
<1> HIDE DEF next
<1>9. b.t \in {"v", "a"} /\ b.ms \in Nat /\ b.key \in BOOLEAN /\ scan.pc = "scan"
  BY <1>1, <1>6 DEF Blocks, Walking
<1>10. Append(next.audio, b.ms) \in Seq(Nat) /\ Append(next.keys, b.ms) \in Seq(Nat)
  BY <1>8, <1>9 DEF Scans
<1>11. CASE locked
  BY <1>1, <1>2, <1>6, <1>8, <1>9, <1>11 DEF BlockMoved, locked
<1>12. CASE ~locked
  <2>1. CASE b.t = "a"
    <3>1. scan' = [next EXCEPT !.audio = Append(@, b.ms)] /\ ~IsKey(b)
      BY <1>2, <1>12, <2>1 DEF IsKey
    <3>2. /\ scan' \in Scans /\ scan'.pc = "scan" /\ scan'.size = scan.size /\ scan'.at = scan.at + 1
          /\ scan'.locked = locked /\ scan'.keys = scan.keys
          /\ scan'.audio = Append(scan.audio, b.ms) /\ scan'.call = scan.call
      BY <1>8, <1>9, <1>10, <3>1 DEF Scans
    <3> QED BY <1>1, <1>2, <1>6, <1>12, <2>1, <3>1, <3>2 DEF BlockMoved, locked
  <2>2. CASE b.t # "a" /\ b.key
    <3>1. scan' = [next EXCEPT !.keys = Append(@, b.ms)] /\ IsKey(b)
      BY <1>2, <1>9, <1>12, <2>2 DEF IsKey
    <3>2. /\ scan' \in Scans /\ scan'.pc = "scan" /\ scan'.size = scan.size /\ scan'.at = scan.at + 1
          /\ scan'.locked = locked /\ scan'.keys = Append(scan.keys, b.ms)
          /\ scan'.audio = scan.audio /\ scan'.call = scan.call
      BY <1>8, <1>9, <1>10, <3>1 DEF Scans
    <3> QED BY <1>1, <1>2, <1>6, <1>12, <2>2, <3>1, <3>2 DEF BlockMoved, locked
  <2>3. CASE b.t # "a" /\ ~b.key
    <3>1. scan' = next /\ ~IsKey(b)
      BY <1>2, <1>12, <2>3 DEF IsKey
    <3> QED BY <1>1, <1>2, <1>6, <1>8, <1>9, <1>12, <2>3, <3>1 DEF BlockMoved, locked
  <2> QED BY <2>1, <2>2, <2>3
<1> QED BY <1>11, <1>12

\* The plan keeps its cluster's blocks: at, locked and keys start over.
Fresh(s) == s \in Scans /\ s.at = 0 /\ s.locked = FALSE /\ s.keys = <<>> /\ s.audio = <<>>

LEMMA Fresher ==
    ASSUME scan \in Scans, NEW n \in Nat
    PROVE  /\ Fresh(Idle) /\ Idle.pc = "idle" /\ Idle.size = 0
           /\ Fresh(NextCluster) /\ NextCluster.pc = scan.pc /\ NextCluster.size = scan.size
           /\ Fresh(Abandoned(scan.call)) /\ Abandoned(scan.call).pc \in {"idle", "close"}
           /\ Abandoned(scan.call).size \in {0, scan.size}
           /\ NextCluster.call = scan.call /\ Idle.call = "none"
           /\ IF scan.call = "complete" THEN Abandoned(scan.call).pc = "close" /\ Abandoned(scan.call).call = "complete"
              ELSE Abandoned(scan.call) = Idle
<1>1. <<>> \in Seq(Nat)
  OBVIOUS
<1>2. Fresh(Idle) /\ Idle.pc = "idle" /\ Idle.size = 0 /\ Idle.call = "none"
  BY <1>1 DEF Idle, Fresh, Scans
<1>3. Fresh(NextCluster) /\ NextCluster.pc = scan.pc /\ NextCluster.size = scan.size /\ NextCluster.call = scan.call
  BY <1>1 DEF NextCluster, Fresh, Scans
<1> DEFINE c == [NextCluster EXCEPT !.pc = "close"]
<1>4. Fresh(c) /\ c.pc = "close" /\ c.size = scan.size /\ c.call = scan.call
  BY <1>3 DEF Fresh, Scans
<1>5. Abandoned(scan.call) = IF scan.call = "complete" THEN c ELSE Idle
  BY DEF Abandoned
<1> HIDE DEF c
<1> QED BY <1>2, <1>3, <1>4, <1>5

\* What the end of a cluster publishes, p the plan with the cluster folded in.
ClusterMoved(p, q) ==
  /\ Walking /\ scan.at = Len(Cluster) /\ Fresh(scan') /\ scan'.pc = "scan" /\ scan'.size = scan.size
  /\ p \in Plans /\ p.cursor = plan.cursor /\ p.gridWin = plan.gridWin /\ p.published = plan.published
  /\ p.cuts = IF scan.locked THEN plan.cuts ELSE recordKeyframes(plan.cuts, scan.keys, plan.cursor + 1)
  /\ p.gridWin <= Len(p.cuts) /\ IsPrefix(plan.cuts, p.cuts)
  /\ p.met = plan.met /\ p.lead = plan.lead /\ p.leadDone = plan.leadDone /\ p.done = plan.done /\ p.list = plan.list
  /\ plan.headDone => p.headDone
  /\ p.gridPts = (IF scan.locked THEN plan.gridPts ELSE plan.gridPts \o scan.audio) /\ scan'.call = scan.call
  /\ q = updateSegCount(p) /\ plan'.gridPts = q.gridPts
  /\ plan' \in Plans /\ plan'.cursor = plan.cursor + 1
  /\ plan'.cuts = q.cuts /\ plan'.gridWin = q.gridWin /\ plan'.published = q.published
  /\ plan'.met = q.met /\ plan'.lead = q.lead /\ plan'.leadDone = q.leadDone /\ plan'.headDone = q.headDone
  /\ plan'.done = q.done /\ plan'.list = q.list
  /\ Apart /\ UNCHANGED <<opened, refolded>>

LEMMA ClusterMoves == ASSUME WalkInv, ScanCluster PROVE \E p, q : ClusterMoved(p, q)
<1> DEFINE p == IF scan.locked THEN resolveHead(plan) ELSE foldKept(plan)
           q == updateSegCount(p)
<1>1. /\ Walking /\ scan.at = Len(Cluster) /\ scan' = NextCluster /\ plan' = [q EXCEPT !.cursor = @ + 1]
      /\ Apart /\ UNCHANGED <<opened, refolded>>
  BY DEF ScanCluster, Publish, Apart, filevars, learned
<1>2. /\ scan \in Scans /\ plan \in Plans /\ scan.pc = "scan" /\ plan.gridWin <= Len(plan.cuts)
      /\ plan.cuts \in Seq(Cut) /\ scan.keys \in Seq(Nat) /\ plan.cursor + 1 \in Nat
      /\ scan.audio \in Seq(Nat) /\ plan.gridPts \in Seq(Nat) /\ plan.gridWin \in Nat
  BY <1>1 DEF WalkInv, Walking, Scans, Plans
<1>3. Fresh(scan') /\ scan'.pc = "scan" /\ scan'.size = scan.size /\ scan'.call = scan.call
  BY <1>1, <1>2, Fresher
<1> DEFINE kept == recordKeyframes(plan.cuts, scan.keys, plan.cursor + 1)
<1>4. kept \in Seq(Cut) /\ IsPrefix(plan.cuts, kept) /\ IsPrefix(plan.cuts, plan.cuts)
  <2>1. plan.cuts \in Seq(Cut) /\ scan.keys \in Seq(Nat) /\ plan.cursor + 1 \in Nat
    BY <1>2
  <2>2. kept \in Seq(Cut) /\ IsPrefix(plan.cuts, kept)
    BY <2>1, RecordKeyframesType
  <2>3. IsPrefix(plan.cuts, plan.cuts)
    BY <2>1, PrefixIs
  <2> QED BY <2>2, <2>3
<1>5. Len(plan.cuts) <= Len(kept) /\ Len(plan.cuts) \in Nat /\ Len(kept) \in Nat
  BY <1>2, <1>4, PrefixIs
<1> DEFINE Folds(r) ==
             /\ r \in Plans /\ r.cursor = plan.cursor /\ r.gridWin = plan.gridWin /\ r.published = plan.published
             /\ r.met = plan.met /\ r.lead = plan.lead /\ r.leadDone = plan.leadDone /\ r.done = plan.done
             /\ r.list = plan.list /\ (plan.headDone => r.headDone)
<1>6. Folds(resolveHead(plan)) /\ resolveHead(plan).cuts = plan.cuts /\ resolveHead(plan).gridPts = plan.gridPts
  BY <1>2 DEF resolveHead, Plans
<1>7. Folds(foldKept(plan)) /\ foldKept(plan).cuts = kept /\ foldKept(plan).gridPts = plan.gridPts \o scan.audio
  <2>1. foldKept(plan) = [plan EXCEPT !.gridPts = @ \o scan.audio, !.cuts = kept]
    BY <1>2 DEF foldKept, Plans
  <2>2. plan.gridPts \o scan.audio \in Seq(Nat)
    BY <1>2
  <2> HIDE DEF kept
  <2> QED BY <1>2, <1>4, <2>1, <2>2 DEF Plans
<1> HIDE DEF Folds, kept
<1>8. /\ Folds(p) /\ p.cuts = (IF scan.locked THEN plan.cuts ELSE kept)
      /\ p.gridPts = (IF scan.locked THEN plan.gridPts ELSE plan.gridPts \o scan.audio)
  BY <1>6, <1>7
<1> HIDE DEF p
<1>9. p \in Plans /\ p.gridWin <= Len(p.cuts) /\ IsPrefix(plan.cuts, p.cuts)
  BY <1>2, <1>4, <1>5, <1>8 DEF Folds
<1>10. q \in Plans /\ q.cursor = p.cursor
  BY <1>9, UpdateSegCount DEF SameWalk
<1> HIDE DEF q
<1>11. /\ plan' \in Plans /\ plan'.cursor = plan.cursor + 1
       /\ plan'.cuts = q.cuts /\ plan'.gridWin = q.gridWin /\ plan'.published = q.published
       /\ plan'.met = q.met /\ plan'.lead = q.lead /\ plan'.leadDone = q.leadDone /\ plan'.headDone = q.headDone
       /\ plan'.done = q.done /\ plan'.list = q.list /\ plan'.gridPts = q.gridPts
  <2>1. q.cursor = plan.cursor /\ plan.cursor \in Nat
    BY <1>2, <1>8, <1>10 DEF Folds, Plans
  <2>2. plan' = [q EXCEPT !.cursor = plan.cursor + 1] /\ q \in Plans /\ plan.cursor + 1 \in Nat
    BY <1>1, <1>10, <2>1 DEF Plans
  <2>3. plan' \in Plans
    BY <2>2 DEF Plans
  <2> QED BY <2>2, <2>3 DEF Plans
<1>12. ClusterMoved(p, q)
  BY <1>1, <1>3, <1>8, <1>9, <1>11 DEF ClusterMoved, Folds, kept, q
<1> QED BY <1>12

FinalMoved ==
  /\ scan.pc \in {"scan", "close"} /\ scan' = Idle /\ opened' = TRUE
  /\ AtEnd \/ scan.pc = "close"
  /\ plan' \in Plans /\ SameWalk(plan, plan') /\ plan'.leadDone /\ plan'.done
  /\ plan'.gridWin \in plan.gridWin..Len(plan.cuts) /\ plan'.gridWin = plan.gridWin
  /\ plan'.published = IF plan.headDone THEN Len(plan.cuts) ELSE 0
  /\ plan'.list = IF plan.headDone THEN [n |-> Len(plan.cuts), ended |-> TRUE, served |-> TRUE] ELSE plan.list
  /\ Apart /\ UNCHANGED refolded

LEMMA FinalMoves == ASSUME WalkInv, Finalize PROVE FinalMoved
<1> DEFINE p == [plan EXCEPT !.leadDone = TRUE, !.done = TRUE]
           q == updateSegCount(p)
<1>1. /\ (AtEnd \/ scan.pc = "close") /\ scan' = Idle /\ opened' = TRUE /\ plan' = finalized(plan)
      /\ Apart /\ UNCHANGED refolded
  BY DEF Finalize, Publish, Apart, filevars, learned
<1>2. scan.pc \in {"scan", "close"}
  BY <1>1 DEF AtEnd
<1>3. plan \in Plans /\ plan.gridWin <= Len(plan.cuts) /\ plan.headDone \in BOOLEAN
  BY DEF WalkInv, Plans
<1>4. /\ p \in Plans /\ SameWalk(plan, p) /\ p.leadDone = TRUE /\ p.done = TRUE
      /\ p.gridWin = plan.gridWin /\ p.list = plan.list
  BY <1>3 DEF Plans, SameWalk
<1>5. plan' = rebuildOutputs(q)
  BY <1>1 DEF finalized
<1> HIDE DEF p
<1>6. /\ q \in Plans /\ SameWalk(p, q) /\ q.leadDone = TRUE /\ q.done = TRUE /\ q.list = p.list
      /\ q.gridWin \in p.gridWin..Len(p.cuts) /\ q.gridWin = p.gridWin
      /\ q.published = IF p.headDone THEN Len(p.cuts) ELSE 0
  <2>1. p.gridWin <= Len(p.cuts)
    BY <1>3, <1>4 DEF SameWalk
  <2> QED BY <1>4, <2>1, UpdateSegCount
<1> HIDE DEF q
<1>7. /\ q.cursor = plan.cursor /\ q.cuts = plan.cuts /\ q.met = plan.met /\ q.lead = plan.lead
      /\ q.headDone = plan.headDone /\ q.list = plan.list /\ q.gridWin \in plan.gridWin..Len(plan.cuts)
      /\ q.gridWin = plan.gridWin
      /\ q.published = IF plan.headDone THEN Len(plan.cuts) ELSE 0
  BY <1>4, <1>6 DEF SameWalk
<1>8. CASE plan.headDone
  <2> DEFINE list == [n |-> q.published, ended |-> q.done, served |-> TRUE]
  <2>1. plan' = [q EXCEPT !.list = list]
    BY <1>5, <1>6, <1>7, <1>8 DEF rebuildOutputs
  <2>2. list \in Lists /\ list = [n |-> Len(plan.cuts), ended |-> TRUE, served |-> TRUE]
    BY <1>6, <1>7, <1>8 DEF Lists, Plans
  <2> HIDE DEF list
  <2>3. plan' \in Plans
    BY <1>6, <2>1, <2>2 DEF Plans
  <2>4. /\ plan'.list = list /\ plan'.gridWin = q.gridWin /\ plan'.published = q.published
        /\ plan'.leadDone = TRUE /\ plan'.done = TRUE /\ SameWalk(q, plan')
    BY <1>6, <2>1 DEF Plans, SameWalk
  <2>5. SameWalk(plan, plan')
    BY <1>7, <2>4 DEF SameWalk
  <2> QED BY <1>1, <1>2, <1>7, <1>8, <2>2, <2>3, <2>4, <2>5 DEF FinalMoved
<1>9. CASE ~plan.headDone
  <2>1. plan' = q
    BY <1>5, <1>7, <1>9 DEF rebuildOutputs
  <2>2. SameWalk(plan, plan')
    BY <1>7, <2>1 DEF SameWalk
  <2> QED BY <1>1, <1>2, <1>6, <1>7, <1>9, <2>1, <2>2 DEF FinalMoved
<1> QED BY <1>8, <1>9

RestMoved ==
  /\ scan.pc = "scan" /\ Fresh(scan') /\ scan'.pc \in {"idle", "close"} /\ scan'.size \in {0, scan.size}
  /\ plan.cursor >= scan.size /\ opened' = TRUE
  /\ plan' \in Plans /\ SameWalk(plan, plan') /\ plan'.leadDone = plan.leadDone /\ plan'.done = plan.done
  /\ plan'.gridWin = plan.gridWin /\ plan'.published = plan.published /\ plan'.gridPts = plan.gridPts
  /\ scan' = Abandoned(scan.call)
  /\ plan'.list = IF plan.headDone /\ plan.leadDone
                  THEN [n |-> plan.published, ended |-> plan.done, served |-> TRUE] ELSE plan.list
  /\ Apart /\ UNCHANGED refolded

LEMMA RestMoves == ASSUME WalkInv, ScanRests PROVE RestMoved
<1>1. /\ scan.pc = "scan" /\ plan.cursor >= scan.size /\ scan' = Abandoned(scan.call) /\ opened' = TRUE
      /\ plan' = rebuildOutputs(plan) /\ Apart /\ UNCHANGED refolded
  BY DEF ScanRests, Publish, Apart, filevars, learned
<1>2. scan \in Scans /\ plan \in Plans
  BY DEF WalkInv
<1>3. Fresh(scan') /\ scan'.pc \in {"idle", "close"} /\ scan'.size \in {0, scan.size}
  BY <1>1, <1>2, Fresher
<1> DEFINE list == [n |-> plan.published, ended |-> plan.done, served |-> TRUE]
<1>4. list \in Lists
  BY <1>2 DEF Lists, Plans
<1>5. CASE plan.headDone /\ plan.leadDone
  <2>1. plan' = [plan EXCEPT !.list = list]
    BY <1>1, <1>5 DEF rebuildOutputs
  <2> HIDE DEF list
  <2>2. /\ plan' \in Plans /\ SameWalk(plan, plan') /\ plan'.leadDone = plan.leadDone /\ plan'.done = plan.done
        /\ plan'.gridWin = plan.gridWin /\ plan'.published = plan.published /\ plan'.list = list
        /\ plan'.gridPts = plan.gridPts
    BY <1>2, <1>4, <2>1 DEF Plans, SameWalk
  <2> QED BY <1>1, <1>3, <1>5, <2>2 DEF RestMoved, list
<1>6. CASE ~(plan.headDone /\ plan.leadDone)
  <2>1. plan' = plan
    BY <1>1, <1>6 DEF rebuildOutputs
  <2> QED BY <1>1, <1>2, <1>3, <1>6, <2>1 DEF RestMoved, SameWalk
<1> QED BY <1>5, <1>6

FailMoved ==
  /\ scan.pc \in {"scan", "close"} /\ Fresh(scan') /\ scan'.pc \in {"idle", "close"} /\ scan'.size \in {0, scan.size}
  /\ opened => plan' = plan /\ (~refolded' => ~refolded /\ ~(scan.locked /\ scan.at > 0))
  /\ ~opened => plan' = NewPlan /\ refolded' = refolded
  /\ scan' \in {Idle, Abandoned(scan.call)} /\ Apart /\ UNCHANGED opened

LEMMA FailMoves == ASSUME WalkInv, ScanFails \/ FinalizeFails PROVE FailMoved
<1>1. scan \in Scans /\ scan.at \in Nat /\ opened \in BOOLEAN
  BY DEF WalkInv, Scans
<1>2. CASE ScanFails
  <2>1. /\ Walking /\ Apart /\ UNCHANGED opened
        /\ IF opened
           THEN scan' = Abandoned(scan.call) /\ plan' = plan /\ refolded' = (refolded \/ (scan.locked /\ scan.at > 0))
           ELSE scan' = Idle /\ plan' = NewPlan /\ refolded' = refolded
    BY <1>2 DEF ScanFails, Apart, filevars, learned
  <2>2. Fresh(scan') /\ scan'.pc \in {"idle", "close"} /\ scan'.size \in {0, scan.size} /\ scan.pc \in {"scan", "close"}
    BY <1>1, <2>1, Fresher DEF Walking
  <2>3. opened => plan' = plan /\ (~refolded' => ~refolded /\ ~(scan.locked /\ scan.at > 0))
    BY <2>1, Zenon
  <2>4. ~opened => plan' = NewPlan /\ refolded' = refolded
    BY <2>1, Zenon
  <2>5. scan' \in {Idle, Abandoned(scan.call)}
    BY <2>1, Zenon
  <2> QED BY <2>1, <2>2, <2>3, <2>4, <2>5, Zenon DEF FailMoved
<1>3. CASE FinalizeFails
  <2>1. /\ AtEnd \/ scan.pc = "close"
        /\ Apart /\ UNCHANGED <<opened, refolded>>
        /\ IF opened THEN plan' = plan /\ scan' = IF AtEnd THEN Abandoned(scan.call) ELSE Idle
           ELSE plan' = NewPlan /\ scan' = Idle
    BY <1>3 DEF FinalizeFails, Publish, Apart, filevars, learned
  <2>2. scan.pc \in {"scan", "close"}
    BY <2>1 DEF AtEnd
  <2>3. ~Walking
    <3>1. plan.cursor = Len(file.ends) => ~(plan.cursor < scan.size)
      <4>1. scan.size <= Whole /\ Whole \in 0..Len(file.ends) /\ scan.size \in Nat /\ Len(file.ends) \in Nat
        BY WalkFacts DEF WalkInv
      <4> QED BY <4>1
    <3> QED BY <2>1, <3>1 DEF AtEnd, Walking
  <2>4. scan.at = 0
    BY <1>1, <2>3 DEF WalkInv
  <2>5. scan.locked = FALSE
    BY <1>1, <2>4 DEF WalkInv, Scans
  <2>6. Fresh(scan') /\ scan'.pc \in {"idle", "close"} /\ scan'.size \in {0, scan.size}
    BY <1>1, <2>1, Fresher
  <2>7. ~refolded' => ~refolded /\ ~(scan.locked /\ scan.at > 0)
    BY <2>1, <2>5, Zenon
  <2>8. ~opened => plan' = NewPlan /\ refolded' = refolded
    BY <2>1, Zenon
  <2>9. (opened => plan' = plan) /\ Apart /\ UNCHANGED opened
    BY <2>1, Zenon
  <2>10. scan' \in {Idle, Abandoned(scan.call)}
    BY <2>1, Zenon
  <2> QED BY <2>2, <2>6, <2>7, <2>8, <2>9, <2>10, Zenon DEF FailMoved
<1> QED BY <1>2, <1>3

\* A step of the writer or of a request, or none.
Quiet ==
  /\ UNCHANGED <<file, scan, plan, opened, refolded>>
  /\ written' \in written..Len(file.blocks) /\ trailer' \in BOOLEAN /\ (trailer' => trailer \/ Whole = Len(file.ends))

BeginMoved ==
  /\ scan.pc = "idle" /\ ~plan.done
  /\ Fresh(scan') /\ scan'.pc = "scan" /\ scan'.size = Whole /\ (scan'.call = "complete" => Written)
  /\ Apart /\ UNCHANGED <<plan, opened, refolded>>

LEMMA BeginMoves == ASSUME WalkInv, Refresh \/ Complete PROVE BeginMoved
<1>1. PICK call \in {"refresh", "complete"} : Begin(call) /\ (call = "complete" => Written)
  BY DEF Refresh, Complete
<1>2. /\ scan.pc = "idle" /\ ~plan.done /\ scan' = [Idle EXCEPT !.pc = "scan", !.call = call, !.size = Whole]
      /\ Apart /\ UNCHANGED <<plan, opened, refolded>>
  BY <1>1 DEF Begin, Apart, filevars, learned
<1>3. Whole \in Nat
  BY WalkFacts
<1>4. <<>> \in Seq(Nat)
  OBVIOUS
<1> QED BY <1>1, <1>2, <1>3, <1>4 DEF Idle, Scans, BeginMoved, Fresh

LEMMA WriteMoves == ASSUME WalkInv, Write PROVE Quiet /\ UNCHANGED <<starts, ended, req>>
<1>1. written \in 0..Len(file.blocks) /\ Len(file.blocks) \in Nat /\ trailer \in BOOLEAN
  BY WalkFacts DEF WalkInv
<1>2. UNCHANGED <<file, scan, plan, opened, refolded, starts, ended, req>>
  BY DEF Write, WriteBlock, WriteTrailer, learned
<1>3. written' \in written..Len(file.blocks) /\ trailer' \in BOOLEAN /\ (trailer' => trailer \/ Whole = Len(file.ends))
  <2>1. CASE WriteBlock
    <3>1. written < Len(file.blocks) /\ written' = written + 1 /\ trailer' = trailer
      BY <2>1 DEF WriteBlock
    <3> QED BY <1>1, <3>1
  <2>2. CASE WriteTrailer
    <3>1. trailer' = TRUE /\ written' = written /\ Whole = Len(file.ends)
      BY <2>2 DEF WriteTrailer
    <3> QED BY <1>1, <3>1
  <2> QED BY <2>1, <2>2 DEF Write
<1> QED BY <1>2, <1>3 DEF Quiet

LEMMA RequestMoves ==
    ASSUME WalkInv, (\E r \in Requests : Ask(r) \/ Serve(r)) \/ UNCHANGED vars PROVE Quiet
<1>1. UNCHANGED <<file, written, trailer, scan, plan, opened, refolded>>
  <2>1. ASSUME NEW r \in Requests, Ask(r) PROVE <1>1
    BY <2>1 DEF Ask, filevars
  <2>2. ASSUME NEW r \in Requests, Serve(r) PROVE <1>1
    BY <2>2 DEF Serve, GiveUp, WalkWindow, GridOpens, GridEnds, filevars
  <2>3. CASE UNCHANGED vars
    BY <2>3 DEF vars, filevars
  <2> QED BY <2>1, <2>2, <2>3
<1>2. written \in 0..Len(file.blocks) /\ Len(file.blocks) \in Nat /\ trailer \in BOOLEAN
  BY WalkFacts DEF WalkInv
<1> QED BY <1>1, <1>2 DEF Quiet

\* Each step is one of these.
LEMMA Steps ==
    ASSUME WalkInv, [Next]_vars
    PROVE  \/ Quiet \/ BeginMoved \/ (\E b : BlockMoved(b)) \/ (\E p, q : ClusterMoved(p, q))
           \/ FailMoved \/ FinalMoved \/ RestMoved
<1>1. \/ Write \/ Refresh \/ Complete \/ Scanning
      \/ (\E r \in Requests : Ask(r) \/ Serve(r)) \/ UNCHANGED vars
  BY DEF Next
<1>2. Scanning => ScanFails \/ FinalizeFails \/ ScanBlock \/ ScanCluster \/ Finalize \/ ScanRests
  BY DEF Scanning
<1> QED BY <1>1, <1>2, WriteMoves, BeginMoves, RequestMoves, BlockMoves, ClusterMoves, FailMoves, FinalMoves, RestMoves, Zenon

LEMMA NewPlanType == NewPlan \in Plans /\ NewPlan.cuts = <<>> /\ NewPlan.cursor = 0 /\ NewPlan.gridWin = 0
<1>1. <<>> \in Seq(Nat) /\ <<>> \in Seq(Cut) /\ NoList \in Lists
  BY DEF NoList, Lists
<1> QED BY <1>1 DEF NewPlan, Plans

LEMMA WalkInit == Init => WalkInv
<1> SUFFICES ASSUME Init PROVE WalkInv
  OBVIOUS
<1>1. /\ file \in Files /\ written = 0 /\ trailer = FALSE /\ scan = Idle /\ plan = NewPlan /\ opened = FALSE
  BY DEF Init
<1>2. Len(file.blocks) \in Nat
  BY <1>1, FileTypes
<1>3. Idle \in Scans /\ Idle.at = 0 /\ Idle.size = 0 /\ Idle.locked = FALSE /\ Idle.keys = <<>>
  <2>1. <<>> \in Seq(Nat)
    OBVIOUS
  <2> QED BY <2>1 DEF Idle, Scans
<1>4. NewPlan.met = {} /\ Len(<<>>) = 0
  BY DEF NewPlan
<1>5. Whole \in Nat
  <2>1. Whole = WholeOf(file, written)
    BY DEF Whole, WholeOf
  <2>2. WholeOf(file, written) \in 0..Len(file.ends) /\ Len(file.ends) \in Nat
    <3>1. written \in Nat /\ written <= written
      BY <1>1
    <3> QED BY <1>1, <3>1, WholeIs, FileTypes
  <2> QED BY <2>1, <2>2
<1>6. scan.size <= Whole /\ plan.cursor <= Whole
  BY <1>1, <1>3, <1>5, NewPlanType
<1>7. scan \in Scans /\ scan.at = 0 /\ ~scan.locked /\ scan.keys = <<>>
  BY <1>1, <1>3
<1>8. plan \in Plans /\ plan.met \subseteq file.tracks /\ plan.gridWin <= Len(plan.cuts)
  BY <1>1, <1>4, NewPlanType
<1>9. written \in 0..Len(file.blocks) /\ trailer \in BOOLEAN /\ opened \in BOOLEAN
  <2>1. written \in 0..Len(file.blocks)
    BY <1>1, <1>2
  <2>2. trailer \in BOOLEAN /\ opened \in BOOLEAN
    BY <1>1, Zenon
  <2> QED BY <2>1, <2>2
<1> QED BY <1>1, <1>6, <1>7, <1>8, <1>9 DEF WalkInv

LEMMA WalkStep == WalkInv /\ [Next]_vars => WalkInv'
<1> SUFFICES ASSUME WalkInv, [Next]_vars PROVE WalkInv'
  OBVIOUS
<1>1. /\ file \in Files /\ written \in 0..Len(file.blocks) /\ trailer \in BOOLEAN /\ opened \in BOOLEAN
      /\ scan \in Scans /\ plan \in Plans /\ plan.met \subseteq file.tracks /\ plan.gridWin <= Len(plan.cuts)
      /\ scan.size <= Whole /\ plan.cursor <= Whole
      /\ Whole \in Nat /\ Whole = WholeOf(file, written) /\ Len(file.blocks) \in Nat
      /\ scan.at \in Nat /\ scan.size \in Nat /\ plan.cursor \in Nat /\ plan.gridWin \in Nat /\ Len(plan.cuts) \in Nat
  BY WalkFacts DEF WalkInv, Plans
<1>2. (Whole = WholeOf(file, written))'
  BY DEF Whole, WholeOf
<1>3. Apart => Whole' = Whole
  BY <1>1, <1>2 DEF Apart
<1>4. CASE Quiet
  <2>1. Whole <= Whole' /\ Whole' \in Nat
    <3>1. written \in Nat /\ written' \in Nat /\ written <= written' /\ file' = file
      BY <1>1, <1>4 DEF Quiet
    <3>2. WholeOf(file, written) <= WholeOf(file, written')
      BY <1>1, <3>1, WholeIs
    <3>3. WholeOf(file, written') \in 0..Len(file.ends) /\ Len(file.ends) \in Nat
      <4>1. file \in Files /\ written' \in Nat /\ written' <= written'
        BY <1>1, <3>1
      <4> QED BY <4>1, WholeIs, FileTypes
    <3> QED BY <1>1, <1>2, <3>1, <3>2, <3>3
  <2>2. UNCHANGED <<file, scan, plan, opened>> /\ written' \in 0..Len(file.blocks) /\ trailer' \in BOOLEAN
    BY <1>1, <1>4 DEF Quiet
  <2>3. scan'.size <= Whole' /\ plan'.cursor <= Whole'
    BY <1>1, <2>1, <2>2
  <2>4. Walking' = Walking /\ Cluster' = Cluster
    BY <2>2 DEF Walking, Cluster
  <2> QED BY <2>2, <2>3, <2>4 DEF WalkInv
<1>5. CASE BeginMoved
  BY <1>1, <1>3, <1>5 DEF WalkInv, BeginMoved, Fresh, Apart
<1>6. ASSUME NEW b, BlockMoved(b) PROVE WalkInv'
  <2>1. /\ Walking /\ scan.at + 1 <= Len(Cluster) /\ b \in Blocks
        /\ scan' \in Scans /\ scan'.pc = "scan" /\ scan'.size = scan.size /\ scan'.at = scan.at + 1
        /\ scan'.locked = (IF scan.at = 0 THEN HeadOpen ELSE scan.locked)
        /\ scan'.locked => plan' = foldBlock(plan, b, plan.cursor + 1) /\ scan'.keys = scan.keys
        /\ ~scan'.locked => plan' = plan
        /\ Apart /\ opened' = opened
    BY <1>6 DEF BlockMoved
  <2>2. b.t \in file.tracks
    <3>1. Base + scan.at + 1 \in 1..Len(file.blocks) /\ b = file.blocks[Base + scan.at + 1]
      BY <1>6 DEF BlockMoved
    <3> QED BY <1>1, <3>1, FileTypes
  <2>3. plan' \in Plans /\ plan'.cursor = plan.cursor /\ plan'.met \subseteq file.tracks /\ plan'.gridWin <= Len(plan'.cuts)
    <3>1. CASE ~scan'.locked
      BY <1>1, <2>1, <3>1
    <3>2. CASE scan'.locked
      <4>1. plan.cursor + 1 \in Nat
        BY <1>1
      <4>2. /\ plan' \in Plans /\ plan'.met = plan.met \union {b.t} /\ plan'.cursor = plan.cursor
            /\ plan'.gridWin = plan.gridWin
            /\ plan'.cuts = IF IsKey(b) THEN recordKeyframe(plan.cuts, b.ms, plan.cursor + 1) ELSE plan.cuts
        <5>1. BlockFolded(plan, b, plan.cursor + 1, foldBlock(plan, b, plan.cursor + 1))
          BY <1>1, <2>1, <4>1, FoldBlock
        <5>2. BlockFolded(plan, b, plan.cursor + 1, plan')
          BY <2>1, <3>2, <5>1
        <5> QED BY <5>2 DEF BlockFolded
      <4>3. Recorded(plan.cuts, b.ms, recordKeyframe(plan.cuts, b.ms, plan.cursor + 1))
        <5>1. plan.cuts \in Seq(Cut) /\ b.ms \in Nat
          BY <1>1, <2>1 DEF Plans, Blocks
        <5> QED BY <4>1, <5>1, RecordKeyframe
      <4>4. Len(plan.cuts) <= Len(plan'.cuts) /\ Len(plan'.cuts) \in Nat
        BY <1>1, <4>2, <4>3 DEF Recorded, IsPrefix, Plans
      <4> QED BY <1>1, <2>2, <4>2, <4>4
    <3> QED BY <3>1, <3>2
  <2>4. Walking' /\ Cluster' = Cluster /\ Whole' = Whole
    BY <1>3, <2>1, <2>3 DEF Walking, Cluster, Apart
  <2>5. scan.at # 0 => scan.keys = <<>> \/ ~scan.locked
    BY DEF WalkInv
  <2>6. scan'.locked => scan'.keys = <<>>
    BY <2>1 DEF WalkInv
  <2>7. scan'.size <= Whole' /\ plan'.cursor <= Whole'
    BY <1>1, <2>1, <2>3, <2>4
  <2>8. scan'.at # 0 /\ scan'.at <= Len(Cluster')
    BY <1>1, <2>1, <2>4
  <2> QED BY <1>1, <2>1, <2>3, <2>4, <2>6, <2>7, <2>8 DEF WalkInv, Apart
<1>7. ASSUME NEW p, NEW q, ClusterMoved(p, q) PROVE WalkInv'
  <2>1. /\ Walking /\ Fresh(scan') /\ scan'.size = scan.size /\ Apart /\ opened' = opened
        /\ p \in Plans /\ p.met = plan.met /\ p.gridWin <= Len(p.cuts) /\ q = updateSegCount(p)
        /\ plan' \in Plans /\ plan'.cursor = plan.cursor + 1 /\ plan'.cuts = q.cuts /\ plan'.gridWin = q.gridWin
        /\ plan'.met = q.met
    BY <1>7 DEF ClusterMoved
  <2>2. q \in Plans /\ SameWalk(p, q) /\ q.gridWin \in p.gridWin..Len(p.cuts)
    BY <2>1, UpdateSegCount
  <2>3. plan'.met \subseteq file.tracks /\ plan'.gridWin <= Len(plan'.cuts)
    BY <1>1, <2>1, <2>2 DEF SameWalk, Plans
  <2>4. plan'.cursor <= Whole'
    BY <1>1, <1>3, <2>1 DEF Walking
  <2> QED BY <1>1, <1>3, <2>1, <2>3, <2>4 DEF WalkInv, Fresh, Apart
<1>8. CASE FailMoved
  <2>1. /\ Fresh(scan') /\ scan'.size \in {0, scan.size} /\ Apart /\ opened' = opened
        /\ plan' = plan \/ plan' = NewPlan
    BY <1>1, <1>8 DEF FailMoved
  <2>2. plan' \in Plans /\ plan'.met \subseteq file.tracks /\ plan'.gridWin <= Len(plan'.cuts) /\ plan'.cursor <= Whole
    <3>1. NewPlan.met = {} /\ Len(<<>>) = 0
      BY DEF NewPlan
    <3> QED BY <1>1, <2>1, <3>1, NewPlanType
  <2>3. scan'.size <= Whole'
    BY <1>1, <1>3, <2>1
  <2> QED BY <1>1, <1>3, <2>1, <2>2, <2>3 DEF WalkInv, Fresh, Apart
<1>9. CASE FinalMoved
  <2>1. /\ scan' = Idle /\ opened' = TRUE /\ plan' \in Plans /\ SameWalk(plan, plan') /\ Apart
        /\ plan'.gridWin \in plan.gridWin..Len(plan.cuts)
    BY <1>9 DEF FinalMoved
  <2>2. Fresh(scan') /\ scan'.size = 0
    BY <1>1, <2>1, Fresher
  <2>3. plan'.met = plan.met /\ plan'.gridWin <= Len(plan'.cuts) /\ plan'.cursor = plan.cursor
    BY <1>1, <2>1 DEF SameWalk
  <2> QED BY <1>1, <1>3, <2>1, <2>2, <2>3 DEF WalkInv, Fresh, Apart
<1>10. CASE RestMoved
  <2>1. /\ Fresh(scan') /\ scan'.size \in {0, scan.size} /\ opened' = TRUE /\ plan' \in Plans /\ SameWalk(plan, plan')
        /\ Apart /\ plan'.gridWin = plan.gridWin
    BY <1>10 DEF RestMoved
  <2>2. scan'.size <= Whole'
    BY <1>1, <1>3, <2>1
  <2>3. plan'.met = plan.met /\ plan'.gridWin <= Len(plan'.cuts) /\ plan'.cursor = plan.cursor
    BY <1>1, <2>1 DEF SameWalk
  <2> QED BY <1>1, <1>3, <2>1, <2>2, <2>3 DEF WalkInv, Fresh, Apart
<1> QED BY <1>4, <1>5, <1>6, <1>7, <1>8, <1>9, <1>10, Steps

LEMMA CutsInit == Init => CutsInv
<1> SUFFICES ASSUME Init PROVE CutsInv
  OBVIOUS
<1>1. WalkInv /\ file \in Files /\ plan = NewPlan /\ scan = Idle
  BY WalkInit DEF Init
<1>2. plan.cuts = <<>> /\ plan.cursor = 0 /\ Base = 0
  BY <1>1, NewPlanType DEF Base
<1>3. scan.at = 0 /\ scan.keys = <<>> /\ scan.locked = FALSE
  BY <1>1 DEF Idle
<1>4. Covers(file, <<>>, 0)
  <2>1. FoundAt(file, 0) = <<>> /\ Len(file.blocks) \in Nat
    BY <1>1, FoundStep, FileTypes
  <2>2. 0 \in 0..Len(file.blocks)
    BY <2>1
  <2> QED BY <2>1, <2>2 DEF Covers
<1>5. recordKeyframes(<<>>, <<>>, 0 + 1) = <<>>
  <2>1. <<>> \in Seq(Cut) /\ <<>> \in Seq(Nat) /\ 0 + 1 \in Nat /\ 0 \in Nat
    OBVIOUS
  <2> QED BY <2>1, RecordKeyframesSteps
<1> QED BY <1>2, <1>3, <1>4, <1>5 DEF CutsInv

\* Between two clusters nothing is kept aside.
Between ==
  /\ plan \in Plans /\ scan.at = 0 /\ scan.locked = FALSE /\ scan.keys = <<>>
  /\ Base \in Nat /\ Covers(file, plan.cuts, Base)

LEMMA CutsBetween == Between => CutsInv
<1> SUFFICES ASSUME Between PROVE CutsInv
  OBVIOUS
<1> USE DEF Between
<1>1. recordKeyframes(plan.cuts, <<>>, plan.cursor + 1) = plan.cuts
  <2>1. plan.cuts \in Seq(Cut) /\ <<>> \in Seq(Nat) /\ plan.cursor + 1 \in Nat /\ 0 \in Nat
    BY DEF Plans
  <2> QED BY <2>1, RecordKeyframesSteps
<1>2. Base + scan.at = Base
  OBVIOUS
<1> QED BY <1>1, <1>2 DEF CutsInv

LEMMA CutsStep == WalkInv /\ CutsInv /\ [Next]_vars => CutsInv'
<1> SUFFICES ASSUME WalkInv, CutsInv, [Next]_vars PROVE CutsInv'
  OBVIOUS
<1>1. /\ file \in Files /\ plan \in Plans /\ scan \in Scans /\ plan.cuts \in Seq(Cut) /\ scan.keys \in Seq(Nat)
      /\ plan.cursor + 1 \in Nat /\ Base \in Nat /\ Base \in 0..Len(file.blocks) /\ Len(file.blocks) \in Nat
      /\ scan.at \in Nat /\ scan.locked \in BOOLEAN
  <2>1. file \in Files /\ plan \in Plans /\ scan \in Scans
    BY DEF WalkInv
  <2>2. Base \in 0..Len(file.blocks) /\ Len(file.blocks) \in Nat
    BY WalkFacts
  <2>3. /\ plan.cuts \in Seq(Cut) /\ scan.keys \in Seq(Nat) /\ plan.cursor + 1 \in Nat
        /\ scan.at \in Nat /\ scan.locked \in BOOLEAN
    BY <2>1 DEF Plans, Scans
  <2> QED BY <2>1, <2>2, <2>3
<1>2. WalkInv'
  BY WalkStep
<1>3. (plan \in Plans)' /\ (Base \in Nat)'
  <2>1. (Base \in 0..Len(file.blocks))' /\ (Len(file.blocks) \in Nat)'
    BY <1>2, WalkFacts, PTL
  <2> QED BY <1>2, <2>1 DEF WalkInv
\* A step that leaves the cuts, and no cluster half walked.
<1>4. ASSUME Fresh(scan'), plan'.cuts = plan.cuts, plan'.cursor = plan.cursor, file' = file PROVE CutsInv'
  <2>1. Base' = Base /\ Covers(file, plan.cuts, Base)
    BY <1>4 DEF Base, CutsInv
  <2>2. Covers(file', plan'.cuts, Base')
    BY <1>4, <2>1
  <2>3. scan'.at = 0 /\ scan'.locked = FALSE /\ scan'.keys = <<>>
    BY <1>4 DEF Fresh
  <2>4. Between'
    BY <1>3, <2>2, <2>3 DEF Between
  <2> QED BY <2>4, CutsBetween, PTL
<1>5. CASE Quiet
  <2>1. UNCHANGED <<file, scan, plan>> /\ Base' = Base
    BY <1>5 DEF Quiet, Base
  <2> QED BY <2>1 DEF CutsInv
<1>6. CASE BeginMoved
  BY <1>4, <1>6 DEF BeginMoved, Fresh, Apart
<1>7. ASSUME NEW b, BlockMoved(b) PROVE CutsInv'
  <2> DEFINE i == Base + scan.at + 1
             at == plan.cursor + 1
             kept == recordKeyframes(plan.cuts, scan.keys, at)
  <2>1. /\ b \in Blocks /\ i \in 1..Len(file.blocks) /\ b = file.blocks[i] /\ ClusterOf(file, i) = at
        /\ scan'.at = scan.at + 1 /\ scan'.locked = (IF scan.at = 0 THEN HeadOpen ELSE scan.locked)
        /\ scan'.locked => plan' = foldBlock(plan, b, at) /\ scan'.keys = scan.keys
        /\ ~scan'.locked => plan' = plan /\ scan'.keys = IF IsKey(b) THEN Append(scan.keys, b.ms) ELSE scan.keys
        /\ file' = file
    BY <1>7 DEF BlockMoved, Apart
  <2>2. i - 1 = Base + scan.at /\ Base + (scan.at + 1) = i /\ i \in 0..Len(file.blocks) /\ Base \in 0..i /\ b.ms \in Nat
    BY <1>1, <2>1 DEF Blocks
  <2>3. Base' = Base
    <3>1. plan'.cursor = plan.cursor
      <4>1. CASE scan'.locked
        <5>1. BlockFolded(plan, b, at, plan')
          BY <1>1, <2>1, <4>1, FoldBlock
        <5> QED BY <5>1 DEF BlockFolded
      <4>2. CASE ~scan'.locked
        BY <2>1, <4>2
      <4> QED BY <4>1, <4>2
    <3> QED BY <2>1, <3>1 DEF Base
  \* What the blocks walked make of the cuts.
  <2>4. scan.at = 0 => kept = plan.cuts /\ Base + scan.at = Base
    <3>1. scan.at = 0 => scan.keys = <<>>
      BY DEF WalkInv
    <3>2. recordKeyframes(plan.cuts, <<>>, at) = plan.cuts
      <4>1. <<>> \in Seq(Nat) /\ 0 \in Nat
        OBVIOUS
      <4> QED BY <1>1, <4>1, RecordKeyframesSteps
    <3> QED BY <1>1, <3>1, <3>2
  <2> HIDE DEF i, at, kept
  <2>5. CASE scan'.locked
    <3>1. Covers(file, plan.cuts, i - 1)
      <4>1. scan.at = 0 => Covers(file, plan.cuts, Base + scan.at)
        BY <2>4 DEF CutsInv
      <4>2. scan.at # 0 => scan.locked
        BY <2>1, <2>5
      <4> QED BY <2>2, <4>1, <4>2 DEF CutsInv
    <3>2. BlockFolded(plan, b, at, plan')
      <4>1. at \in Nat
        BY <1>1 DEF at
      <4> QED BY <1>1, <2>1, <2>5, <4>1, FoldBlock
    <3>3. plan'.cuts = IF IsKey(b) THEN recordKeyframe(plan.cuts, b.ms, at) ELSE plan.cuts
      BY <3>2 DEF BlockFolded
    <3>4. Covers(file, plan'.cuts, i)
      <4>1. /\ IsKey(b) => Covers(file, recordKeyframe(plan.cuts, b.ms, at), i)
            /\ ~IsKey(b) => Covers(file, plan.cuts, i)
        BY <1>1, <2>1, <3>1, CoverStep
      <4> QED BY <3>3, <4>1
    <3>5. Covers(file, plan'.cuts, Base)
      BY <1>1, <2>2, <3>4, CoversPlanned
    <3> QED BY <2>1, <2>2, <2>3, <2>5, <3>4, <3>5 DEF CutsInv
  <2>6. CASE ~scan'.locked
    <3>1. Covers(file, kept, i - 1)
      <4>1. scan.at = 0 => Covers(file, kept, Base + scan.at)
        BY <2>4 DEF CutsInv
      <4>2. scan.at # 0 => ~scan.locked
        BY <2>1, <2>6
      <4> QED BY <2>2, <4>1, <4>2 DEF CutsInv, kept, at
    <3>2. recordKeyframes(plan.cuts, scan'.keys, at) = IF IsKey(b) THEN recordKeyframe(kept, b.ms, at) ELSE kept
      <4>1. at \in Nat
        BY <1>1 DEF at
      <4>2. recordKeyframes(plan.cuts, Append(scan.keys, b.ms), at) = recordKeyframe(kept, b.ms, at)
        BY <1>1, <2>2, <4>1, RecordKeyframesSteps DEF kept
      <4> QED BY <2>1, <2>6, <4>2 DEF kept
    <3>3. Covers(file, recordKeyframes(plan.cuts, scan'.keys, at), i)
      <4>1. /\ IsKey(b) => Covers(file, recordKeyframe(kept, b.ms, at), i)
            /\ ~IsKey(b) => Covers(file, kept, i)
        BY <1>1, <2>1, <3>1, CoverStep
      <4> QED BY <3>2, <4>1
    <3>4. plan' = plan /\ Covers(file, plan.cuts, Base) /\ plan'.cursor + 1 = at
      BY <2>1, <2>6 DEF CutsInv, at
    <3> QED BY <2>1, <2>2, <2>3, <2>6, <3>3, <3>4 DEF CutsInv
  <2> QED BY <2>5, <2>6
<1>8. ASSUME NEW p, NEW q, ClusterMoved(p, q) PROVE CutsInv'
  <2>1. /\ Walking /\ scan.at = Len(Cluster) /\ Fresh(scan') /\ file' = file
        /\ p \in Plans /\ p.gridWin <= Len(p.cuts) /\ q = updateSegCount(p)
        /\ p.cuts = IF scan.locked THEN plan.cuts ELSE recordKeyframes(plan.cuts, scan.keys, plan.cursor + 1)
        /\ plan'.cursor = plan.cursor + 1 /\ plan'.cuts = q.cuts
    BY <1>8 DEF ClusterMoved, Apart
  <2>2. q.cuts = p.cuts
    BY <2>1, UpdateSegCount DEF SameWalk
  <2>3. Covers(file, p.cuts, Base + scan.at)
    BY <2>1 DEF CutsInv
  <2>4. Base' = Base + scan.at
    <3>1. Len(Cluster) = file.ends[plan.cursor + 1] - Base /\ file.ends[plan.cursor + 1] \in Base..Len(file.blocks)
      BY <2>1, ClusterFacts
    <3>2. plan'.cursor # 0 /\ Base' = file.ends[plan.cursor + 1]
      BY <1>1, <2>1 DEF Base, Plans
    <3> QED BY <1>1, <2>1, <3>1, <3>2
  <2>5. Covers(file', plan'.cuts, Base')
    BY <2>1, <2>2, <2>3, <2>4
  <2>6. scan'.at = 0 /\ scan'.locked = FALSE /\ scan'.keys = <<>>
    BY <2>1 DEF Fresh
  <2>7. Between'
    BY <1>3, <2>5, <2>6 DEF Between
  <2> QED BY <2>7, CutsBetween, PTL
<1>9. CASE FailMoved
  <2>1. Fresh(scan') /\ file' = file /\ (plan' = plan \/ plan' = NewPlan)
    BY <1>9 DEF FailMoved, Apart
  <2>2. CASE plan' = plan
    BY <1>4, <2>1, <2>2
  <2>3. CASE plan' = NewPlan
    <3>1. plan'.cuts = <<>> /\ Base' = 0
      BY <2>3, NewPlanType DEF Base
    <3>2. Covers(file, <<>>, 0)
      <4>1. FoundAt(file, 0) = <<>> /\ 0 \in 0..Len(file.blocks)
        BY <1>1, FoundStep
      <4> QED BY <4>1 DEF Covers
    <3>3. Covers(file', plan'.cuts, Base')
      BY <2>1, <3>1, <3>2
    <3>4. scan'.at = 0 /\ scan'.locked = FALSE /\ scan'.keys = <<>>
      BY <2>1 DEF Fresh
    <3>5. Between'
      BY <1>3, <3>3, <3>4 DEF Between
    <3> QED BY <3>5, CutsBetween, PTL
  <2> QED BY <2>1, <2>2, <2>3
<1>10. CASE FinalMoved
  <2>1. Fresh(Idle)
    BY <1>1, Fresher
  <2> QED BY <1>4, <1>10, <2>1 DEF FinalMoved, SameWalk, Apart
<1>11. CASE RestMoved
  BY <1>4, <1>11 DEF RestMoved, SameWalk, Apart
<1> QED BY <1>5, <1>6, <1>7, <1>8, <1>9, <1>10, <1>11, Steps

-----------------------------------------------------------------------------
(* The playlist.                                                            *)

\* What is listed is published, what is published is settled until the plan closes, and nothing moves after.
ListInv ==
  /\ plan.published <= Len(plan.cuts)
  /\ ~plan.headDone => plan.published = 0
  /\ ~plan.done => plan.published <= plan.gridWin
  /\ plan.done => scan.pc = "idle"
  /\ plan.list.ended => plan.done
  /\ plan.list.n <= plan.published
  /\ plan.list.served => opened /\ plan.leadDone

Grows ==
  /\ plan.list.served => plan'.list.n >= plan.list.n /\ plan'.list.served
  /\ plan.list.ended => plan' = plan
  /\ plan'.list.n <= plan'.published
  /\ opened => plan'.published >= plan.published

LEMMA ListInit == Init => ListInv
<1> SUFFICES ASSUME Init PROVE ListInv
  OBVIOUS
<1>1. plan = NewPlan
  BY DEF Init
<1>2. Len(<<>>) = 0
  OBVIOUS
<1>3. /\ plan.published = 0 /\ plan.cuts = <<>> /\ plan.gridWin = 0 /\ plan.done = FALSE
      /\ plan.list.ended = FALSE /\ plan.list.n = 0 /\ plan.list.served = FALSE
  BY <1>1 DEF NewPlan, NoList
<1> QED BY <1>2, <1>3 DEF ListInv

LEMMA ListStep == WalkInv /\ ListInv /\ [Next]_vars => ListInv' /\ Grows
<1> SUFFICES ASSUME WalkInv, ListInv, [Next]_vars PROVE ListInv' /\ Grows
  OBVIOUS
<1>1. /\ plan \in Plans /\ plan.gridWin <= Len(plan.cuts) /\ plan.gridWin \in Nat /\ Len(plan.cuts) \in Nat
      /\ plan.published \in Nat /\ plan.list.n \in Nat /\ opened \in BOOLEAN
      /\ plan.done \in BOOLEAN /\ plan.headDone \in BOOLEAN /\ plan.leadDone \in BOOLEAN
      /\ plan.list.served \in BOOLEAN /\ plan.list.ended \in BOOLEAN
  BY DEF WalkInv, Plans, Lists
<1>2. /\ plan.published <= Len(plan.cuts)
      /\ ~plan.headDone => plan.published = 0
      /\ ~plan.done => plan.published <= plan.gridWin
      /\ plan.done => scan.pc = "idle"
      /\ plan.list.ended => plan.done
      /\ plan.list.n <= plan.published
      /\ plan.list.served => opened /\ plan.leadDone
  BY DEF ListInv
<1>3. scan.pc \in {"scan", "close"} => ~plan.done /\ ~plan.list.ended
  BY <1>2
<1>4. CASE Quiet
  BY <1>1, <1>2, <1>4 DEF Quiet, ListInv, Grows
<1>5. CASE BeginMoved
  BY <1>1, <1>2, <1>5 DEF BeginMoved, ListInv, Grows
<1>6. ASSUME NEW b, BlockMoved(b) PROVE ListInv' /\ Grows
  <2>1. /\ b \in Blocks /\ scan.pc = "scan" /\ scan'.pc = "scan" /\ opened' = opened
        /\ scan'.locked => plan' = foldBlock(plan, b, plan.cursor + 1)
        /\ ~scan'.locked => plan' = plan
    BY <1>6 DEF BlockMoved, Walking
  <2>2. CASE ~scan'.locked
    BY <1>1, <1>2, <1>3, <2>1, <2>2 DEF ListInv, Grows
  <2>3. CASE scan'.locked
    <3>1. plan.cursor + 1 \in Nat /\ plan.cuts \in Seq(Cut) /\ b.ms \in Nat
      BY <1>1, <2>1 DEF Plans, Blocks
    <3>2. BlockFolded(plan, b, plan.cursor + 1, plan')
      BY <1>1, <2>1, <2>3, <3>1, FoldBlock
    <3>3. /\ plan' \in Plans /\ plan'.published = plan.published /\ plan'.done = plan.done /\ plan'.list = plan.list
          /\ plan'.gridWin = plan.gridWin /\ plan'.headDone = plan.headDone
          /\ plan'.cuts = IF IsKey(b) THEN recordKeyframe(plan.cuts, b.ms, plan.cursor + 1) ELSE plan.cuts
      BY <3>2 DEF BlockFolded
    <3>4. Len(plan.cuts) <= Len(plan'.cuts) /\ Len(plan'.cuts) \in Nat
      <4>1. Recorded(plan.cuts, b.ms, recordKeyframe(plan.cuts, b.ms, plan.cursor + 1))
        BY <3>1, RecordKeyframe
      <4> QED BY <1>1, <3>3, <4>1 DEF Recorded, IsPrefix, Plans
    <3>5. plan.leadDone => plan'.leadDone
      <4>1. extendLead(plan, b).leadDone = plan.leadDone \/ ~plan.leadDone
        BY DEF extendLead
      <4> QED BY <3>2, <4>1 DEF BlockFolded
    <3>6. plan'.published <= Len(plan'.cuts)
      BY <1>1, <1>2, <3>3, <3>4
    <3> QED BY <1>1, <1>2, <1>3, <2>1, <3>3, <3>5, <3>6 DEF ListInv, Grows
  <2> QED BY <2>2, <2>3
<1>7. ASSUME NEW p, NEW q, ClusterMoved(p, q) PROVE ListInv' /\ Grows
  <2>1. /\ scan.pc = "scan" /\ opened' = opened /\ IsPrefix(plan.cuts, p.cuts)
        /\ p \in Plans /\ p.gridWin = plan.gridWin /\ p.published = plan.published /\ p.gridWin <= Len(p.cuts)
        /\ p.leadDone = plan.leadDone /\ p.done = plan.done /\ p.list = plan.list
        /\ (plan.headDone => p.headDone) /\ q = updateSegCount(p)
        /\ plan' \in Plans /\ plan'.cuts = q.cuts /\ plan'.gridWin = q.gridWin /\ plan'.published = q.published
        /\ plan'.leadDone = q.leadDone /\ plan'.headDone = q.headDone
        /\ plan'.done = q.done /\ plan'.list = q.list
    BY <1>7 DEF ClusterMoved, Walking
  <2>2. ~p.done /\ Len(p.cuts) \in Nat /\ p.headDone \in BOOLEAN
    BY <1>3, <2>1 DEF Plans
  <2>3. /\ SameWalk(p, q) /\ q.leadDone = p.leadDone /\ q.done = p.done /\ q.list = p.list
        /\ q.gridWin \in p.gridWin..Len(p.cuts)
        /\ (~p.headDone => q.published = 0) /\ (p.headDone /\ ~p.done => q.published = q.gridWin)
    BY <2>1, UpdateSegCount
  <2>4. q.cuts = p.cuts /\ q.headDone = p.headDone
    BY <2>3 DEF SameWalk
  <2>5. /\ q.published <= Len(p.cuts) /\ q.published <= q.gridWin /\ plan.published <= q.published
        /\ plan.list.n <= q.published
    <3>1. CASE p.headDone
      <4>1. q.published = q.gridWin
        BY <2>2, <2>3, <3>1
      <4>2. plan.published <= plan.gridWin
        BY <1>2, <1>3, <2>1
      <4> QED BY <1>1, <1>2, <2>1, <2>2, <2>3, <4>1, <4>2
    <3>2. CASE ~p.headDone
      <4>1. q.published = 0 /\ plan.published = 0
        BY <1>2, <2>1, <2>3, <3>2
      <4> QED BY <1>1, <1>2, <2>1, <2>2, <2>3, <4>1
    <3> QED BY <3>1, <3>2
  <2>6. plan'.list = plan.list /\ ~plan'.done /\ ~plan.list.ended /\ (plan.leadDone => plan'.leadDone)
    BY <1>3, <2>1, <2>2, <2>3
  <2>7. plan'.published <= Len(plan'.cuts) /\ plan'.published <= plan'.gridWin /\ plan'.list.n <= plan'.published
        /\ plan.published <= plan'.published /\ (~plan'.headDone => plan'.published = 0)
    BY <2>1, <2>3, <2>4, <2>5, <2>6
  <2>8. ListInv'
    BY <1>2, <2>1, <2>6, <2>7 DEF ListInv
  <2>9. Grows
    BY <1>1, <1>2, <2>1, <2>6, <2>7 DEF Grows, Plans
  <2> QED BY <2>8, <2>9
<1>8. CASE FailMoved
  <2>1. /\ scan.pc \in {"scan", "close"} /\ opened' = opened /\ (opened => plan' = plan) /\ (~opened => plan' = NewPlan)
    BY <1>8 DEF FailMoved
  <2>2. CASE opened
    BY <1>1, <1>2, <1>3, <2>1, <2>2 DEF ListInv, Grows
  <2>3. CASE ~opened
    <3>1. /\ plan'.published = 0 /\ plan'.cuts = <<>> /\ plan'.gridWin = 0 /\ plan'.done = FALSE
          /\ plan'.list.ended = FALSE /\ plan'.list.n = 0 /\ plan'.list.served = FALSE /\ Len(<<>>) = 0
      BY <2>1, <2>3 DEF NewPlan, NoList
    <3> QED BY <1>2, <1>3, <2>1, <2>3, <3>1 DEF ListInv, Grows
  <2> QED BY <1>1, <2>2, <2>3
<1>9. CASE FinalMoved
  <2>1. /\ scan.pc \in {"scan", "close"} /\ scan'.pc = "idle" /\ opened' = TRUE
        /\ plan'.cuts = plan.cuts /\ plan'.headDone = plan.headDone /\ plan'.leadDone /\ plan'.done
        /\ plan'.published = IF plan.headDone THEN Len(plan.cuts) ELSE 0
        /\ plan'.list = IF plan.headDone THEN [n |-> Len(plan.cuts), ended |-> TRUE, served |-> TRUE] ELSE plan.list
    BY <1>9 DEF FinalMoved, SameWalk, Idle
  <2>2. CASE plan.headDone
    <3>1. plan'.published = Len(plan.cuts) /\ plan'.list.n = Len(plan.cuts) /\ plan'.list.served
      BY <2>1, <2>2
    <3> QED BY <1>1, <1>2, <1>3, <2>1, <2>2, <3>1 DEF ListInv, Grows
  <2>3. CASE ~plan.headDone
    <3>1. plan'.published = 0 /\ plan'.list = plan.list /\ plan.published = 0 /\ plan.list.n = 0
      BY <1>1, <1>2, <2>1, <2>3
    <3> QED BY <1>1, <1>2, <1>3, <2>1, <2>3, <3>1 DEF ListInv, Grows
  <2> QED BY <2>2, <2>3
<1>10. CASE RestMoved
  <2>1. /\ scan.pc = "scan" /\ opened' = TRUE
        /\ plan'.cuts = plan.cuts /\ plan'.headDone = plan.headDone /\ plan'.leadDone = plan.leadDone
        /\ plan'.done = plan.done /\ plan'.published = plan.published /\ plan'.gridWin = plan.gridWin
        /\ plan'.list = IF plan.headDone /\ plan.leadDone
                        THEN [n |-> plan.published, ended |-> plan.done, served |-> TRUE] ELSE plan.list
    BY <1>10 DEF RestMoved, SameWalk
  <2>2. CASE plan.headDone /\ plan.leadDone
    <3>1. plan'.list.n = plan.published /\ plan'.list.served /\ plan'.list.ended = plan.done
      BY <2>1, <2>2
    <3> QED BY <1>1, <1>2, <1>3, <2>1, <2>2, <3>1 DEF ListInv, Grows
  <2>3. CASE ~(plan.headDone /\ plan.leadDone)
    <3>1. plan'.list = plan.list
      BY <2>1, <2>3
    <3> QED BY <1>1, <1>2, <1>3, <2>1, <3>1 DEF ListInv, Grows
  <2> QED BY <2>2, <2>3
<1> QED BY <1>4, <1>5, <1>6, <1>7, <1>8, <1>9, <1>10, Steps

\* The playlist only grows, and stays as it is once it ends: GrowingHLSPlan's outputs over its scans.
THEOREM PlaylistOnlyGrows == Spec => ListOnlyGrows
<1>1. Init => WalkInv /\ ListInv
  BY WalkInit, ListInit
<1>2. WalkInv /\ ListInv /\ [Next]_vars => WalkInv' /\ ListInv'
  BY WalkStep, ListStep
<1>3. WalkInv /\ ListInv /\ [Next]_vars => Grows
  BY ListStep
<1>4. Grows =>
        /\ plan.list.served => plan'.list.n >= plan.list.n /\ plan'.list.served
        /\ plan.list.ended => plan' = plan
        /\ plan'.list.n <= plan'.published
        /\ opened => plan'.published >= plan.published
  BY DEF Grows
<1> QED BY <1>1, <1>2, <1>3, <1>4, PTL DEF Spec, ListOnlyGrows

-----------------------------------------------------------------------------
(* The opening frames.                                                      *)

\* The blocks of a track among the first i.
OfTo(t, f, i) == Of(t, SubSeq(f.blocks, 1, i))

LEMMA OfSteps ==
    ASSUME NEW f \in Files, NEW t
    PROVE  /\ OfTo(t, f, 0) = <<>> /\ OfTo(t, f, Len(f.blocks)) = Of(t, f.blocks)
           /\ \A i \in 0..Len(f.blocks) : OfTo(t, f, i) \in Seq(Blocks)
           /\ \A i \in 1..Len(f.blocks) :
                OfTo(t, f, i) = IF f.blocks[i].t = t THEN Append(OfTo(t, f, i - 1), f.blocks[i]) ELSE OfTo(t, f, i - 1)
<1> DEFINE s == f.blocks
           I == {i \in DOMAIN s : s[i].t = t}
<1>1. s \in Seq(Blocks) /\ Len(s) \in Nat /\ DOMAIN s = 1..Len(s)
  BY FileTypes
<1> HIDE DEF s
<1>2. ASSUME NEW i \in 0..Len(s) PROVE OfTo(t, f, i) = Picked(SubSeq(s, 1, i), I) /\ OfTo(t, f, i) \in Seq(Blocks)
  <2> DEFINE u == SubSeq(s, 1, i)
             J == {k \in DOMAIN u : u[k].t = t}
  <2>1. u \in Seq(Blocks) /\ DOMAIN u = 1..i /\ Len(u) = i /\ \A k \in 1..i : u[k] = s[k] /\ k \in DOMAIN s
    BY <1>1
  <2>2. OfTo(t, f, i) = Picked(u, J)
    BY DEF OfTo, Of, s
  <2>3. \A k \in 1..Len(u) : k \in J <=> k \in I
    BY <2>1
  <2> HIDE DEF u, J, I
  <2>4. Picked(u, J) = Picked(u, I)
    BY <2>1, <2>3, PickedSame
  <2>5. Picked(u, J) \in Seq(Blocks)
    BY <2>1, PickedType
  <2> QED BY <2>2, <2>4, <2>5 DEF u
<1>3. PickedSteps(s, I)
  BY <1>1, PickedStep, Zenon
<1>4. OfTo(t, f, Len(s)) = Of(t, s)
  <2>1. SubSeq(s, 1, Len(s)) = s
    BY <1>1
  <2> QED BY <2>1 DEF OfTo, s
<1>5. \A i \in 1..Len(s) : i \in I <=> s[i].t = t
  BY <1>1
<1> HIDE DEF I
<1>6. OfTo(t, f, 0) = <<>>
  <2>1. 0 \in 0..Len(s)
    BY <1>1
  <2> QED BY <1>2, <1>3, <2>1 DEF PickedSteps
<1>7. ASSUME NEW i \in 1..Len(s)
      PROVE  OfTo(t, f, i) = IF s[i].t = t THEN Append(OfTo(t, f, i - 1), s[i]) ELSE OfTo(t, f, i - 1)
  <2>1. i \in 0..Len(s) /\ i - 1 \in 0..Len(s)
    BY <1>1
  <2>2. OfTo(t, f, i) = Picked(SubSeq(s, 1, i), I) /\ OfTo(t, f, i - 1) = Picked(SubSeq(s, 1, i - 1), I)
    BY <1>2, <2>1
  <2> QED BY <1>3, <1>5, <2>2 DEF PickedSteps
<1> QED BY <1>2, <1>4, <1>6, <1>7 DEF s

\* The first blocks of a track begin the others.
LEMMA OfGrows ==
    ASSUME NEW f \in Files, NEW t, NEW i \in 0..Len(f.blocks)
    PROVE  IsPrefix(OfTo(t, f, i), Of(t, f.blocks)) /\ Of(t, f.blocks) \in Seq(Blocks)
<1> DEFINE n == Len(f.blocks)
           whole == Of(t, f.blocks)
           S == {d \in 0..n : IsPrefix(OfTo(t, f, n - d), whole)}
<1>1. n \in Nat /\ (\A k \in 0..n : OfTo(t, f, k) \in Seq(Blocks)) /\ OfTo(t, f, n) = whole /\ i \in 0..n
  BY FileTypes, OfSteps
<1>2. \A k \in 1..n : /\ f.blocks[k] \in Blocks
                      /\ OfTo(t, f, k) = IF f.blocks[k].t = t THEN Append(OfTo(t, f, k - 1), f.blocks[k]) ELSE OfTo(t, f, k - 1)
  <2>1. f.blocks \in Seq(Blocks)
    BY FileTypes
  <2>2. \A k \in 1..n : f.blocks[k] \in Blocks
    BY <2>1
  <2> QED BY <2>2, OfSteps
<1> HIDE DEF n, whole
<1>3. whole \in Seq(Blocks)
  <2>1. n \in 0..n
    BY <1>1
  <2> QED BY <1>1, <2>1
<1>4. 0 \in S
  <2>1. IsPrefix(whole, whole)
    BY <1>3, PrefixIs
  <2>2. n - 0 = n /\ 0 \in 0..n
    BY <1>1
  <2> QED BY <1>1, <2>1, <2>2
<1>5. ASSUME NEW d \in 1..n, d - 1 \in S PROVE d \in S
  <2>1. n - (d - 1) \in 1..n /\ n - d \in 0..n /\ n - (d - 1) - 1 = n - d /\ d \in 0..n /\ n - (d - 1) \in 0..n
    BY <1>1
  <2> DEFINE a == OfTo(t, f, n - d)
             b == OfTo(t, f, n - (d - 1))
  <2>2. a \in Seq(Blocks) /\ b \in Seq(Blocks)
    BY <1>1, <2>1
  <2>3. b = a \/ \E x \in Blocks : b = Append(a, x)
    BY <1>2, <2>1
  <2>4. IsPrefix(b, whole)
    BY <1>5
  <2> HIDE DEF a, b
  <2>5. IsPrefix(a, b)
    <3>1. CASE b = a
      BY <2>2, <3>1, PrefixIs
    <3>2. ASSUME NEW x \in Blocks, b = Append(a, x) PROVE IsPrefix(a, b)
      <4>1. Len(a) <= Len(b) /\ \A k \in 1..Len(a) : a[k] = b[k]
        BY <2>2, <3>2
      <4> QED BY <2>2, <4>1, PrefixIs
    <3> QED BY <2>3, <3>1, <3>2
  <2>6. IsPrefix(a, whole)
    BY <1>3, <2>2, <2>4, <2>5, PrefixTrans
  <2> QED BY <2>1, <2>6 DEF a
<1>6. \A d \in 0..n : d \in S
  <2> HIDE DEF S
  <2> QED BY <1>1, <1>4, <1>5, UpTo
<1>7. n - i \in 0..n /\ n - (n - i) = i
  BY <1>1
<1>8. IsPrefix(OfTo(t, f, i), whole)
  BY <1>6, <1>7
<1> QED BY <1>3, <1>8 DEF whole

\* The prefix is still open after the first i blocks: their video, no closing frame among it.
LeadOpen(f, i, lead) ==
  /\ lead = [k \in 1..Len(OfTo("v", f, i)) |-> OfTo("v", f, i)[k].ms]
  /\ \A k \in 2..Len(OfTo("v", f, i)) : ~OfTo("v", f, i)[k].key /\ k <= LeadMax

LEMMA LeadEnds == ASSUME NEW f \in Files, NEW lead, LeadOpen(f, Len(f.blocks), lead) PROVE lead = PlannedLead(f)
<1> DEFINE video == Of("v", f.blocks)
           close == {i \in 2..Len(video) : video[i].key \/ i > LeadMax}
           n == IF close = {} THEN Len(video) ELSE (CHOOSE i \in close : \A j \in close : i <= j) - 1
<1>1. PlannedLead(f) = [i \in 1..n |-> video[i].ms]
  BY DEF PlannedLead
<1>2. /\ lead = [k \in 1..Len(video) |-> video[k].ms]
      /\ \A k \in 2..Len(video) : ~video[k].key /\ k <= LeadMax
  BY OfSteps DEF LeadOpen
<1>3. video \in Seq(Blocks) /\ Len(video) \in Nat
  <2>1. Len(f.blocks) \in 0..Len(f.blocks)
    BY FileTypes
  <2>2. video \in Seq(Blocks)
    BY <2>1, OfGrows
  <2> QED BY <2>2
<1> HIDE DEF video
<1>4. close = {}
  BY <1>2, <1>3, GrowingAssumption
<1> HIDE DEF close
<1> QED BY <1>1, <1>2, <1>4

LEMMA LeadStep ==
    ASSUME NEW f \in Files, NEW i \in 1..Len(f.blocks), NEW p \in Plans, ~p.leadDone, LeadOpen(f, i - 1, p.lead)
    PROVE  /\ f.blocks[i].t # "v" => LeadOpen(f, i, p.lead)
           /\ f.blocks[i].t = "v" =>
                LET x == extendLead(p, f.blocks[i])
                IN IF x.leadDone THEN x.lead = PlannedLead(f) ELSE LeadOpen(f, i, x.lead)
<1> DEFINE b == f.blocks[i]
           v == OfTo("v", f, i - 1)
           w == OfTo("v", f, i)
           x == extendLead(p, b)
           video == Of("v", f.blocks)
           close == {k \in 2..Len(video) : video[k].key \/ k > LeadMax}
           n == IF close = {} THEN Len(video) ELSE (CHOOSE k \in close : \A j \in close : k <= j) - 1
<1>1. /\ i - 1 \in 0..Len(f.blocks) /\ i \in 0..Len(f.blocks) /\ b \in Blocks
      /\ LeadMax \in Nat \ {0}
  BY FileTypes, GrowingAssumption
<1>2. v \in Seq(Blocks) /\ w \in Seq(Blocks) /\ w = IF b.t = "v" THEN Append(v, b) ELSE v
  BY <1>1, OfSteps
<1>3. p.lead = [k \in 1..Len(v) |-> v[k].ms] /\ \A k \in 2..Len(v) : ~v[k].key /\ k <= LeadMax
  BY DEF LeadOpen
<1>4. b.t # "v" => LeadOpen(f, i, p.lead)
  BY <1>2, <1>3 DEF LeadOpen
<1>5. ASSUME b.t = "v" PROVE IF x.leadDone THEN x.lead = PlannedLead(f) ELSE LeadOpen(f, i, x.lead)
  <2>1. IsPrefix(w, video) /\ video \in Seq(Blocks)
    BY <1>1, OfGrows
  <2>2. PlannedLead(f) = [k \in 1..n |-> video[k].ms]
    BY DEF PlannedLead
  <2>3. x = IF (p.lead # <<>> /\ b.key) \/ Len(p.lead) >= LeadMax THEN [p EXCEPT !.leadDone = TRUE]
            ELSE [p EXCEPT !.lead = Append(@, b.ms)]
    BY DEF extendLead
  <2>4. \A k \in 1..Len(w) : w[k] = video[k] /\ k <= Len(video)
    <3>1. Len(w) <= Len(video) /\ \A k \in 1..Len(w) : w[k] = video[k]
      BY <1>2, <2>1, PrefixIs
    <3>2. Len(w) \in Nat /\ Len(video) \in Nat
      BY <1>2, <2>1
    <3> QED BY <3>1, <3>2
  <2>5. w = Append(v, b)
    BY <1>2, <1>5
  <2> HIDE DEF b, v, w, video, x
  <2>6. /\ Len(w) = Len(v) + 1 /\ Len(v) \in Nat /\ w[Len(w)] = b /\ Len(video) \in Nat
        /\ \A k \in 1..Len(v) : w[k] = v[k]
    BY <1>1, <1>2, <2>1, <2>5
  <2>7. p.lead \in Seq(Nat) /\ Len(p.lead) = Len(v) /\ (p.lead = <<>> <=> Len(v) = 0)
    <3>1. p.lead \in Seq(Nat)
      BY DEF Plans
    <3>2. DOMAIN p.lead = 1..Len(v)
      BY <1>3
    <3>3. Len(p.lead) = Len(v)
      BY <2>6, <3>1, <3>2
    <3> QED BY <3>1, <3>3
  <2>8. b.ms \in Nat /\ b.key \in BOOLEAN /\ \A k \in 1..Len(v) : v[k] \in Blocks /\ v[k].ms \in Nat
    <3>1. \A k \in 1..Len(v) : v[k] \in Blocks
      BY <1>2
    <3>2. \A z \in Blocks : z.ms \in Nat /\ z.key \in BOOLEAN
      BY DEF Blocks
    <3> QED BY <1>1, <3>1, <3>2
  <2>9. CASE (p.lead # <<>> /\ b.key) \/ Len(p.lead) >= LeadMax
    <3>1. x.leadDone /\ x.lead = p.lead
      BY <2>3, <2>9 DEF Plans
    <3> DEFINE m == Len(w)
    <3>2. m \in close
      <4>1. m \in 2..Len(video) /\ video[m] = b
        BY <1>1, <2>4, <2>6, <2>7, <2>9
      <4>2. b.key \/ m > LeadMax
        BY <1>1, <2>6, <2>7, <2>9
      <4> QED BY <4>1, <4>2
    <3>3. ASSUME NEW j \in close PROVE m <= j
      <4>1. j \in 2..Len(video) /\ (video[j].key \/ j > LeadMax)
        OBVIOUS
      <4>2. ASSUME j < m PROVE FALSE
        <5>1. j \in 2..Len(v) /\ j \in 1..Len(v) /\ j \in 1..Len(w)
          BY <2>6, <4>1, <4>2
        <5>2. video[j] = v[j]
          BY <2>4, <2>6, <5>1
        <5>3. ~v[j].key /\ j <= LeadMax
          BY <1>3, <5>1
        <5> QED BY <1>1, <4>1, <5>1, <5>2, <5>3
      <4> QED BY <2>6, <4>1, <4>2
    <3>4. \A j \in close : j \in Nat
      BY <2>6
    <3>5. m \in Nat
      BY <2>6
    <3> HIDE DEF close, m
    <3>6. (CHOOSE k \in close : \A j \in close : k <= j) = m
      <4> DEFINE c == CHOOSE k \in close : \A j \in close : k <= j
      <4>1. c \in close /\ \A j \in close : c <= j
        BY <3>2, <3>3
      <4> HIDE DEF c
      <4>2. c <= m /\ m <= c /\ c \in Nat
        BY <3>2, <3>3, <3>4, <4>1
      <4>3. c = m
        BY <3>5, <4>2
      <4> QED BY <4>3 DEF c
    <3>7. n = Len(v)
      <4>1. close # {}
        BY <3>2
      <4>2. n = m - 1
        BY <3>6, <4>1
      <4> QED BY <2>6, <4>2 DEF m
    <3>8. PlannedLead(f) = [k \in 1..Len(v) |-> v[k].ms]
      <4>1. \A k \in 1..Len(v) : video[k] = v[k]
        BY <2>4, <2>6
      <4> HIDE DEF n
      <4> QED BY <2>2, <3>7, <4>1
    <3> QED BY <1>3, <3>1, <3>8
  <2>10. CASE ~((p.lead # <<>> /\ b.key) \/ Len(p.lead) >= LeadMax)
    <3>1. ~x.leadDone /\ x.lead = Append(p.lead, b.ms)
      BY <2>3, <2>10 DEF Plans
    <3>2. x.lead = [k \in 1..Len(w) |-> w[k].ms]
      <4> DEFINE l == [k \in 1..Len(w) |-> w[k].ms]
      <4>1. \A k \in 1..Len(w) : w[k].ms \in Nat
        <5>1. \A k \in 1..Len(w) : w[k] \in Blocks
          BY <1>2
        <5> QED BY <5>1 DEF Blocks
      <4>2. l \in Seq(Nat) /\ Len(l) = Len(w) /\ \A k \in 1..Len(w) : l[k] = w[k].ms
        <5>1. l \in [1..Len(w) -> Nat] /\ Len(w) \in Nat
          BY <2>6, <4>1
        <5>2. \A k \in 1..Len(w) : l[k] = w[k].ms
          OBVIOUS
        <5> HIDE DEF l
        <5> QED BY <5>1, <5>2
      <4> HIDE DEF l
      <4>3. x.lead \in Seq(Nat) /\ Len(x.lead) = Len(w)
        BY <2>6, <2>7, <2>8, <3>1
      <4>4. ASSUME NEW k \in 1..Len(x.lead) PROVE x.lead[k] = l[k]
        <5>1. k \in 1..Len(w)
          BY <4>3
        <5>2. CASE k = Len(w)
          BY <2>6, <2>7, <2>8, <3>1, <4>2, <5>1, <5>2
        <5>3. CASE k # Len(w)
          <6>1. k \in 1..Len(v) /\ w[k] = v[k]
            BY <2>6, <5>1, <5>3
          <6>2. p.lead[k] = v[k].ms
            BY <1>3, <6>1
          <6>3. x.lead[k] = p.lead[k]
            BY <2>7, <2>8, <3>1, <6>1
          <6> QED BY <4>2, <5>1, <6>1, <6>2, <6>3
        <5> QED BY <5>2, <5>3
      <4>5. x.lead = l
        BY <4>2, <4>3, <4>4, SeqEqual
      <4> QED BY <4>5 DEF l
    <3>3. ASSUME NEW k \in 2..Len(w) PROVE ~w[k].key /\ k <= LeadMax
      <4>1. CASE k = Len(w)
        BY <1>1, <2>6, <2>7, <2>10, <4>1
      <4>2. CASE k # Len(w)
        <5>1. k \in 2..Len(v) /\ k \in 1..Len(v)
          BY <2>6, <4>2
        <5> QED BY <1>3, <2>6, <5>1
      <4> QED BY <4>1, <4>2
    <3> QED BY <3>1, <3>2, <3>3 DEF LeadOpen, w
  <2> QED BY <2>9, <2>10
<1> QED BY <1>4, <1>5

\* The blocks folded into the head.
Folded == Base + (IF scan.locked THEN scan.at ELSE 0)

LeadInv ==
  /\ ~plan.leadDone /\ scan.at > 0 => scan.locked
  /\ ~refolded => IF ~plan.leadDone THEN LeadOpen(file, Folded, plan.lead)
                  ELSE (plan.done /\ plan.cursor < Len(file.ends)) \/ plan.lead = PlannedLead(file)

LEMMA LeadNone == ASSUME NEW f \in Files PROVE LeadOpen(f, 0, <<>>)
<1>1. OfTo("v", f, 0) = <<>>
  BY OfSteps
<1>2. Len(<<>>) = 0 /\ <<>> = [k \in 1..0 |-> <<>>[k].ms]
  OBVIOUS
<1> QED BY <1>1, <1>2 DEF LeadOpen

LEMMA LeadInit == Init => LeadInv
<1> SUFFICES ASSUME Init PROVE LeadInv
  OBVIOUS
<1>1. /\ file \in Files /\ plan.leadDone = FALSE /\ plan.lead = <<>> /\ plan.cursor = 0
      /\ scan.at = 0 /\ scan.locked = FALSE
  BY DEF Init, NewPlan, Idle
<1>2. Folded = 0
  BY <1>1 DEF Folded, Base
<1> QED BY <1>1, <1>2, LeadNone DEF LeadInv

LEMMA LeadInvStep == WalkInv /\ ListInv /\ LeadInv /\ [Next]_vars => LeadInv'
<1> SUFFICES ASSUME WalkInv, ListInv, LeadInv, [Next]_vars PROVE LeadInv'
  OBVIOUS
<1>1. /\ file \in Files /\ plan \in Plans /\ scan \in Scans /\ scan.at \in Nat /\ scan.locked \in BOOLEAN
      /\ plan.leadDone \in BOOLEAN /\ plan.done \in BOOLEAN /\ plan.cursor \in 0..Len(file.ends)
      /\ Base \in 0..Len(file.blocks) /\ Len(file.blocks) \in Nat /\ Len(file.ends) \in Nat
      /\ (plan.cursor = Len(file.ends) => Base = Len(file.blocks))
  <2>1. file \in Files /\ plan \in Plans /\ scan \in Scans
    BY DEF WalkInv
  <2>2. scan.locked \in BOOLEAN /\ plan.leadDone \in BOOLEAN /\ plan.done \in BOOLEAN
    BY <2>1 DEF Plans, Scans
  <2> QED BY <2>1, <2>2, WalkFacts
<1>2. ~Walking => scan.at = 0
  BY <1>1 DEF WalkInv
<1>3. ~scan.locked \/ ~(scan.at > 0) => Folded = Base
  BY <1>1 DEF Folded, WalkInv
\* A step that starts a cluster, or none, with the head as it is.
<1>4. ASSUME ~scan.locked \/ ~(scan.at > 0), scan'.at = 0, scan'.locked = FALSE, file' = file,
             plan'.cursor = plan.cursor, plan'.lead = plan.lead, plan'.leadDone = plan.leadDone, plan'.done = plan.done,
             ~refolded' => ~refolded
      PROVE  LeadInv'
  <2>1. Folded' = Folded
    BY <1>1, <1>3, <1>4 DEF Folded, Base
  <2>2. (~plan.leadDone /\ scan.at > 0 => scan.locked)'
    BY <1>4
  <2>3. ~refolded' => IF ~plan.leadDone THEN LeadOpen(file, Folded, plan.lead)
                      ELSE (plan.done /\ plan.cursor < Len(file.ends)) \/ plan.lead = PlannedLead(file)
    BY <1>4 DEF LeadInv
  <2>4. (~refolded => IF ~plan.leadDone THEN LeadOpen(file, Folded, plan.lead)
                      ELSE (plan.done /\ plan.cursor < Len(file.ends)) \/ plan.lead = PlannedLead(file))'
    BY <1>4, <2>1, <2>3
  <2> QED BY <2>2, <2>4 DEF LeadInv
<1>5. CASE Quiet
  <2>1. UNCHANGED <<file, scan, plan, refolded>> /\ Folded' = Folded
    BY <1>5 DEF Quiet, Folded, Base
  <2> QED BY <2>1 DEF LeadInv
<1>6. CASE BeginMoved
  <2>1. scan.pc = "idle" /\ scan'.at = 0 /\ scan'.locked = FALSE /\ UNCHANGED <<file, plan, refolded>>
    BY <1>6 DEF BeginMoved, Fresh, Apart
  <2>2. ~(scan.at > 0)
    BY <1>2, <2>1 DEF Walking
  <2> QED BY <1>4, <2>1, <2>2
<1>7. ASSUME NEW b, BlockMoved(b) PROVE LeadInv'
  <2> DEFINE i == Base + scan.at + 1
             at == plan.cursor + 1
  <2>1. /\ b \in Blocks /\ i \in 1..Len(file.blocks) /\ b = file.blocks[i] /\ scan.pc = "scan"
        /\ scan'.at = scan.at + 1 /\ scan'.locked = (IF scan.at = 0 THEN HeadOpen ELSE scan.locked)
        /\ scan'.locked => plan' = foldBlock(plan, b, at)
        /\ ~scan'.locked => plan' = plan
        /\ file' = file /\ refolded' = refolded
    BY <1>7 DEF BlockMoved, Apart, Walking
  <2>2. at \in Nat /\ i - 1 = Base + scan.at /\ Base + (scan.at + 1) = i /\ b.t \in {"v", "a"}
    <3>1. b.t \in {"v", "a"}
      BY <2>1 DEF Blocks
    <3>2. at \in Nat /\ i - 1 = Base + scan.at /\ Base + (scan.at + 1) = i
      BY <1>1
    <3> QED BY <3>1, <3>2
  <2>3. ~plan.leadDone => scan'.locked /\ Folded = i - 1
    <3>1. CASE scan.at = 0
      BY <1>1, <2>1, <2>2, <3>1 DEF HeadOpen, Folded
    <3>2. CASE scan.at # 0
      <4>1. ~plan.leadDone => scan.locked
        BY <1>1, <3>2 DEF LeadInv
      <4> QED BY <1>1, <2>1, <2>2, <3>2, <4>1 DEF Folded
    <3> QED BY <3>1, <3>2
  <2> HIDE DEF i, at
  <2>4. scan'.locked => BlockFolded(plan, b, at, plan')
    BY <1>1, <2>1, <2>2, FoldBlock
  <2>5. plan'.cursor = plan.cursor /\ plan'.done = plan.done /\ plan' \in Plans
    BY <1>1, <2>1, <2>4 DEF BlockFolded
  <2>6. scan'.locked => Folded' = i
    <3>1. Base' = Base
      BY <2>1, <2>5 DEF Base
    <3> QED BY <1>1, <2>1, <2>2, <3>1 DEF Folded
  <2>7. CASE plan.leadDone
    <3>1. plan'.leadDone /\ plan'.lead = plan.lead
      <4>1. CASE scan'.locked
        <5>1. extendLead(plan, b) = plan
          BY <2>7 DEF extendLead
        <5> QED BY <2>4, <2>7, <4>1, <5>1 DEF BlockFolded
      <4>2. CASE ~scan'.locked
        BY <2>1, <2>7, <4>2
      <4> QED BY <4>1, <4>2
    <3> QED BY <2>1, <2>5, <2>7, <3>1 DEF LeadInv
  <2>8. CASE ~plan.leadDone
    <3>1. scan'.locked /\ BlockFolded(plan, b, at, plan') /\ Folded' = i /\ Folded = i - 1
      BY <2>3, <2>4, <2>6, <2>8
    <3>2. CASE b.t = "a"
      <4>1. plan'.lead = plan.lead /\ plan'.leadDone = plan.leadDone
        BY <3>1, <3>2 DEF BlockFolded
      <4>2. ~refolded => LeadOpen(file, i, plan.lead)
        <5>1. ~refolded => LeadOpen(file, i - 1, plan.lead)
          BY <2>8, <3>1 DEF LeadInv
        <5> QED BY <1>1, <2>1, <2>8, <3>2, <5>1, LeadStep
      <4> QED BY <2>1, <2>8, <3>1, <4>1, <4>2 DEF LeadInv
    <3>3. CASE b.t = "v"
      <4> DEFINE x == extendLead(plan, b)
      <4>1. plan'.lead = x.lead /\ plan'.leadDone = x.leadDone
        BY <3>1, <3>3 DEF BlockFolded
      <4>2. ~refolded => IF x.leadDone THEN x.lead = PlannedLead(file) ELSE LeadOpen(file, i, x.lead)
        <5>1. ~refolded => LeadOpen(file, i - 1, plan.lead)
          BY <2>8, <3>1 DEF LeadInv
        <5> QED BY <1>1, <2>1, <2>8, <3>3, <5>1, LeadStep
      <4> HIDE DEF x
      <4> QED BY <2>1, <3>1, <4>1, <4>2 DEF LeadInv
    <3> QED BY <2>2, <3>2, <3>3
  <2> QED BY <2>7, <2>8
<1>8. ASSUME NEW p, NEW q, ClusterMoved(p, q) PROVE LeadInv'
  <2>1. /\ Walking /\ scan.at = Len(Cluster) /\ Fresh(scan') /\ file' = file /\ refolded' = refolded
        /\ p \in Plans /\ p.gridWin <= Len(p.cuts) /\ q = updateSegCount(p)
        /\ p.lead = plan.lead /\ p.leadDone = plan.leadDone /\ p.done = plan.done
        /\ plan'.cursor = plan.cursor + 1 /\ plan'.lead = q.lead /\ plan'.leadDone = q.leadDone /\ plan'.done = q.done
    BY <1>8 DEF ClusterMoved, Apart
  <2>2. q.lead = plan.lead /\ q.leadDone = plan.leadDone /\ q.done = plan.done
    BY <2>1, UpdateSegCount DEF SameWalk
  <2>3. Base' = Base + scan.at
    <3>1. Len(Cluster) = file.ends[plan.cursor + 1] - Base /\ file.ends[plan.cursor + 1] \in Base..Len(file.blocks)
      BY <2>1, ClusterFacts
    <3>2. plan'.cursor # 0 /\ Base' = file.ends[plan.cursor + 1]
      BY <1>1, <2>1 DEF Base, Plans
    <3> QED BY <1>1, <2>1, <3>1, <3>2
  <2>4. scan'.at = 0 /\ scan'.locked = FALSE
    BY <2>1 DEF Fresh
  <2>5. Folded' = Base + scan.at
    BY <1>1, <2>3, <2>4 DEF Folded
  <2>6. ~plan.leadDone => Folded = Base + scan.at
    BY <1>1 DEF Folded, LeadInv
  <2>7. ~plan.done
    BY <2>1 DEF ListInv, Walking
  <2>8. ~refolded => IF ~plan.leadDone THEN LeadOpen(file, Base + scan.at, plan.lead)
                     ELSE plan.lead = PlannedLead(file)
    BY <2>6, <2>7 DEF LeadInv
  <2> QED BY <2>1, <2>2, <2>4, <2>5, <2>8 DEF LeadInv
<1>9. CASE FailMoved
  <2>1. /\ Fresh(scan') /\ file' = file
        /\ opened => plan' = plan /\ (~refolded' => ~refolded /\ ~(scan.locked /\ scan.at > 0))
        /\ ~opened => plan' = NewPlan
    BY <1>9 DEF FailMoved, Apart
  <2>2. scan'.at = 0 /\ scan'.locked = FALSE
    BY <2>1 DEF Fresh
  <2>3. CASE opened /\ refolded'
    BY <2>2, <2>3 DEF LeadInv
  <2>4. CASE opened /\ ~refolded'
    <3>1. plan' = plan /\ ~refolded /\ (~scan.locked \/ ~(scan.at > 0))
      BY <2>1, <2>4
    <3> QED BY <1>4, <2>1, <2>2, <2>4, <3>1
  <2>5. CASE ~opened
    <3>1. plan'.lead = <<>> /\ plan'.leadDone = FALSE /\ plan'.cursor = 0
      BY <2>1, <2>5 DEF NewPlan
    <3>2. Folded' = 0
      BY <2>2, <3>1 DEF Folded, Base
    <3> QED BY <1>1, <2>1, <2>2, <3>1, <3>2, LeadNone DEF LeadInv
  <2> QED BY <2>3, <2>4, <2>5
<1>10. CASE FinalMoved
  <2>1. /\ AtEnd \/ scan.pc = "close"
        /\ scan.pc \in {"scan", "close"} /\ scan' = Idle /\ file' = file /\ refolded' = refolded
        /\ plan'.leadDone /\ plan'.done /\ plan'.lead = plan.lead /\ plan'.cursor = plan.cursor
    BY <1>10 DEF FinalMoved, SameWalk, Apart
  <2>2. ~plan.done
    BY <2>1 DEF ListInv
  <2>3. ~Walking
    <3>1. plan.cursor = Len(file.ends) => ~(plan.cursor < scan.size)
      <4>1. scan.size <= Whole /\ Whole \in 0..Len(file.ends) /\ scan.size \in Nat /\ Len(file.ends) \in Nat
        BY WalkFacts DEF WalkInv
      <4> QED BY <4>1
    <3> QED BY <2>1, <3>1 DEF AtEnd, Walking
  <2>4. Folded = Base
    BY <1>2, <1>3, <2>3
  <2>5. ASSUME ~refolded PROVE (plan.cursor < Len(file.ends)) \/ plan.lead = PlannedLead(file)
    <3>1. CASE plan.leadDone
      BY <2>2, <2>5, <3>1 DEF LeadInv
    <3>2. CASE ~plan.leadDone /\ plan.cursor = Len(file.ends)
      <4>1. LeadOpen(file, Len(file.blocks), plan.lead)
        BY <1>1, <2>4, <2>5, <3>2 DEF LeadInv
      <4> QED BY <1>1, <4>1, LeadEnds
    <3>3. plan.cursor = Len(file.ends) \/ plan.cursor < Len(file.ends)
      BY <1>1
    <3> QED BY <3>1, <3>2, <3>3
  <2> QED BY <2>1, <2>5 DEF LeadInv
<1>11. CASE RestMoved
  <2>1. /\ plan.cursor >= scan.size /\ Fresh(scan') /\ file' = file /\ refolded' = refolded
        /\ plan'.lead = plan.lead /\ plan'.leadDone = plan.leadDone /\ plan'.done = plan.done /\ plan'.cursor = plan.cursor
    BY <1>11 DEF RestMoved, SameWalk, Apart
  <2>2. ~Walking
    BY <1>1, <2>1 DEF Walking, Scans
  <2>3. ~(scan.at > 0)
    BY <1>2, <2>2
  <2> QED BY <1>4, <2>1, <2>3 DEF Fresh
<1> QED BY <1>5, <1>6, <1>7, <1>8, <1>9, <1>10, <1>11, Steps

\* The init's edit list is measured where PlanHLS measures it (extendLeadLocked), and once.
THEOREM InitMeasuredAsPlanned == Spec => []InitAsPlanned
<1>1. Init => WalkInv /\ ListInv /\ LeadInv
  BY WalkInit, ListInit, LeadInit
<1>2. WalkInv /\ ListInv /\ LeadInv /\ [Next]_vars => WalkInv' /\ ListInv' /\ LeadInv'
  BY WalkStep, ListStep, LeadInvStep
<1>3. WalkInv /\ ListInv /\ LeadInv => InitAsPlanned
  <2> SUFFICES ASSUME WalkInv, ListInv, LeadInv PROVE InitAsPlanned
    OBVIOUS
  <2>1. plan.list.served => plan.leadDone
    BY DEF ListInv
  <2>2. Finished[file].lead = PlannedLead(file)
    BY DEF WalkInv, Finished
  <2>3. plan.cursor \in 0..Len(file.ends) /\ Len(file.ends) \in Nat
    BY WalkFacts
  <2>4. plan.leadDone /\ ~refolded /\ (plan.done => plan.cursor = Len(file.ends)) => plan.lead = PlannedLead(file)
    BY <2>3 DEF LeadInv
  <2> QED BY <2>1, <2>2, <2>4 DEF InitAsPlanned
<1> QED BY <1>1, <1>2, <1>3, PTL DEF Spec

-----------------------------------------------------------------------------
(* What a request makes of the blocks it reads.                             *)

LEMMA DivNat == ASSUME NEW x \in Nat, NEW d \in Nat \ {0} PROVE x \div d \in Nat
  OBVIOUS

LEMMA GridIndexNat == ASSUME NEW ms \in Nat PROVE gridIndex(ms) \in Nat
<1>1. Tick \in Nat \ {0} /\ 2 \in Nat \ {0}
  BY GrowingAssumption
<1>2. Tick \div 2 \in Nat
  BY <1>1, DivNat
<1>3. ms + Tick \div 2 \in Nat
  BY <1>2
<1> QED BY <1>1, <1>3, DivNat DEF gridIndex

\* The slots of the frames of a window, one after the other.
Slots(pts, g) ==
  /\ g \in [1..Len(pts) -> Nat]
  /\ \A i \in 1..Len(pts) :
       g[i] = IF i = 1 THEN gridIndex(pts[1])
              ELSE IF pts[i] = pts[i-1] \/ gridIndex(pts[i]) < g[i-1] + 1 THEN g[i-1] + 1
              ELSE gridIndex(pts[i])
LEMMA GridFramesAre == ASSUME NEW pts \in Seq(Nat) PROVE Slots(pts, gridFrames(pts))
<1> DEFINE n == Len(pts)
           Slot(k, i) == IF i = 1 THEN gridIndex(pts[1])
                         ELSE IF pts[i] = pts[i-1] \/ gridIndex(pts[i]) < k + 1 THEN k + 1
                         ELSE gridIndex(pts[i])
           Is(g) == g = [i \in DOMAIN pts |-> IF i = 1 THEN gridIndex(pts[1])
                                              ELSE IF pts[i] = pts[i-1] \/ gridIndex(pts[i]) < g[i-1] + 1 THEN g[i-1] + 1
                                              ELSE gridIndex(pts[i])]
           D == [x \in Nat \X (1..n) |-> Slot(x[1], x[2])]
<1>1. n \in Nat /\ DOMAIN pts = 1..n /\ \A i \in 1..n : pts[i] \in Nat
  OBVIOUS
<1>2. ASSUME NEW k \in Nat, NEW i \in 1..n PROVE Slot(k, i) \in Nat
  <2>1. gridIndex(pts[i]) \in Nat /\ (i = 1 => gridIndex(pts[1]) \in Nat)
    BY <1>1, GridIndexNat
  <2> QED BY <2>1
<1>3. gridFrames(pts) = CHOOSE g : Is(g)
  BY DEF gridFrames
<1> HIDE DEF n, Slot
<1>4. D \in [Nat \X (1..n) -> Nat]
  BY <1>2
<1>5. PICK c : c \in [0..n -> Nat] /\ Follows(c, n, 0, D)
  <2> HIDE DEF D
  <2>1. 0 \in Nat
    OBVIOUS
  <2> QED BY <1>1, <1>4, <2>1, RecursionExists
<1>6. ASSUME NEW i \in 1..n PROVE c[i] = Slot(c[i-1], i)
  <2>1. i - 1 \in 0..n /\ i \in 1..n
    BY <1>1
  <2>2. c[i-1] \in Nat /\ c[i] = D[<<c[i-1], i>>]
    <3> HIDE DEF D
    <3> QED BY <1>5, <2>1 DEF Follows
  <2>3. D[<<c[i-1], i>>] = Slot(c[i-1], i)
    BY <2>1, <2>2
  <2> QED BY <2>2, <2>3
<1> HIDE DEF D
<1> DEFINE d == [i \in DOMAIN pts |-> c[i]]
<1>7. ASSUME NEW i \in DOMAIN pts PROVE d[i] = c[i] /\ (i # 1 => d[i-1] = c[i-1])
  <2>1. i # 1 => i - 1 \in DOMAIN pts
    BY <1>1
  <2> QED BY <2>1
<1>8. Is(d)
  <2>1. ASSUME NEW i \in DOMAIN pts
        PROVE  c[i] = IF i = 1 THEN gridIndex(pts[1])
                      ELSE IF pts[i] = pts[i-1] \/ gridIndex(pts[i]) < d[i-1] + 1 THEN d[i-1] + 1
                      ELSE gridIndex(pts[i])
    <3> HIDE DEF d
    <3>1. i \in 1..n
      BY <1>1
    <3>2. CASE i = 1
      BY <1>6, <3>1, <3>2 DEF Slot
    <3>3. CASE i # 1
      BY <1>6, <1>7, <3>1, <3>3 DEF Slot
    <3> QED BY <3>2, <3>3
  <2> QED BY <2>1, Zenon
<1>9. PICK g : Is(g) /\ gridFrames(pts) = g
  <2> HIDE DEF Is, d
  <2> QED BY <1>3, <1>8, Zenon
<1>10. ASSUME NEW i \in 1..n PROVE g[i] = Slot(g[i-1], i)
  <2>1. g = [j \in DOMAIN pts |-> IF j = 1 THEN gridIndex(pts[1])
                                  ELSE IF pts[j] = pts[j-1] \/ gridIndex(pts[j]) < g[j-1] + 1 THEN g[j-1] + 1
                                  ELSE gridIndex(pts[j])]
    BY <1>9
  <2>2. i \in DOMAIN pts
    BY <1>1
  <2> QED BY <2>1, <2>2 DEF Slot
<1>11. \A i \in 0..n : i \in {j \in 0..n : j = 0 \/ g[j] \in Nat}
  <2> DEFINE S == {j \in 0..n : j = 0 \/ g[j] \in Nat}
  <2>1. 0 \in S
    BY <1>1
  <2>2. ASSUME NEW i \in 1..n, i - 1 \in S PROVE i \in S
    <3>1. i \in 0..n /\ (i # 1 => g[i-1] \in Nat)
      BY <1>1, <2>2
    <3>2. Slot(g[i-1], i) \in Nat
      <4>1. CASE i = 1
        <5>1. Slot(g[i-1], i) = Slot(0, i)
          BY <4>1 DEF Slot
        <5>2. Slot(0, i) \in Nat
          BY <1>2
        <5> QED BY <5>1, <5>2
      <4>2. CASE i # 1
        BY <1>2, <3>1, <4>2
      <4> QED BY <4>1, <4>2
    <3> QED BY <1>10, <3>1, <3>2
  <2> HIDE DEF S
  <2>3. \A i \in 0..n : i \in S
    BY <1>1, <2>1, <2>2, UpTo
  <2> QED BY <2>3 DEF S
<1>12. \A i \in 1..n : g[i] \in Nat
  <2> TAKE i \in 1..n
  <2>1. i \in 0..n /\ i # 0
    BY <1>1
  <2> QED BY <1>11, <2>1
<1>13. g = [i \in 1..n |-> g[i]]
  BY <1>1, <1>9
<1>14. g \in [1..n -> Nat]
  <2> HIDE DEF Is
  <2> QED BY <1>12, <1>13
<1>15. Slots(pts, g)
  <2> HIDE DEF Is
  <2>1. \A i \in 1..n : g[i] = IF i = 1 THEN gridIndex(pts[1])
                              ELSE IF pts[i] = pts[i-1] \/ gridIndex(pts[i]) < g[i-1] + 1 THEN g[i-1] + 1
                              ELSE gridIndex(pts[i])
    BY <1>10 DEF Slot
  <2> QED BY <1>14, <2>1 DEF Slots, n
<1> QED
  <2> HIDE DEF Is
  <2> QED BY <1>9, <1>15

LEMMA GridFramesType == ASSUME NEW pts \in Seq(Nat) PROVE gridFrames(pts) \in [1..Len(pts) -> Nat]
BY GridFramesAre DEF Slots

\* Where a window opens and ends on the grid.
LEMMA GridOpenType ==
    ASSUME NEW pts \in Seq(Nat), pts # <<>>
    PROVE  /\ gridIndex(pts[1]) \in Nat /\ gridColdEnd(pts) \in Nat
           /\ \A prevEnd \in Nat \union {-1} : gridOpen(pts, prevEnd) \in Nat
<1>1. Len(pts) \in Nat \ {0} /\ pts[1] \in Nat
  OBVIOUS
<1>2. gridIndex(pts[1]) \in Nat
  BY <1>1, GridIndexNat
<1>3. gridColdEnd(pts) \in Nat
  <2>1. gridFrames(pts) \in [1..Len(pts) -> Nat]
    BY GridFramesType
  <2> DEFINE g == gridFrames(pts)
             n == Len(pts)
  <2>2. g \in [1..n -> Nat] /\ n \in Nat \ {0}
    BY <1>1, <2>1
  <2> HIDE DEF g, n
  <2>3. Len(g) = n /\ g[n] \in Nat
    BY <2>2
  <2>4. Last(g) + 1 \in Nat
    BY <2>3 DEF Last
  <2> QED BY <2>4 DEF gridColdEnd, g
<1>4. ASSUME NEW prevEnd \in Nat \union {-1} PROVE gridOpen(pts, prevEnd) \in Nat
  BY <1>2 DEF gridOpen
<1> QED BY <1>2, <1>3, <1>4

\* The times of a track.
LEMMA TimesOfType == ASSUME NEW t, NEW blocks \in Seq(Blocks) PROVE TimesOf(t, blocks) \in Seq(Nat)
<1> DEFINE own == Of(t, blocks)
<1>1. own \in Seq(Blocks)
  BY PickedType DEF Of
<1>2. TimesOf(t, blocks) = [i \in DOMAIN own |-> own[i].ms]
  BY DEF TimesOf
<1> HIDE DEF own
<1>3. DOMAIN own = 1..Len(own) /\ Len(own) \in Nat /\ \A i \in 1..Len(own) : own[i].ms \in Nat
  <2>1. \A i \in 1..Len(own) : own[i] \in Blocks
    BY <1>1
  <2> QED BY <1>1, <2>1 DEF Blocks
<1> DEFINE l == TimesOf(t, blocks)
           n == Len(own)
<1>4. l \in [1..n -> Nat] /\ n \in Nat
  BY <1>2, <1>3
<1> HIDE DEF l, n
<1>5. l \in Seq(Nat)
  BY <1>4
<1> QED BY <1>5 DEF l

\* A set of numbers up to n has a largest, and the values of a sequence too.
LEMMA GreatestIndex ==
    ASSUME NEW n \in Nat, NEW S, S \subseteq 0..n, S # {}
    PROVE  \E m \in S : \A k \in S : k <= m
<1> DEFINE T == {n - k : k \in S}
<1>1. T \subseteq 0..n /\ T # {}
  <2>1. \A k \in S : k \in 0..n /\ n - k \in 0..n
    OBVIOUS
  <2>2. PICK k \in S : TRUE
    OBVIOUS
  <2>3. n - k \in T
    OBVIOUS
  <2> QED BY <2>1, <2>3
<1>2. PICK d \in T : \A k \in 0..d-1 : k \notin T
  <2> HIDE DEF T
  <2> QED BY <1>1, LeastIndex
<1>3. PICK m \in S : d = n - m
  BY <1>2
<1>4. ASSUME NEW k \in S PROVE k <= m
  <2>1. n - k \in T /\ n - k \in 0..n /\ k \in 0..n /\ m \in 0..n
    BY <1>3
  <2>2. ~(n - k \in 0..d-1)
    BY <1>2, <2>1
  <2> QED BY <1>3, <2>1, <2>2
<1> QED BY <1>4

LEMMA GreatestValue ==
    ASSUME NEW n \in Nat, NEW v \in [1..n -> Nat], NEW J \in SUBSET (1..n), NEW start \in Nat
    PROVE  \E m \in {start} \union {v[i] : i \in J} :
             m \in Nat /\ \A o \in {start} \union {v[i] : i \in J} : o <= m
<1> DEFINE Met(k) == {start} \union {v[i] : i \in {j \in J : j <= k}}
           S == {k \in 0..n : \E m \in Met(k) : m \in Nat /\ \A o \in Met(k) : o <= m}
<1>1. 0 \in S
  <2>1. Met(0) = {start}
    OBVIOUS
  <2>2. 0 \in 0..n
    OBVIOUS
  <2>3. \A o \in {start} : o <= start
    OBVIOUS
  <2> HIDE DEF Met
  <2> QED BY <2>1, <2>2, <2>3
<1>2. ASSUME NEW k \in 1..n, k - 1 \in S PROVE k \in S
  <2>1. PICK m \in Met(k - 1) : m \in Nat /\ \A o \in Met(k - 1) : o <= m
    BY <1>2
  <2>2. Met(k) = IF k \in J THEN Met(k - 1) \union {v[k]} ELSE Met(k - 1)
    <3>1. \A j \in J : j <= k <=> (j <= k - 1 \/ j = k)
      OBVIOUS
    <3>2. {j \in J : j <= k} = IF k \in J THEN {j \in J : j <= k - 1} \union {k} ELSE {j \in J : j <= k - 1}
      BY <3>1, Zenon
    <3> QED BY <3>2
  <2>3. v[k] \in Nat /\ k \in 0..n
    OBVIOUS
  <2> HIDE DEF Met
  <2>4. CASE k \in J /\ v[k] > m
    <3>1. v[k] \in Met(k) /\ \A o \in Met(k) : o <= v[k]
      <4>1. ASSUME NEW o \in Met(k) PROVE o <= v[k]
        <5>1. CASE o \in Met(k - 1)
          BY <2>1, <2>3, <2>4, <5>1, SMT
        <5>2. CASE o = v[k]
          BY <2>3, <5>2
        <5> QED BY <2>2, <2>4, <5>1, <5>2
      <4> QED BY <2>2, <2>4, <4>1
    <3> QED BY <2>3, <3>1
  <2>5. CASE ~(k \in J /\ v[k] > m)
    <3>1. m \in Met(k) /\ \A o \in Met(k) : o <= m
      BY <2>1, <2>2, <2>3, <2>5
    <3> QED BY <2>1, <2>3, <3>1
  <2> QED BY <2>4, <2>5
<1>3. \A k \in 0..n : k \in S
  <2> HIDE DEF S
  <2> QED BY <1>1, <1>2, UpTo
<1>4. Met(n) = {start} \union {v[i] : i \in J}
  <2>1. \A j \in J : j <= n
    OBVIOUS
  <2>2. {j \in J : j <= n} = J
    BY <2>1, Zenon
  <2> QED BY <2>2
<1>5. n \in S
  <2>1. n \in 0..n
    OBVIOUS
  <2> HIDE DEF S
  <2> QED BY <1>3, <2>1
<1> HIDE DEF Met
<1> QED BY <1>4, <1>5

\* What a walk finds: times, and a block after the window only when a cut ends it.
WindowTyped(n, w) ==
  /\ w.frames \in [file.tracks -> Seq(Nat)] /\ w.next \in [file.tracks -> Nat \union {-1}]
  /\ w.ended \in [file.tracks -> Nat \union {-1}]
  /\ \A t \in file.tracks : w.next[t] >= 0 => n < Len(plan.cuts)

LEMMA WindowType ==
    ASSUME file \in Files, written \in 0..Len(file.blocks), plan \in Plans,
           ended \in [file.tracks -> Nat \union {-1}], NEW n \in 1..Len(plan.cuts)
    PROVE  WindowTyped(n, walkWindow(n))
<1> DEFINE B == Visible
           start == plan.cuts[n].ms
           crossing(t) == {i \in DOMAIN B : B[i].t = t /\ n < Len(plan.cuts) /\ B[i].ms >= plan.cuts[n+1].ms}
           cross == [t \in file.tracks |-> IF crossing(t) = {} THEN 0
                                           ELSE CHOOSE i \in crossing(t) : \A j \in crossing(t) : i <= j]
           waiting == {t \in file.tracks : ~trackEndedBefore(t, start)}
           atEnd == \E t \in waiting : cross[t] = 0
           last  == IF atEnd THEN Len(B)
                    ELSE CHOOSE i \in {cross[t] : t \in waiting} \union {0} : \A t \in waiting : cross[t] <= i
           window(t) ==
             LET read == TimesOf(t, SubSeq(B, 1, IF cross[t] \in 1..last THEN cross[t] - 1 ELSE last))
             IN SubSeq(read, IF n = 1 THEN 1 ELSE FirstAt(read, start), Len(read))
           seen(t) == LET met == {start} \union {B[i].ms : i \in {j \in DOMAIN B : B[j].t = t}}
                      IN CHOOSE ms \in met : \A other \in met : other <= ms
           w == [frames |-> [t \in file.tracks |-> window(t)],
                 next   |-> [t \in file.tracks |-> IF cross[t] \in 1..last THEN B[cross[t]].ms ELSE -1],
                 ended  |-> [t \in file.tracks |->
                               IF atEnd /\ cross[t] = 0 /\ seen(t) > ended[t] THEN seen(t) ELSE ended[t]]]
<1>1. walkWindow(n) = w
  BY DEF walkWindow
<1>2. /\ B \in Seq(Blocks) /\ Len(B) = written /\ Len(B) \in Nat /\ DOMAIN B = 1..Len(B)
      /\ \A i \in 1..Len(B) : B[i] \in Blocks /\ B[i].ms \in Nat
  <2>1. file.blocks \in Seq(Blocks) /\ Len(file.blocks) \in Nat
    BY FileTypes
  <2>2. B \in Seq(Blocks) /\ Len(B) = written
    BY <2>1 DEF Visible
  <2> HIDE DEF B
  <2>3. Len(B) \in Nat /\ DOMAIN B = 1..Len(B) /\ \A i \in 1..Len(B) : B[i] \in Blocks
    BY <2>2
  <2> QED BY <2>2, <2>3 DEF Blocks
<1>3. start \in Nat
  <2>1. plan.cuts \in Seq(Cut)
    BY DEF Plans
  <2>2. plan.cuts[n] \in Cut
    BY <2>1
  <2> QED BY <2>2 DEF Cut
<1> HIDE DEF B, start
<1>4. ASSUME NEW t \in file.tracks PROVE cross[t] \in 0..Len(B) /\ (cross[t] # 0 => n < Len(plan.cuts))
  <2>1. crossing(t) \subseteq 0..Len(B) /\ (crossing(t) # {} => n < Len(plan.cuts))
    BY <1>2
  <2>2. cross[t] = IF crossing(t) = {} THEN 0 ELSE CHOOSE i \in crossing(t) : \A j \in crossing(t) : i <= j
    OBVIOUS
  <2> HIDE DEF crossing, cross
  <2>3. CASE crossing(t) = {}
    BY <1>2, <2>2, <2>3
  <2>4. CASE crossing(t) # {}
    <3>1. PICK m \in crossing(t) : \A k \in 0..m-1 : k \notin crossing(t)
      BY <1>2, <2>1, <2>4, LeastIndex
    <3>2. \A j \in crossing(t) : m <= j
      BY <1>2, <2>1, <3>1
    <3>3. cross[t] \in crossing(t)
      BY <2>2, <2>4, <3>2, Zenon
    <3> QED BY <2>1, <2>4, <3>3
  <2> QED BY <2>3, <2>4
<1> HIDE DEF cross, crossing
<1>5. last \in 0..Len(B)
  <2>1. CASE atEnd
    BY <1>2, <2>1
  <2>2. CASE ~atEnd
    <3> DEFINE S == {cross[t] : t \in waiting} \union {0}
    <3>1. S \subseteq 0..Len(B) /\ S # {}
      BY <1>2, <1>4
    <3>2. PICK m \in S : \A k \in S : k <= m
      <4> HIDE DEF S
      <4> QED BY <1>2, <3>1, GreatestIndex
    <3>3. \A t \in waiting : cross[t] <= m
      BY <3>2
    <3>4. last = CHOOSE i \in S : \A t \in waiting : cross[t] <= i
      BY <2>2
    <3> HIDE DEF S, waiting, last
    <3>5. last \in S
      BY <3>2, <3>3, <3>4, Zenon
    <3> QED BY <3>1, <3>5
  <2> QED BY <2>1, <2>2
<1> HIDE DEF last, atEnd, waiting
<1>6. ASSUME NEW t \in file.tracks PROVE window(t) \in Seq(Nat)
  <2> DEFINE to == IF cross[t] \in 1..last THEN cross[t] - 1 ELSE last
             read == TimesOf(t, SubSeq(B, 1, to))
             from == IF n = 1 THEN 1 ELSE FirstAt(read, start)
  <2>1. to \in 0..Len(B)
    BY <1>2, <1>4, <1>5
  <2> HIDE DEF to
  <2>2. SubSeq(B, 1, to) \in Seq(Blocks)
    BY <1>2, <2>1
  <2>3. read \in Seq(Nat)
    BY <2>2, TimesOfType
  <2> HIDE DEF read
  <2>4. FirstAt(read, start) \in 1..Len(read)+1 /\ Len(read) \in Nat
    BY <2>3, FirstAtIs
  <2>5. from \in 1..Len(read)+1
    BY <2>4
  <2> HIDE DEF from
  <2>6. SubSeq(read, from, Len(read)) \in Seq(Nat)
    BY <2>3, <2>4, <2>5
  <2> QED BY <2>6 DEF from, read, to
<1>7. ASSUME NEW t \in file.tracks
      PROVE  /\ (IF cross[t] \in 1..last THEN B[cross[t]].ms ELSE -1) \in Nat \union {-1}
             /\ (IF cross[t] \in 1..last THEN B[cross[t]].ms ELSE -1) >= 0 => n < Len(plan.cuts)
  <2>1. cross[t] \in 1..last => cross[t] \in 1..Len(B) /\ cross[t] # 0
    BY <1>2, <1>4, <1>5
  <2> QED BY <1>2, <1>4, <2>1
<1>8. ASSUME NEW t \in file.tracks PROVE seen(t) \in Nat
  <2> DEFINE J == {j \in DOMAIN B : B[j].t = t}
             v == [i \in 1..Len(B) |-> B[i].ms]
             met == {start} \union {B[i].ms : i \in J}
  <2>1. J \in SUBSET (1..Len(B)) /\ v \in [1..Len(B) -> Nat] /\ Len(B) \in Nat
    BY <1>2
  <2>2. met = {start} \union {v[i] : i \in J}
    BY <1>2
  <2>3. seen(t) = CHOOSE ms \in met : \A other \in met : other <= ms
    OBVIOUS
  <2>4. \A m \in met : m \in Nat
    BY <1>2, <1>3
  <2> HIDE DEF J, v, met, seen
  <2>5. \E m \in met : m \in Nat /\ \A o \in met : o <= m
    BY <1>3, <2>1, <2>2, GreatestValue
  <2>6. seen(t) \in met
    BY <2>3, <2>5, Zenon
  <2> QED BY <2>4, <2>6
<1> HIDE DEF window, seen
<1>9. /\ w.frames \in [file.tracks -> Seq(Nat)] /\ w.next \in [file.tracks -> Nat \union {-1}]
      /\ w.ended \in [file.tracks -> Nat \union {-1}]
      /\ \A t \in file.tracks : w.next[t] >= 0 => n < Len(plan.cuts)
  <2>1. w.frames \in [file.tracks -> Seq(Nat)]
    BY <1>6
  <2>2. w.next = [t \in file.tracks |-> IF cross[t] \in 1..last THEN B[cross[t]].ms ELSE -1]
    OBVIOUS
  <2>3. w.next \in [file.tracks -> Nat \union {-1}] /\ \A t \in file.tracks : w.next[t] >= 0 => n < Len(plan.cuts)
    BY <1>7, <2>2
  <2>4. w.ended \in [file.tracks -> Nat \union {-1}]
    BY <1>8
  <2> QED BY <2>1, <2>3, <2>4
<1> HIDE DEF w
<1> QED BY <1>1, <1>9 DEF WindowTyped

-----------------------------------------------------------------------------
(* The requests.                                                            *)

Stages     == {"idle", "walk", "open", "end", "answered"}
ReqRecords == [pc : Stages, n : Nat, closed : BOOLEAN, seg : Segments \union {None}]

\* A request is for a window the plan has; on the grid it holds frames, and a cut ends it before the next block.
ReqOK(q) ==
  /\ q.pc # "idle" => opened /\ q.n \in 1..Len(plan.cuts)
  /\ q.pc \in {"open", "end", "answered"} => q.seg \in Segments
  /\ q.pc \in {"open", "end"} =>
       file.grid /\ q.seg.frames["a"] # <<>> /\ (q.seg.next["a"] >= 0 => q.n < Len(plan.cuts))

ReqInv ==
  /\ starts \in [1..Len(PlannedCuts(file)) -> Nat \union {-1}] /\ ended \in [file.tracks -> Nat \union {-1}]
  /\ req \in [Requests -> ReqRecords] /\ \A r \in Requests : ReqOK(req[r])

CountInv == asks \in 0..MaxAsks /\ faults \in 0..MaxFaults

LEMMA CountInit == Init => CountInv
  BY GrowingAssumption DEF Init, CountInv

LEMMA CountStep == CountInv /\ [Next]_vars => CountInv'
<1> SUFFICES ASSUME CountInv, [Next]_vars PROVE CountInv'
  OBVIOUS
<1> USE GrowingAssumption DEF CountInv
<1>1. CASE Write
  BY <1>1 DEF Write
<1>2. CASE Refresh \/ Complete
  BY <1>2 DEF Refresh, Complete, Begin
<1>3. CASE ScanFails
  BY <1>3 DEF ScanFails
<1>4. CASE FinalizeFails
  BY <1>4 DEF FinalizeFails, Publish
<1>5. CASE ScanBlock
  BY <1>5 DEF ScanBlock, Publish
<1>6. CASE ScanCluster \/ Finalize \/ ScanRests
  BY <1>6 DEF ScanCluster, Finalize, ScanRests, Publish
<1>7. ASSUME NEW r \in Requests, Ask(r) PROVE CountInv'
  BY <1>7 DEF Ask
<1>8. ASSUME NEW r \in Requests, Serve(r) PROVE CountInv'
  BY <1>8 DEF Serve, GiveUp, WalkWindow, GridOpens, GridEnds
<1>9. CASE UNCHANGED vars
  BY <1>9 DEF vars
<1> QED BY <1>1, <1>2, <1>3, <1>4, <1>5, <1>6, <1>7, <1>8, <1>9, Zenon DEF Next, Scanning

\* A plan loses no cut, but for the one a failing PlanGrowingHLS drops.
CutsLonger == (opened => opened') /\ Len(plan'.cuts) \in Nat /\ Len(plan.cuts) <= Len(plan'.cuts)
Dropped == ~opened /\ ~opened' /\ plan' = NewPlan

LEMMA CutsLast == ASSUME WalkInv, [Next]_vars PROVE CutsLonger \/ Dropped
<1>1. plan.cuts \in Seq(Cut) /\ plan \in Plans /\ plan'.cuts \in Seq(Cut) /\ plan.cursor + 1 \in Nat
  <2>1. WalkInv'
    BY WalkStep
  <2>2. plan \in Plans /\ plan' \in Plans
    BY <2>1 DEF WalkInv
  <2> QED BY <2>2 DEF Plans
<1>2. plan'.cuts = plan.cuts => Len(plan'.cuts) \in Nat /\ Len(plan.cuts) <= Len(plan'.cuts)
  BY <1>1
<1>3. CASE Quiet
  BY <1>2, <1>3 DEF Quiet, CutsLonger
<1>4. CASE BeginMoved
  BY <1>2, <1>4 DEF BeginMoved, CutsLonger
<1>5. ASSUME NEW b, BlockMoved(b) PROVE CutsLonger
  <2>1. /\ b \in Blocks /\ opened' = opened
        /\ scan'.locked => plan' = foldBlock(plan, b, plan.cursor + 1)
        /\ ~scan'.locked => plan' = plan
    BY <1>5 DEF BlockMoved
  <2>2. CASE scan'.locked
    <3>1. BlockFolded(plan, b, plan.cursor + 1, plan')
      BY <1>1, <2>1, <2>2, FoldBlock
    <3>2. Recorded(plan.cuts, b.ms, recordKeyframe(plan.cuts, b.ms, plan.cursor + 1))
      <4>1. b.ms \in Nat
        BY <2>1 DEF Blocks
      <4> QED BY <1>1, <4>1, RecordKeyframe
    <3>3. plan'.cuts = IF IsKey(b) THEN recordKeyframe(plan.cuts, b.ms, plan.cursor + 1) ELSE plan.cuts
      BY <3>1 DEF BlockFolded
    <3> QED BY <1>1, <1>2, <2>1, <3>2, <3>3 DEF Recorded, IsPrefix, CutsLonger
  <2> QED BY <1>2, <2>1, <2>2 DEF CutsLonger
<1>6. ASSUME NEW p, NEW q, ClusterMoved(p, q)
      PROVE  CutsLonger
  <2>1. /\ opened' = opened /\ IsPrefix(plan.cuts, p.cuts) /\ plan'.cuts = q.cuts
        /\ p \in Plans /\ p.gridWin <= Len(p.cuts) /\ q = updateSegCount(p)
    BY <1>6 DEF ClusterMoved
  <2>2. q.cuts = p.cuts
    BY <2>1, UpdateSegCount DEF SameWalk
  <2> QED BY <1>1, <2>1, <2>2 DEF IsPrefix, CutsLonger
<1>7. CASE FailMoved
  BY <1>2, <1>7 DEF FailMoved, CutsLonger, Dropped
<1>8. CASE FinalMoved
  BY <1>2, <1>8 DEF FinalMoved, SameWalk, CutsLonger
<1>9. CASE RestMoved
  BY <1>2, <1>9 DEF RestMoved, SameWalk, CutsLonger
<1> QED BY <1>3, <1>4, <1>5, <1>6, <1>7, <1>8, <1>9, Steps

LEMMA CutsGrow ==
    ASSUME WalkInv, opened, [Next]_vars
    PROVE  opened' /\ Len(plan'.cuts) \in Nat /\ Len(plan.cuts) <= Len(plan'.cuts)
  BY CutsLast DEF CutsLonger, Dropped

LEMMA ReqInit == Init => ReqInv
<1> SUFFICES ASSUME Init PROVE ReqInv
  OBVIOUS
<1>1. /\ file \in Files /\ starts = [n \in DOMAIN Finished[file].cuts |-> -1] /\ ended = [t \in file.tracks |-> -1]
      /\ req = [r \in Requests |-> NoReq]
  BY DEF Init
<1>2. Finished[file].cuts = PlannedCuts(file)
  BY <1>1 DEF Finished
<1>3. PlannedCuts(file) \in Seq(Cut)
  BY <1>1, FoundStep, FileTypes
<1>4. DOMAIN PlannedCuts(file) = 1..Len(PlannedCuts(file))
  BY <1>3
<1>5. NoReq \in ReqRecords /\ ReqOK(NoReq)
  BY DEF NoReq, ReqRecords, Stages, ReqOK
<1> QED BY <1>1, <1>2, <1>4, <1>5 DEF ReqInv

\* What a request does to its record.
ReqsOK(f) == f \in [Requests -> ReqRecords] /\ \A r \in Requests : ReqOK(f[r])

LEMMA Stepped ==
    ASSUME ReqsOK(req), NEW r \in Requests, NEW seg \in Segments, NEW pc \in {"open", "end", "answered"},
           req[r].pc # "idle", Step(r, seg, pc),
           pc \in {"open", "end"} =>
             file.grid /\ seg.frames["a"] # <<>> /\ (seg.next["a"] >= 0 => req[r].n < Len(plan.cuts))
    PROVE  ReqsOK(req')
<1> DEFINE q == [req[r] EXCEPT !.seg = seg, !.pc = pc]
<1>1. req[r] \in ReqRecords /\ ReqOK(req[r]) /\ req \in [Requests -> ReqRecords]
  BY DEF ReqsOK
<1>2. q \in ReqRecords /\ q.pc = pc /\ q.n = req[r].n /\ q.seg = seg
  BY <1>1 DEF ReqRecords, Stages
<1>3. req' = [req EXCEPT ![r] = q]
  BY <1>1 DEF Step
<1> HIDE DEF q
<1>4. ReqOK(q)
  BY <1>1, <1>2 DEF ReqOK
<1> QED BY <1>1, <1>2, <1>3, <1>4 DEF ReqsOK

\* Where the windows open: learned once, of a window of the plan.
LEMMA LearnType ==
    ASSUME NEW N \in Nat, NEW s \in [1..N -> Nat \union {-1}], plan.cuts \in Seq(Cut), Len(plan.cuts) <= N,
           NEW n \in 1..Len(plan.cuts), NEW k \in Nat
    PROVE  learnGridStart(s, n, k) \in [1..N -> Nat \union {-1}] /\ learnGridStart(s, n, k)[n] \in Nat
<1>1. n \in 1..N /\ n <= Len(plan.cuts)
  OBVIOUS
<1> QED BY <1>1 DEF learnGridStart

LEMMA SegmentsKept == ASSUME UNCHANGED file PROVE Segments' = Segments
  BY DEF Segments

Learned(s, e) ==
  /\ s \in [1..Len(PlannedCuts(file)) -> Nat \union {-1}] /\ e \in [file.tracks -> Nat \union {-1}]

LEMMA ReqFacts ==
    ASSUME WalkInv, CutsInv, ReqInv
    PROVE  /\ file \in Files /\ written \in 0..Len(file.blocks) /\ plan \in Plans /\ plan.cuts \in Seq(Cut)
           /\ Len(plan.cuts) \in Nat /\ Len(PlannedCuts(file)) \in Nat /\ Len(plan.cuts) <= Len(PlannedCuts(file))
           /\ IsPrefix(plan.cuts, PlannedCuts(file)) /\ Covers(file, plan.cuts, Base)
           /\ (file.grid => "a" \in file.tracks) /\ Learned(starts, ended) /\ ReqsOK(req)
<1>1. file \in Files /\ written \in 0..Len(file.blocks) /\ plan \in Plans /\ plan.cuts \in Seq(Cut)
  BY DEF WalkInv, Plans
<1>2. Len(plan.cuts) \in Nat /\ Base \in 0..Len(file.blocks) /\ Covers(file, plan.cuts, Base)
  BY WalkFacts DEF CutsInv
<1>3. IsPrefix(plan.cuts, PlannedCuts(file))
  BY <1>1, <1>2, CoversPlanned
<1>4. PlannedCuts(file) \in Seq(Cut)
  BY <1>1, FoundStep, FileTypes
<1>5. Len(PlannedCuts(file)) \in Nat
  BY <1>4
<1>6. Len(plan.cuts) <= Len(PlannedCuts(file))
  BY <1>3 DEF IsPrefix
<1>7. file.grid => "a" \in file.tracks
  BY <1>1, FilesAssumption
<1>8. Learned(starts, ended) /\ ReqsOK(req)
  BY DEF ReqInv, Learned, ReqsOK
<1> QED BY <1>1, <1>2, <1>3, <1>5, <1>6, <1>7, <1>8

LEMMA AskStep ==
    ASSUME WalkInv, CutsInv, ListInv, ReqInv, NEW r \in Requests, Ask(r)
    PROVE  Learned(starts', ended') /\ ReqsOK(req')
<1>1. Learned(starts, ended) /\ ReqsOK(req) /\ Len(plan.cuts) \in Nat /\ plan \in Plans
  BY ReqFacts
<1>2. PICK n \in 1..plan.published :
        req' = [req EXCEPT ![r] = [pc |-> "walk", n |-> n, closed |-> plan.done, seg |-> None]]
  BY DEF Ask
<1> DEFINE q == [pc |-> "walk", n |-> n, closed |-> plan.done, seg |-> None]
<1>3. opened /\ starts' = starts /\ ended' = ended
  BY DEF Ask, learned
<1>4. n \in 1..Len(plan.cuts) /\ plan.done \in BOOLEAN
  BY <1>1, <1>2 DEF ListInv, Plans
<1>5. q \in ReqRecords /\ ReqOK(q)
  BY <1>3, <1>4 DEF ReqRecords, Stages, ReqOK
<1> HIDE DEF q
<1> QED BY <1>1, <1>2, <1>3, <1>5 DEF ReqsOK, q

LEMMA GiveUpStep ==
    ASSUME WalkInv, CutsInv, ReqInv, NEW r \in Requests, GiveUp(r)
    PROVE  Learned(starts', ended') /\ ReqsOK(req')
<1>1. Learned(starts, ended) /\ ReqsOK(req)
  BY ReqFacts
<1>2. req' = [req EXCEPT ![r] = NoReq] /\ starts' = starts /\ ended' = ended
  BY DEF GiveUp, learned
<1>3. NoReq \in ReqRecords /\ ReqOK(NoReq)
  BY DEF NoReq, ReqRecords, Stages, ReqOK
<1> QED BY <1>1, <1>2, <1>3 DEF ReqsOK

LEMMA WalkWindowStep ==
    ASSUME WalkInv, CutsInv, ReqInv, NEW r \in Requests, WalkWindow(r)
    PROVE  Learned(starts', ended') /\ ReqsOK(req')
<1> DEFINE n == req[r].n
           w == walkWindow(n)
           seg == [frames |-> w.frames, next |-> w.next, open |-> -1, end |-> -1]
           pc == IF file.grid /\ w.frames["a"] # <<>> THEN "open" ELSE "answered"
<1>1. /\ file \in Files /\ written \in 0..Len(file.blocks) /\ plan \in Plans /\ Len(plan.cuts) \in Nat
      /\ (file.grid => "a" \in file.tracks) /\ Learned(starts, ended) /\ ReqsOK(req)
  BY ReqFacts
<1>2. req[r].pc = "walk" /\ ended' = w.ended /\ Step(r, seg, pc) /\ starts' = starts
  BY DEF WalkWindow
<1>3. n \in 1..Len(plan.cuts)
  BY <1>1, <1>2 DEF ReqsOK, ReqOK
<1>4. ended \in [file.tracks -> Nat \union {-1}]
  BY <1>1 DEF Learned
<1>5. WindowTyped(n, w)
  BY <1>1, <1>3, <1>4, WindowType
<1> HIDE DEF w, n
<1>6. seg \in Segments /\ seg.frames = w.frames /\ seg.next = w.next
  BY <1>5 DEF WindowTyped, Segments
<1>7. pc \in {"open", "end"} =>
        file.grid /\ seg.frames["a"] # <<>> /\ (seg.next["a"] >= 0 => req[r].n < Len(plan.cuts))
  BY <1>1, <1>5, <1>6 DEF WindowTyped, n
<1>8. pc \in {"open", "end", "answered"}
  OBVIOUS
<1> HIDE DEF seg, pc
<1>9. ReqsOK(req')
  BY <1>1, <1>2, <1>6, <1>7, <1>8, Stepped
<1>10. Learned(starts', ended')
  BY <1>1, <1>2, <1>5 DEF Learned, WindowTyped
<1> QED BY <1>9, <1>10

LEMMA GridOpensStep ==
    ASSUME WalkInv, CutsInv, ReqInv, NEW r \in Requests, GridOpens(r)
    PROVE  Learned(starts', ended') /\ ReqsOK(req')
<1> DEFINE n == req[r].n
           seg == req[r].seg
           pts == seg.frames["a"]
           before == n > 1 /\ gridJitter(pts)
           w == walkWindow(n - 1)
           prevEnd == IF before /\ w.frames["a"] # <<>> THEN gridColdEnd(w.frames["a"]) ELSE -1
           to == [seg EXCEPT !.open = starts'[n]]
<1>1. /\ file \in Files /\ written \in 0..Len(file.blocks) /\ plan \in Plans /\ Len(plan.cuts) \in Nat
      /\ (file.grid => "a" \in file.tracks) /\ Learned(starts, ended) /\ ReqsOK(req)
      /\ plan.cuts \in Seq(Cut) /\ Len(PlannedCuts(file)) \in Nat /\ Len(plan.cuts) <= Len(PlannedCuts(file))
  BY ReqFacts
<1>2. /\ req[r].pc = "open" /\ Step(r, to, "end")
      /\ IF starts[n] >= 0 THEN UNCHANGED learned
         ELSE /\ starts' = learnGridStart(starts, n, gridOpen(pts, prevEnd))
              /\ ended' = IF before THEN w.ended ELSE ended
  BY DEF GridOpens
<1>3. /\ n \in 1..Len(plan.cuts) /\ file.grid /\ seg \in Segments /\ pts # <<>>
      /\ (seg.next["a"] >= 0 => n < Len(plan.cuts))
  BY <1>1, <1>2 DEF ReqsOK, ReqOK
<1>4. /\ starts \in [1..Len(PlannedCuts(file)) -> Nat \union {-1}] /\ ended \in [file.tracks -> Nat \union {-1}]
  BY <1>1 DEF Learned
<1>5. pts \in Seq(Nat)
  BY <1>1, <1>3 DEF Segments
<1>6. before => WindowTyped(n - 1, w)
  <2> SUFFICES ASSUME n > 1 PROVE WindowTyped(n - 1, w)
    OBVIOUS
  <2>1. n - 1 \in 1..Len(plan.cuts)
    BY <1>1, <1>3
  <2> QED BY <1>1, <1>4, <2>1, WindowType
<1> HIDE DEF w, n, pts
<1>7. prevEnd \in Nat \union {-1}
  <2>1. CASE before /\ w.frames["a"] # <<>>
    <3>1. w.frames["a"] \in Seq(Nat)
      BY <1>1, <1>3, <1>6, <2>1 DEF WindowTyped
    <3>2. gridColdEnd(w.frames["a"]) \in Nat
      BY <2>1, <3>1, GridOpenType
    <3> QED BY <2>1, <3>2
  <2>2. CASE ~(before /\ w.frames["a"] # <<>>)
    BY <2>2
  <2> QED BY <2>1, <2>2
<1> HIDE DEF prevEnd
<1>8. gridOpen(pts, prevEnd) \in Nat
  BY <1>3, <1>5, <1>7, GridOpenType
<1>9. /\ Learned(starts', ended') /\ starts'[n] \in Nat
  <2>1. CASE starts[n] >= 0
    <3>1. starts' = starts /\ ended' = ended
      BY <1>2, <2>1 DEF learned
    <3>2. n \in 1..Len(PlannedCuts(file))
      BY <1>1, <1>3
    <3>3. starts[n] \in Nat
      BY <1>4, <2>1, <3>2
    <3> QED BY <1>1, <3>1, <3>3
  <2>2. CASE ~(starts[n] >= 0)
    <3>1. /\ starts' = learnGridStart(starts, n, gridOpen(pts, prevEnd))
          /\ ended' = IF before THEN w.ended ELSE ended
      BY <1>2, <2>2
    <3>2. starts' \in [1..Len(PlannedCuts(file)) -> Nat \union {-1}] /\ starts'[n] \in Nat
      BY <1>1, <1>3, <1>4, <1>8, <3>1, LearnType
    <3>3. ended' \in [file.tracks -> Nat \union {-1}]
      BY <1>4, <1>6, <3>1 DEF WindowTyped
    <3> QED BY <3>2, <3>3 DEF Learned
  <2> QED BY <2>1, <2>2
<1>10. to \in Segments /\ to.frames = seg.frames /\ to.next = seg.next
  BY <1>3, <1>9 DEF Segments
<1> HIDE DEF to
<1>11. ReqsOK(req')
  <2>1. file.grid /\ to.frames["a"] # <<>> /\ (to.next["a"] >= 0 => req[r].n < Len(plan.cuts))
    BY <1>3, <1>10 DEF n, pts
  <2> HIDE DEF seg
  <2> QED BY <1>1, <1>2, <1>10, <2>1, Stepped
<1> QED BY <1>9, <1>11

LEMMA GridEndsStep ==
    ASSUME WalkInv, CutsInv, ReqInv, NEW r \in Requests, GridEnds(r)
    PROVE  Learned(starts', ended') /\ ReqsOK(req')
<1> DEFINE n == req[r].n
           seg == req[r].seg
           next == seg.next["a"]
           cold == gridColdEnd(seg.frames["a"])
           skips == n + 2 <= Len(plan.cuts) /\ next >= plan.cuts[n+2].ms
           after == cold > gridIndex(next)
           w == walkWindow(n + 1)
           end == IF after /\ w.frames["a"] # <<>> THEN gridOpen(w.frames["a"], cold) ELSE gridIndex(next)
           To(e) == [seg EXCEPT !.end = e]
<1>1. /\ file \in Files /\ written \in 0..Len(file.blocks) /\ plan \in Plans /\ Len(plan.cuts) \in Nat
      /\ (file.grid => "a" \in file.tracks) /\ Learned(starts, ended) /\ ReqsOK(req)
      /\ plan.cuts \in Seq(Cut) /\ Len(PlannedCuts(file)) \in Nat /\ Len(plan.cuts) <= Len(PlannedCuts(file))
  BY ReqFacts
<1>2. /\ req[r].pc = "end"
      /\ \/ /\ next < 0
            /\ Step(r, seg, "answered") /\ UNCHANGED learned
         \/ /\ next >= 0 /\ starts[n+1] >= 0
            /\ Step(r, To(starts[n+1]), "answered") /\ UNCHANGED learned
         \/ /\ next >= 0 /\ starts[n+1] < 0 /\ skips
            /\ Step(r, To(gridIndex(next)), "answered") /\ UNCHANGED learned
         \/ /\ next >= 0 /\ starts[n+1] < 0 /\ ~skips
            /\ Step(r, To(end), "answered")
            /\ starts' = learnGridStart(starts, n + 1, end)
            /\ ended' = IF after THEN w.ended ELSE ended
  BY DEF GridEnds
<1>3. /\ n \in 1..Len(plan.cuts) /\ file.grid /\ seg \in Segments /\ seg.frames["a"] # <<>>
      /\ (next >= 0 => n < Len(plan.cuts))
  BY <1>1, <1>2 DEF ReqsOK, ReqOK
<1>4. /\ starts \in [1..Len(PlannedCuts(file)) -> Nat \union {-1}] /\ ended \in [file.tracks -> Nat \union {-1}]
  BY <1>1 DEF Learned
<1>5. seg.frames["a"] \in Seq(Nat) /\ next \in Nat \union {-1}
  BY <1>1, <1>3 DEF Segments
<1>6. cold \in Nat
  BY <1>3, <1>5, GridOpenType
<1>7. ASSUME NEW e \in Nat \union {-1} PROVE To(e) \in Segments
  BY <1>3, <1>7 DEF Segments
<1> HIDE DEF w, cold, To
<1>8. ASSUME NEW s \in Segments, Step(r, s, "answered") PROVE ReqsOK(req')
  BY <1>1, <1>2, <1>8, Stepped
<1>9. ASSUME UNCHANGED learned PROVE Learned(starts', ended')
  BY <1>1, <1>9 DEF learned
<1>10. CASE next < 0 /\ Step(r, seg, "answered") /\ UNCHANGED learned
  BY <1>3, <1>8, <1>9, <1>10
<1>11. ASSUME next >= 0
       PROVE  /\ n + 1 \in 1..Len(plan.cuts) /\ n + 1 \in 1..Len(PlannedCuts(file))
              /\ gridIndex(next) \in Nat /\ WindowTyped(n + 1, w)
  <2>1. n + 1 \in 1..Len(plan.cuts) /\ n + 1 \in 1..Len(PlannedCuts(file)) /\ next \in Nat
    <3> HIDE DEF n, next
    <3> QED BY <1>1, <1>3, <1>5, <1>11
  <2>2. WindowTyped(n + 1, w)
    BY <1>1, <1>4, <2>1, WindowType DEF w
  <2>3. gridIndex(next) \in Nat
    BY <2>1, GridIndexNat
  <2> QED BY <2>1, <2>2, <2>3
<1>12. CASE next >= 0 /\ starts[n+1] >= 0 /\ Step(r, To(starts[n+1]), "answered") /\ UNCHANGED learned
  <2>1. starts[n+1] \in Nat \union {-1}
    BY <1>4, <1>11, <1>12
  <2> HIDE DEF n
  <2> QED BY <1>7, <1>8, <1>9, <1>12, <2>1
<1>13. CASE next >= 0 /\ skips /\ Step(r, To(gridIndex(next)), "answered") /\ UNCHANGED learned
  <2>1. gridIndex(next) \in Nat \union {-1}
    BY <1>11, <1>13
  <2> QED BY <1>7, <1>8, <1>9, <1>13, <2>1
<1>14. CASE /\ next >= 0 /\ Step(r, To(end), "answered")
            /\ starts' = learnGridStart(starts, n + 1, end)
            /\ ended' = IF after THEN w.ended ELSE ended
  <2>1. end \in Nat
    <3>1. CASE after /\ w.frames["a"] # <<>>
      <4>1. w.frames["a"] \in Seq(Nat)
        BY <1>1, <1>3, <1>11, <1>14 DEF WindowTyped
      <4>2. gridOpen(w.frames["a"], cold) \in Nat
        BY <1>6, <3>1, <4>1, GridOpenType
      <4> QED BY <3>1, <4>2
    <3>2. CASE ~(after /\ w.frames["a"] # <<>>)
      BY <1>11, <1>14, <3>2
    <3> QED BY <3>1, <3>2
  <2> HIDE DEF end, next, n
  <2>2. ReqsOK(req')
    BY <1>7, <1>8, <1>14, <2>1
  <2>3. starts' \in [1..Len(PlannedCuts(file)) -> Nat \union {-1}]
    BY <1>1, <1>4, <1>11, <1>14, <2>1, LearnType
  <2>4. ended' \in [file.tracks -> Nat \union {-1}]
    <3> HIDE DEF after
    <3> QED BY <1>4, <1>11, <1>14 DEF WindowTyped
  <2> QED BY <2>2, <2>3, <2>4 DEF Learned
<1> QED BY <1>2, <1>10, <1>12, <1>13, <1>14

\* A step that is no request's leaves the requests and what they learned as they were, and no cut goes.
LEMMA ReqStep == WalkInv /\ CutsInv /\ ListInv /\ ReqInv /\ [Next]_vars => ReqInv'
<1> SUFFICES ASSUME WalkInv, CutsInv, ListInv, ReqInv, [Next]_vars PROVE ReqInv'
  OBVIOUS
<1>1. CASE Quiet /\ Learned(starts', ended') /\ ReqsOK(req')
  <2>1. file' = file /\ opened' = opened /\ plan' = plan
    BY <1>1 DEF Quiet
  <2>2. Segments' = Segments
    BY <2>1 DEF Segments
  <2>3. ReqRecords' = ReqRecords
    BY <2>2 DEF ReqRecords
  <2>4. PlannedCuts(file)' = PlannedCuts(file)
    BY <2>1
  <2>5. ASSUME NEW r \in Requests PROVE ReqOK(req[r])'
    <3>1. ReqOK(req'[r])
      BY <1>1 DEF ReqsOK
    <3> QED BY <2>1, <2>2, <3>1 DEF ReqOK
  <2>6. req' \in [Requests -> ReqRecords']
    BY <1>1, <2>3 DEF ReqsOK
  <2> QED BY <1>1, <2>1, <2>5, <2>6 DEF ReqInv, Learned
<1>2. CASE UNCHANGED <<file, starts, ended, req>>
  <2>1. Segments' = Segments
    BY <1>2 DEF Segments
  <2>2. ReqRecords' = ReqRecords
    BY <2>1 DEF ReqRecords
  <2>3. ASSUME NEW r \in Requests PROVE ReqOK(req[r])'
    <3>1. ReqOK(req[r]) /\ req'[r] = req[r] /\ req[r] \in ReqRecords
      BY <1>2 DEF ReqInv
    <3>2. Len(plan.cuts) \in Nat /\ req[r].n \in Nat
      BY <3>1, ReqFacts DEF ReqRecords
    <3>3. opened => opened' /\ Len(plan'.cuts) \in Nat /\ Len(plan.cuts) <= Len(plan'.cuts)
      BY CutsGrow
    <3> QED BY <1>2, <2>1, <3>1, <3>2, <3>3 DEF ReqOK
  <2> QED BY <1>2, <2>2, <2>3 DEF ReqInv
<1>3. CASE (\E r \in Requests : Ask(r) \/ Serve(r)) \/ UNCHANGED vars
  <2>1. Quiet
    BY <1>3, RequestMoves
  <2>2. CASE UNCHANGED vars
    BY <1>2, <2>2 DEF vars, filevars, learned
  <2>3. ASSUME NEW r \in Requests, Ask(r) PROVE ReqInv'
    BY <1>1, <2>1, <2>3, AskStep
  <2>4. ASSUME NEW r \in Requests, Serve(r) PROVE ReqInv'
    <3>1. GiveUp(r) \/ WalkWindow(r) \/ GridOpens(r) \/ GridEnds(r)
      BY <2>4 DEF Serve
    <3>2. Learned(starts', ended') /\ ReqsOK(req')
      BY <3>1, GiveUpStep, WalkWindowStep, GridOpensStep, GridEndsStep
    <3> QED BY <1>1, <2>1, <3>2
  <2> QED BY <1>3, <2>2, <2>3, <2>4
<1>4. CASE Write
  BY <1>2, <1>4, WriteMoves DEF Quiet
<1>5. CASE Refresh \/ Complete
  BY <1>2, <1>5, BeginMoves DEF BeginMoved, Apart
<1>6. CASE Scanning
  <2>1. Apart
    BY <1>6, BlockMoves, ClusterMoves, FinalMoves, RestMoves, FailMoves
       DEF Scanning, BlockMoved, ClusterMoved, FinalMoved, RestMoved, FailMoved
  <2> QED BY <1>2, <2>1 DEF Apart
<1> QED BY <1>3, <1>4, <1>5, <1>6 DEF Next

-----------------------------------------------------------------------------
(* The bounds.                                                              *)

BoundsInv == WalkInv /\ CutsInv /\ ListInv /\ ReqInv /\ CountInv

LEMMA BoundsInvType == BoundsInv => TypeOK
<1> SUFFICES ASSUME BoundsInv PROVE TypeOK
  OBVIOUS
<1>1. WalkInv /\ CutsInv /\ ListInv /\ ReqInv /\ CountInv
  BY DEF BoundsInv
<1>2. /\ file \in Files /\ Whole \in 0..Len(file.ends) /\ Len(file.blocks) \in Nat /\ Base \in 0..Len(file.blocks)
      /\ scan.at \in Nat /\ scan.size \in Nat /\ plan.cursor \in Nat /\ Len(plan.cuts) \in Nat
  BY <1>1, WalkFacts DEF WalkInv
<1>3. scan.at \in 0..Len(file.blocks)
  <2>1. CASE scan.at = 0
    BY <1>2, <2>1
  <2>2. CASE scan.at > 0
    <3>1. Walking /\ scan.at <= Len(Cluster)
      BY <1>1, <2>2 DEF WalkInv
    <3>2. /\ Len(Cluster) = file.ends[plan.cursor + 1] - Base
          /\ file.ends[plan.cursor + 1] \in Base..Len(file.blocks)
      BY <1>1, <3>1, ClusterFacts
    <3> QED BY <1>2, <3>1, <3>2
  <2> QED BY <1>2, <2>1, <2>2
<1>4. /\ scan.pc \in {"idle", "scan", "close"} /\ scan.size \in 0..Whole
      /\ plan.cursor \in 0..Whole /\ plan.gridWin \in 0..Len(plan.cuts) /\ plan.met \subseteq file.tracks
      /\ plan.published \in 0..Len(plan.cuts)
  <2>1. /\ plan.gridWin \in Nat /\ plan.published \in Nat /\ plan.gridWin <= Len(plan.cuts)
        /\ plan.published <= Len(plan.cuts) /\ plan.met \subseteq file.tracks
        /\ scan.size <= Whole /\ plan.cursor <= Whole /\ scan.pc \in {"idle", "scan", "close"}
    BY <1>1 DEF WalkInv, ListInv, Plans, Scans
  <2> QED BY <1>2, <2>1
<1>5. starts \in [Windows -> Nat \union {-1}] /\ ended \in [file.tracks -> Nat \union {-1}]
  BY <1>1 DEF ReqInv, Windows
<1>6. ASSUME NEW r \in Requests
      PROVE  /\ req[r].pc \in {"idle", "walk", "open", "end", "answered"}
             /\ req[r].pc \in {"open", "end", "answered"} => req[r].seg \in Segments
  BY <1>1 DEF ReqInv, ReqRecords, Stages, ReqOK
<1>7. file \in Files /\ written \in 0..Len(file.blocks) /\ trailer \in BOOLEAN
  BY <1>1 DEF WalkInv
<1> QED BY <1>1, <1>3, <1>4, <1>5, <1>6, <1>7 DEF TypeOK, CountInv

LEMMA BoundsInvPlanned == BoundsInv => BoundsArePlanned
<1> SUFFICES ASSUME BoundsInv PROVE BoundsArePlanned
  OBVIOUS
<1>1. WalkInv /\ CutsInv /\ ReqInv
  BY DEF BoundsInv
<1>2. file \in Files /\ IsPrefix(plan.cuts, PlannedCuts(file)) /\ Covers(file, plan.cuts, Base)
  BY <1>1, ReqFacts
<1>3. Finished[file].cuts = PlannedCuts(file)
  BY <1>2 DEF Finished
<1>4. plan.cursor = Len(file.ends) => plan.cuts = PlannedCuts(file)
  <2>1. Base \in 0..Len(file.blocks) /\ (plan.cursor = Len(file.ends) => Base = Len(file.blocks))
    BY <1>1, WalkFacts
  <2> QED BY <1>2, <2>1, CoversPlanned
<1>5. TypeOK
  BY BoundsInvType
<1> QED BY <1>2, <1>3, <1>4, <1>5 DEF BoundsArePlanned

LEMMA BoundsInvariant == Spec => []BoundsInv
<1>1. Init => BoundsInv
  BY WalkInit, CutsInit, ListInit, ReqInit, CountInit DEF BoundsInv
<1>2. BoundsInv /\ [Next]_vars => BoundsInv'
  BY WalkStep, CutsStep, ListStep, ReqStep, CountStep DEF BoundsInv
<1> QED BY <1>1, <1>2, PTL DEF Spec

\* For every file and whatever interrupts the scans, the cuts found while the file grows are the first of those
\* PlanHLS plans of the finished one, and all of them once the cursor is past its last cluster.
THEOREM BoundsAsPlanned == Spec => []BoundsArePlanned
<1>1. Spec => []BoundsInv
  BY BoundsInvariant
<1>2. BoundsInv => BoundsArePlanned
  BY BoundsInvPlanned
<1> QED BY <1>1, <1>2, PTL

-----------------------------------------------------------------------------
(* The times of a track, as far as the file is written.                     *)

Heard(t, f, i) == TimesOf(t, SubSeq(f.blocks, 1, i))
Begins(s, u) == Len(s) <= Len(u) /\ \A i \in 1..Len(s) : s[i] = u[i]

NextHeard(t, f, i) ==
  /\ f.blocks[i].ms \in Nat
  /\ Heard(t, f, i) = IF f.blocks[i].t = t THEN Append(Heard(t, f, i - 1), f.blocks[i].ms) ELSE Heard(t, f, i - 1)

LEMMA HeardSteps ==
    ASSUME NEW f \in Files, NEW t
    PROVE  /\ Heard(t, f, 0) = <<>> /\ Heard(t, f, Len(f.blocks)) = TimesOf(t, f.blocks)
           /\ \A i \in 0..Len(f.blocks) : Heard(t, f, i) \in Seq(Nat)
           /\ \A i \in 1..Len(f.blocks) : NextHeard(t, f, i)
<1> DEFINE n == Len(f.blocks)
           Times(own) == [i \in DOMAIN own |-> own[i].ms]
<1>1. /\ n \in Nat /\ f.blocks \in Seq(Blocks) /\ OfTo(t, f, 0) = <<>> /\ OfTo(t, f, n) = Of(t, f.blocks)
      /\ \A i \in 0..n : OfTo(t, f, i) \in Seq(Blocks)
      /\ \A i \in 1..n :
           OfTo(t, f, i) = IF f.blocks[i].t = t THEN Append(OfTo(t, f, i - 1), f.blocks[i]) ELSE OfTo(t, f, i - 1)
  BY FileTypes, OfSteps
<1>2. /\ \A i \in 0..n : Heard(t, f, i) = Times(OfTo(t, f, i))
      /\ TimesOf(t, f.blocks) = Times(Of(t, f.blocks))
  BY DEF Heard, TimesOf, OfTo
<1>3. \A own \in Seq(Blocks) : Times(own) \in Seq(Nat) /\ Len(Times(own)) = Len(own)
  <2> TAKE own \in Seq(Blocks)
  <2>1. DOMAIN own = 1..Len(own) /\ Len(own) \in Nat /\ \A i \in 1..Len(own) : own[i].ms \in Nat
    <3>1. \A i \in 1..Len(own) : own[i] \in Blocks
      OBVIOUS
    <3> QED BY <3>1 DEF Blocks
  <2>2. Times(own) \in [1..Len(own) -> Nat]
    BY <2>1
  <2> HIDE DEF Times
  <2> QED BY <2>1, <2>2
<1>4. \A own \in Seq(Blocks), b \in Blocks : Times(Append(own, b)) = Append(Times(own), b.ms)
  <2> TAKE own \in Seq(Blocks), b \in Blocks
  <2> DEFINE u == Append(own, b)
             l == Times(u)
             r == Append(Times(own), b.ms)
  <2>1. /\ u \in Seq(Blocks) /\ Len(u) = Len(own) + 1 /\ u[Len(own) + 1] = b /\ \A i \in 1..Len(own) : u[i] = own[i]
        /\ DOMAIN u = 1..Len(own)+1 /\ DOMAIN own = 1..Len(own) /\ Len(own) \in Nat
    OBVIOUS
  <2> HIDE DEF u
  <2>2. l \in Seq(Nat) /\ Len(l) = Len(own) + 1 /\ Times(own) \in Seq(Nat) /\ Len(Times(own)) = Len(own) /\ b.ms \in Nat
    BY <1>3, <2>1 DEF Blocks
  <2>3. \A i \in 1..Len(own)+1 : l[i] = u[i].ms
    BY <2>1
  <2>4. \A i \in 1..Len(own) : Times(own)[i] = own[i].ms
    BY <2>1
  <2> HIDE DEF Times
  <2>5. r \in Seq(Nat) /\ Len(r) = Len(own) + 1 /\ r[Len(own) + 1] = b.ms /\ \A i \in 1..Len(own) : r[i] = Times(own)[i]
    BY <2>2
  <2> HIDE DEF l, r
  <2>6. ASSUME NEW i \in 1..Len(own)+1 PROVE l[i] = r[i]
    <3>1. l[i] = u[i].ms
      BY <2>3
    <3>2. CASE i = Len(own) + 1
      BY <2>1, <2>5, <3>1, <3>2
    <3>3. CASE i \in 1..Len(own)
      <4>1. r[i] = Times(own)[i] /\ Times(own)[i] = own[i].ms /\ u[i] = own[i]
        BY <2>1, <2>4, <2>5, <3>3
      <4> QED BY <3>1, <4>1
    <3> QED BY <2>1, <3>2, <3>3
  <2>7. l = r
    <3>1. l \in Seq(Nat) /\ r \in Seq(Nat) /\ Len(l) = Len(r) /\ \A i \in 1..Len(l) : l[i] = r[i]
      BY <2>2, <2>5, <2>6
    <3> QED BY <3>1, SeqEqual, Zenon
  <2> QED BY <2>7 DEF l, r, u
<1>5. Times(<<>>) = <<>>
  <2>1. <<>> \in Seq(Blocks) /\ Len(<<>>) = 0
    OBVIOUS
  <2>2. Times(<<>>) \in Seq(Nat) /\ Len(Times(<<>>)) = 0
    BY <1>3, <2>1
  <2> HIDE DEF Times
  <2> QED BY <2>2
<1> HIDE DEF Times
<1>6. 0 \in 0..n /\ n \in 0..n /\ \A i \in 1..n : i \in 0..n /\ i - 1 \in 0..n /\ f.blocks[i] \in Blocks
  <2>1. \A i \in 1..n : f.blocks[i] \in Blocks
    BY <1>1
  <2> QED BY <1>1, <2>1
<1>7. \A i \in 0..n : Heard(t, f, i) \in Seq(Nat)
  BY <1>1, <1>2, <1>3
<1>8. ASSUME NEW i \in 1..n PROVE NextHeard(t, f, i)
  <2>1. /\ Heard(t, f, i) = Times(OfTo(t, f, i)) /\ Heard(t, f, i - 1) = Times(OfTo(t, f, i - 1))
        /\ OfTo(t, f, i - 1) \in Seq(Blocks) /\ f.blocks[i] \in Blocks
    BY <1>1, <1>2, <1>6
  <2>2. Times(Append(OfTo(t, f, i - 1), f.blocks[i])) = Append(Times(OfTo(t, f, i - 1)), f.blocks[i].ms)
    BY <1>4, <2>1
  <2>3. OfTo(t, f, i) = IF f.blocks[i].t = t THEN Append(OfTo(t, f, i - 1), f.blocks[i]) ELSE OfTo(t, f, i - 1)
    BY <1>1
  <2>4. f.blocks[i].ms \in Nat
    BY <2>1 DEF Blocks
  <2> QED BY <2>1, <2>2, <2>3, <2>4 DEF NextHeard
<1> QED BY <1>1, <1>2, <1>5, <1>6, <1>7, <1>8

\* The times heard first begin those heard later.
LEMMA HeardGrows ==
    ASSUME NEW f \in Files, NEW t, NEW i \in 0..Len(f.blocks), NEW j \in i..Len(f.blocks)
    PROVE  Begins(Heard(t, f, i), Heard(t, f, j))
<1> DEFINE n == Len(f.blocks)
           S == {d \in 0..n-i : Begins(Heard(t, f, i), Heard(t, f, i + d))}
<1>1. n \in Nat /\ \A k \in 0..n : Heard(t, f, k) \in Seq(Nat)
  BY FileTypes, HeardSteps
<1>2. \A k \in 1..n : /\ f.blocks[k].ms \in Nat
                      /\ Heard(t, f, k) = IF f.blocks[k].t = t THEN Append(Heard(t, f, k - 1), f.blocks[k].ms)
                                          ELSE Heard(t, f, k - 1)
  <2>1. \A k \in 1..n : NextHeard(t, f, k)
    BY HeardSteps
  <2> QED BY <2>1 DEF NextHeard
<1> HIDE DEF n
<1>3. i \in 0..n /\ j \in i..n /\ n - i \in Nat
  BY <1>1 DEF n
<1>4. 0 \in S
  <2>1. i + 0 = i /\ 0 \in 0..n-i /\ Len(Heard(t, f, i)) \in Nat
    BY <1>1, <1>3
  <2>2. Begins(Heard(t, f, i), Heard(t, f, i))
    BY <2>1 DEF Begins
  <2> QED BY <2>1, <2>2
<1>5. ASSUME NEW d \in 1..n-i, d - 1 \in S PROVE d \in S
  <2>1. i + d \in 1..n /\ i + (d - 1) = i + d - 1 /\ i + d - 1 \in 0..n /\ d \in 0..n-i
    BY <1>1, <1>3
  <2> DEFINE k == i + d
             s == Heard(t, f, i)
             u == Heard(t, f, k - 1)
  <2>2. s \in Seq(Nat) /\ u \in Seq(Nat) /\ Begins(s, u) /\ f.blocks[k].ms \in Nat
    BY <1>1, <1>2, <1>3, <1>5, <2>1
  <2>3. Heard(t, f, k) = u \/ Heard(t, f, k) = Append(u, f.blocks[k].ms)
    BY <1>2, <2>1
  <2> HIDE DEF s, u, k
  <2>4. Begins(s, Append(u, f.blocks[k].ms))
    BY <2>2 DEF Begins
  <2>5. Begins(s, Heard(t, f, k))
    BY <2>2, <2>3, <2>4
  <2> QED BY <2>1, <2>5 DEF s, k
<1>6. \A d \in 0..n-i : d \in S
  <2> HIDE DEF S
  <2> QED BY <1>3, <1>4, <1>5, UpTo
<1>7. j - i \in 0..n-i /\ i + (j - i) = j
  BY <1>1, <1>3
<1> QED BY <1>6, <1>7

\* The times heard are those of the track's blocks.
HeardOf(t, f, i, h) ==
  /\ \A k \in 1..Len(h) : \E j \in 1..i : f.blocks[j].t = t /\ f.blocks[j].ms = h[k]
  /\ \A j \in 1..i : f.blocks[j].t = t => \E k \in 1..Len(h) : h[k] = f.blocks[j].ms

LEMMA HeardAre ==
    ASSUME NEW f \in Files, NEW t, NEW i \in 0..Len(f.blocks)
    PROVE  HeardOf(t, f, i, Heard(t, f, i))
<1> DEFINE n == Len(f.blocks)
           S == {k \in 0..n : HeardOf(t, f, k, Heard(t, f, k))}
<1>1. /\ n \in Nat /\ (\A k \in 0..n : Heard(t, f, k) \in Seq(Nat)) /\ Heard(t, f, 0) = <<>> /\ i \in 0..n
  BY FileTypes, HeardSteps
<1>2. \A k \in 1..n : /\ f.blocks[k].ms \in Nat
                      /\ Heard(t, f, k) = IF f.blocks[k].t = t THEN Append(Heard(t, f, k - 1), f.blocks[k].ms)
                                          ELSE Heard(t, f, k - 1)
  <2>1. \A k \in 1..n : NextHeard(t, f, k)
    BY HeardSteps
  <2> QED BY <2>1 DEF NextHeard
<1> HIDE DEF n
<1>3. 0 \in S
  <2>1. Len(<<>>) = 0 /\ 0 \in 0..n
    BY <1>1
  <2>2. HeardOf(t, f, 0, <<>>)
    BY <2>1 DEF HeardOf
  <2> QED BY <1>1, <2>1, <2>2
<1>4. ASSUME NEW k \in 1..n, k - 1 \in S PROVE k \in S
  <2> DEFINE h == Heard(t, f, k - 1)
             b == f.blocks[k]
  <2>1. k \in 0..n /\ k - 1 \in 0..n
    BY <1>1
  <2>2. h \in Seq(Nat) /\ HeardOf(t, f, k - 1, h) /\ b.ms \in Nat
    BY <1>1, <1>2, <1>4, <2>1
  <2>3. Heard(t, f, k) = IF b.t = t THEN Append(h, b.ms) ELSE h
    BY <1>2
  <2> HIDE DEF h
  <2>4. HeardOf(t, f, k, IF b.t = t THEN Append(h, b.ms) ELSE h)
    <3>1. CASE b.t # t
      <4>1. \A j \in 1..k : j \in 1..k-1 \/ j = k
        OBVIOUS
      <4>2. \A j \in 1..k-1 : j \in 1..k
        OBVIOUS
      <4> QED BY <2>2, <3>1, <4>1, <4>2 DEF HeardOf
    <3>2. CASE b.t = t
      <4> DEFINE u == Append(h, b.ms)
                 m == Len(h)
      <4>1. m \in Nat /\ Len(u) = m + 1 /\ u[m + 1] = b.ms /\ \A l \in 1..m : u[l] = h[l]
        BY <2>2
      <4> HIDE DEF u, m
      <4>2. (\A l \in 1..m+1 : l \in 1..m \/ l = m + 1) /\ (\A l \in 1..m : l \in 1..m+1) /\ m + 1 \in 1..m+1
        BY <4>1
      <4>3. (\A j \in 1..k : j \in 1..k-1 \/ j = k) /\ (\A j \in 1..k-1 : j \in 1..k) /\ k \in 1..k
        OBVIOUS
      <4>4. ASSUME NEW l \in 1..m+1 PROVE \E j \in 1..k : f.blocks[j].t = t /\ f.blocks[j].ms = u[l]
        BY <2>2, <3>2, <4>1, <4>2, <4>3 DEF HeardOf, m
      <4>5. ASSUME NEW j \in 1..k, f.blocks[j].t = t PROVE \E l \in 1..m+1 : u[l] = f.blocks[j].ms
        <5>1. CASE j = k
          BY <4>1, <4>2, <5>1
        <5>2. CASE j \in 1..k-1
          <6>1. PICK l \in 1..m : h[l] = f.blocks[j].ms
            BY <2>2, <4>5, <5>2 DEF HeardOf, m
          <6> QED BY <4>1, <4>2, <6>1
        <5> QED BY <4>3, <5>1, <5>2
      <4>6. HeardOf(t, f, k, u)
        BY <4>1, <4>4, <4>5 DEF HeardOf
      <4> QED BY <3>2, <4>6 DEF u
    <3> QED BY <3>1, <3>2
  <2> QED BY <2>1, <2>3, <2>4
<1>5. \A k \in 0..n : k \in S
  <2> HIDE DEF S
  <2> QED BY <1>1, <1>3, <1>4, UpTo
<1> QED BY <1>1, <1>5

-----------------------------------------------------------------------------
(* The first time at or past another.                                       *)

LEMMA FirstAtOf ==
    ASSUME NEW pts \in Seq(Nat), NEW ms \in Nat, NEW k \in 1..Len(pts)+1,
           \A i \in 1..Len(pts) : i < k => pts[i] < ms, k <= Len(pts) => pts[k] >= ms
    PROVE  FirstAt(pts, ms) = k
<1> DEFINE n == Len(pts)
           m == FirstAt(pts, ms)
<1>1. n \in Nat /\ m \in 1..n+1 /\ (m <= n => pts[m] >= ms) /\ \A i \in 1..n : pts[i] \in Nat
  BY FirstAtIs
<1>2. \A i \in 1..n : i < m => ~(pts[i] >= ms)
  BY FirstAtIs
<1> HIDE DEF m, n
<1>3. ~(m < k)
  <2> SUFFICES ASSUME m < k PROVE FALSE
    OBVIOUS
  <2>1. m \in 1..n
    BY <1>1 DEF n
  <2>2. pts[m] < ms /\ pts[m] >= ms /\ pts[m] \in Nat
    BY <1>1, <2>1 DEF n
  <2> QED BY <2>2
<1>4. ~(k < m)
  <2> SUFFICES ASSUME k < m PROVE FALSE
    OBVIOUS
  <2>1. k \in 1..n /\ k <= Len(pts)
    BY <1>1 DEF n
  <2>2. pts[k] >= ms /\ ~(pts[k] >= ms)
    BY <1>2, <2>1
  <2> QED BY <2>2
<1>5. k \in 1..n+1
  BY DEF n
<1>6. m = k
  BY <1>1, <1>3, <1>4, <1>5
<1> QED BY <1>6 DEF m

\* The same, as facts of numbers.
FirstIs(pts, ms, k) ==
  /\ k \in 1..Len(pts)+1 /\ \A i \in 1..Len(pts) : i < k => pts[i] < ms
  /\ k <= Len(pts) => pts[k] >= ms
LEMMA FirstAtFirst == ASSUME NEW pts \in Seq(Nat), NEW ms \in Nat PROVE FirstIs(pts, ms, FirstAt(pts, ms))
<1> DEFINE n == Len(pts)
           m == FirstAt(pts, ms)
<1>1. n \in Nat /\ m \in 1..n+1 /\ (m <= n => pts[m] >= ms) /\ \A i \in 1..n : pts[i] \in Nat
  BY FirstAtIs
<1>2. \A i \in 1..n : i < m => ~(pts[i] >= ms)
  BY FirstAtIs
<1> HIDE DEF m
<1>3. \A i \in 1..n : i < m => pts[i] < ms
  BY <1>1, <1>2
<1> QED BY <1>1, <1>3 DEF FirstIs, m, n

LEMMA FirstAtLater ==
    ASSUME NEW pts \in Seq(Nat), NEW x \in Nat, NEW y \in Nat, x <= y
    PROVE  FirstAt(pts, x) <= FirstAt(pts, y)
<1> DEFINE n == Len(pts)
           k == FirstAt(pts, x)
           m == FirstAt(pts, y)
<1>1. FirstIs(pts, x, k) /\ FirstIs(pts, y, m) /\ n \in Nat /\ \A i \in 1..n : pts[i] \in Nat
  BY FirstAtFirst
<1> HIDE DEF k, m
<1>2. ~(m < k)
  <2> SUFFICES ASSUME m < k PROVE FALSE
    OBVIOUS
  <2>1. m \in 1..n /\ k \in 1..n+1 /\ m <= Len(pts)
    BY <1>1 DEF FirstIs
  <2>2. pts[m] < x /\ pts[m] >= y /\ pts[m] \in Nat
    BY <1>1, <2>1 DEF FirstIs
  <2> QED BY <2>2
<1> QED BY <1>1, <1>2 DEF FirstIs, k, m

\* A sequence that begins another has the same first time, if it has it.
LEMMA FirstAtBegins ==
    ASSUME NEW s \in Seq(Nat), NEW u \in Seq(Nat), Begins(s, u), NEW ms \in Nat
    PROVE  /\ FirstAt(s, ms) <= Len(s) => FirstAt(u, ms) = FirstAt(s, ms)
           /\ FirstAt(s, ms) > Len(s) => FirstAt(u, ms) > Len(s)
<1> DEFINE k == FirstAt(s, ms)
           m == FirstAt(u, ms)
<1>1. /\ FirstIs(s, ms, k) /\ FirstIs(u, ms, m) /\ Len(s) \in Nat /\ Len(u) \in Nat /\ Len(s) <= Len(u)
      /\ \A i \in 1..Len(s) : s[i] = u[i]
  BY FirstAtFirst DEF Begins
<1>2. \A i \in 1..Len(s) : s[i] \in Nat
  OBVIOUS
<1> HIDE DEF m
<1>3. ASSUME k <= Len(s) PROVE FirstAt(u, ms) = k
  <2> HIDE DEF k
  <2>1. k \in 1..Len(u)+1 /\ k \in 1..Len(s) /\ u[k] >= ms
    BY <1>1, <1>3 DEF FirstIs
  <2>2. ASSUME NEW i \in 1..Len(u), i < k PROVE u[i] < ms
    <3>1. i \in 1..Len(s)
      BY <1>1, <2>1, <2>2
    <3> QED BY <1>1, <2>2, <3>1 DEF FirstIs
  <2> QED BY <2>1, <2>2, FirstAtOf
<1>4. ASSUME k > Len(s) PROVE m > Len(s)
  <2> HIDE DEF k
  <2> SUFFICES ASSUME ~(m > Len(s)) PROVE FALSE
    OBVIOUS
  <2>1. m \in 1..Len(s) /\ k \in 1..Len(s)+1 /\ m < k /\ m <= Len(u)
    BY <1>1, <1>4 DEF FirstIs
  <2>2. s[m] < ms /\ u[m] >= ms /\ s[m] = u[m] /\ s[m] \in Nat
    BY <1>1, <1>2, <2>1 DEF FirstIs
  <2> QED BY <2>2
<1> QED BY <1>3, <1>4 DEF m

\* A part of a sequence.
Slice(s, a, b, u) ==
  /\ u \in Seq(Nat) /\ Len(u) = IF a <= b THEN b - a + 1 ELSE 0
  /\ \A i \in 1..Len(u) : a + i - 1 \in a..b /\ u[i] = s[a + i - 1]
LEMMA SliceIs ==
    ASSUME NEW s \in Seq(Nat), NEW a \in Nat \ {0}, NEW b \in Nat, b <= Len(s)
    PROVE  Slice(s, a, b, SubSeq(s, a, b)) /\ (SubSeq(s, a, b) = <<>> <=> b < a)
<1> DEFINE u == SubSeq(s, a, b)
           n == IF a <= b THEN b - a + 1 ELSE 0
<1>1. n \in Nat /\ u = [i \in 1..n |-> s[a + i - 1]]
  OBVIOUS
<1>2. \A i \in 1..n : a + i - 1 \in a..b /\ a + i - 1 \in 1..Len(s) /\ s[a + i - 1] \in Nat
  OBVIOUS
<1> HIDE DEF n
<1>3. u \in [1..n -> Nat]
  BY <1>1, <1>2
<1>4. u \in Seq(Nat) /\ Len(u) = n /\ \A i \in 1..n : u[i] = s[a + i - 1]
  BY <1>1, <1>3
<1> HIDE DEF u
<1>5. u = <<>> <=> n = 0
  <2>1. Len(<<>>) = 0
    OBVIOUS
  <2>2. u \in Seq(Nat) /\ Len(u) = n
    BY <1>4
  <2> QED BY <2>1, <2>2
<1>6. n = 0 <=> b < a
  BY DEF n
<1> QED BY <1>2, <1>4, <1>5, <1>6 DEF Slice, u, n

LEMMA SliceSame ==
    ASSUME NEW s \in Seq(Nat), NEW u \in Seq(Nat), NEW a \in Nat \ {0}, NEW b \in Nat, Begins(s, u), b <= Len(s)
    PROVE  SubSeq(s, a, b) = SubSeq(u, a, b)
<1> DEFINE x == SubSeq(s, a, b)
           y == SubSeq(u, a, b)
<1>1. Len(s) \in Nat /\ Len(u) \in Nat /\ Len(s) <= Len(u) /\ (\A i \in 1..Len(s) : s[i] = u[i]) /\ b <= Len(u)
  BY DEF Begins
<1>2. Slice(s, a, b, x) /\ Slice(u, a, b, y)
  BY <1>1, SliceIs
<1> HIDE DEF x, y
<1>3. x \in Seq(Nat) /\ y \in Seq(Nat) /\ Len(x) = Len(y)
  BY <1>2 DEF Slice
<1>4. ASSUME NEW i \in 1..Len(x) PROVE x[i] = y[i]
  <2>1. a + i - 1 \in a..b /\ x[i] = s[a + i - 1] /\ i \in 1..Len(y)
    BY <1>2, <1>3 DEF Slice
  <2>2. y[i] = u[a + i - 1]
    BY <1>2, <2>1 DEF Slice
  <2>3. a + i - 1 \in 1..Len(s)
    BY <1>1, <2>1
  <2> QED BY <1>1, <2>1, <2>2, <2>3
<1>5. x = y
  BY <1>3, <1>4, SeqEqual, Zenon
<1> QED BY <1>5 DEF x, y

-----------------------------------------------------------------------------
(* The slots of a window's frames: each is the next one, or its own later.  *)

Climbs(pts, g) ==
  /\ g \in [1..Len(pts) -> Nat] /\ \A i \in 1..Len(pts) : gridIndex(pts[i]) \in Nat /\ g[i] >= gridIndex(pts[i])
  /\ Len(pts) >= 1 => g[1] = gridIndex(pts[1])
  /\ \A i \in 2..Len(pts) : g[i] >= g[i-1] + 1 /\ (g[i] = g[i-1] + 1 \/ g[i] = gridIndex(pts[i]))
LEMMA GridFramesClimb == ASSUME NEW pts \in Seq(Nat) PROVE Climbs(pts, gridFrames(pts))
<1> DEFINE g == gridFrames(pts)
           n == Len(pts)
           x(i) == gridIndex(pts[i])
           S == {i \in 0..n : i = 0 \/ g[i] >= x(i)}
<1>1. /\ n \in Nat /\ g \in [1..n -> Nat]
      /\ \A i \in 1..n : g[i] = IF i = 1 THEN x(1)
                                ELSE IF pts[i] = pts[i-1] \/ x(i) < g[i-1] + 1 THEN g[i-1] + 1
                                ELSE x(i)
  BY GridFramesAre DEF Slots
<1>2. \A i \in 1..n : x(i) \in Nat /\ g[i] \in Nat
  <2> TAKE i \in 1..n
  <2>1. pts[i] \in Nat
    OBVIOUS
  <2> QED BY <1>1, <2>1, GridIndexNat
<1>3. \A i \in 1..n : i # 1 /\ pts[i] = pts[i-1] => x(i) = x(i-1)
  OBVIOUS
<1> HIDE DEF g, n, x
<1>4. 0 \in S
  BY <1>1
<1>5. ASSUME NEW i \in 1..n, i - 1 \in S PROVE i \in S
  <2>1. i \in 0..n /\ (i # 1 => i - 1 \in 1..n /\ g[i-1] >= x(i-1))
    BY <1>1, <1>5
  <2>2. CASE i = 1
    <3>1. g[i] = x(i) /\ x(i) \in Nat
      BY <1>1, <1>2, <2>2
    <3> QED BY <2>1, <3>1
  <2>3. CASE i # 1
    <3>1. g[i-1] \in Nat /\ x(i) \in Nat /\ x(i-1) \in Nat /\ g[i-1] >= x(i-1)
      BY <1>2, <2>1, <2>3
    <3>2. (pts[i] = pts[i-1] \/ x(i) < g[i-1] + 1) => g[i] = g[i-1] + 1
      BY <1>1, <2>3
    <3>3. ~(pts[i] = pts[i-1] \/ x(i) < g[i-1] + 1) => g[i] = x(i)
      BY <1>1, <2>3
    <3>4. pts[i] = pts[i-1] => x(i) = x(i-1)
      BY <1>3, <2>3
    <3>5. g[i] >= x(i)
      BY <3>1, <3>2, <3>3, <3>4
    <3> QED BY <2>1, <3>5
  <2> QED BY <2>2, <2>3
<1>6. \A i \in 0..n : i \in S
  <2> HIDE DEF S
  <2> QED BY <1>1, <1>4, <1>5, UpTo
<1>7. \A i \in 1..n : g[i] >= x(i)
  <2> TAKE i \in 1..n
  <2>1. i \in 0..n /\ i # 0
    BY <1>1
  <2> QED BY <1>6, <2>1
<1>8. ASSUME NEW i \in 2..n PROVE g[i] >= g[i-1] + 1 /\ (g[i] = g[i-1] + 1 \/ g[i] = x(i))
  <2>1. i \in 1..n /\ i - 1 \in 1..n /\ i # 1
    BY <1>1
  <2>2. g[i-1] \in Nat /\ x(i) \in Nat /\ g[i] \in Nat
    BY <1>2, <2>1
  <2>3. g[i] = IF pts[i] = pts[i-1] \/ x(i) < g[i-1] + 1 THEN g[i-1] + 1 ELSE x(i)
    BY <1>1, <2>1
  <2> QED BY <2>2, <2>3
<1>9. n >= 1 => g[1] = x(1)
  <2> SUFFICES ASSUME n >= 1 PROVE g[1] = x(1)
    OBVIOUS
  <2>1. 1 \in 1..n
    BY <1>1
  <2> QED BY <1>1, <2>1
<1> QED BY <1>1, <1>2, <1>7, <1>8, <1>9 DEF Climbs, g, n, x

\* A window that holds all the frames of another, in their order, ends no earlier.
LEMMA ColdEcho ==
    ASSUME NEW w \in Seq(Nat), w # <<>>, NEW e \in Seq(Nat), NEW q \in [1..Len(w) -> 1..Len(e)],
           \A i \in 1..Len(w) : e[q[i]] = w[i], \A i, j \in 1..Len(w) : i < j => q[i] < q[j]
    PROVE  e # <<>> /\ gridColdEnd(w) <= gridColdEnd(e) /\ gridColdEnd(w) \in Nat /\ gridColdEnd(e) \in Nat
<1> DEFINE g == gridFrames(w)
           h == gridFrames(e)
           n == Len(w)
           m == Len(e)
           S == {i \in 0..n : i = 0 \/ h[q[i]] >= g[i]}
<1>1. n \in Nat \ {0} /\ m \in Nat /\ Climbs(w, g) /\ Climbs(e, h)
  BY GridFramesClimb
<1>2. q \in [1..n -> 1..m] /\ (\A i \in 1..n : e[q[i]] = w[i] /\ q[i] \in 1..m) /\ \A i, j \in 1..n : i < j => q[i] < q[j]
  OBVIOUS
<1>3. 1 \in 1..n /\ n \in 1..n /\ m \in Nat \ {0} /\ e # <<>>
  <2>1. 1 \in 1..n /\ n \in 1..n
    BY <1>1
  <2>2. q[1] \in 1..m
    BY <1>2, <2>1
  <2>3. m # 0
    BY <1>1, <2>2
  <2> QED BY <1>1, <2>1, <2>3
<1> HIDE DEF g, h, n, m
<1>4. /\ g \in [1..n -> Nat] /\ h \in [1..m -> Nat] /\ (\A i \in 1..n : gridIndex(w[i]) \in Nat)
      /\ \A i \in 1..m : gridIndex(e[i]) \in Nat /\ h[i] >= gridIndex(e[i])
      /\ g[1] = gridIndex(w[1])
      /\ \A i \in 2..n : g[i] = g[i-1] + 1 \/ g[i] = gridIndex(w[i])
      /\ \A i \in 2..m : h[i] >= h[i-1] + 1
  BY <1>1 DEF Climbs, n, m
\* The slots climb.
<1>5. ASSUME NEW i \in 1..m, NEW j \in 1..m, i < j PROVE h[j] >= h[i] + 1
  <2> DEFINE T == {d \in 0..m-i : d = 0 \/ h[i + d] >= h[i] + 1}
  <2>1. m - i \in Nat /\ 0 \in T
    BY <1>1
  <2>2. ASSUME NEW d \in 1..m-i, d - 1 \in T PROVE d \in T
    <3>1. i + d \in 2..m /\ i + d \in 1..m /\ i + d - 1 \in 1..m /\ d \in 0..m-i /\ i + (d - 1) = i + d - 1
      BY <1>1
    <3>2. h[i + d] >= h[i + d - 1] + 1 /\ h[i + d] \in Nat /\ h[i + d - 1] \in Nat /\ h[i] \in Nat
      <4> DEFINE l == i + d
      <4>1. l \in 2..m /\ l \in 1..m /\ l - 1 \in 1..m
        BY <3>1
      <4> HIDE DEF l
      <4>2. h[l] >= h[l-1] + 1
        BY <1>4, <4>1
      <4>3. h[l] \in Nat /\ h[l-1] \in Nat /\ h[i] \in Nat
        BY <1>4, <4>1
      <4> QED BY <4>2, <4>3 DEF l
    <3>3. h[i + d - 1] >= h[i]
      <4>1. CASE d = 1
        <5>1. i + d - 1 = i
          BY <4>1
        <5> QED BY <3>2, <5>1
      <4>2. CASE d # 1
        <5>1. h[i + (d - 1)] >= h[i] + 1
          BY <2>2, <4>2
        <5> QED BY <3>1, <3>2, <5>1
      <4> QED BY <4>1, <4>2
    <3>4. h[i + d] >= h[i] + 1
      BY <3>2, <3>3
    <3> QED BY <3>1, <3>4
  <2>3. \A d \in 0..m-i : d \in T
    <3> HIDE DEF T
    <3> QED BY <2>1, <2>2, UpTo
  <2>4. j - i \in 0..m-i /\ j - i # 0 /\ i + (j - i) = j
    BY <1>1, <1>5
  <2>5. j - i \in T
    BY <2>3, <2>4
  <2>6. h[i + (j - i)] >= h[i] + 1
    BY <2>4, <2>5
  <2> QED BY <2>4, <2>6
<1>6. 0 \in S
  BY <1>1
<1>7. ASSUME NEW i \in 1..n, i - 1 \in S PROVE i \in S
  <2>1. i \in 0..n /\ q[i] \in 1..m /\ e[q[i]] = w[i]
    BY <1>1, <1>2
  <2>2. h[q[i]] \in Nat /\ h[q[i]] >= gridIndex(w[i]) /\ g[i] \in Nat /\ gridIndex(w[i]) \in Nat
    BY <1>4, <2>1
  <2>3. CASE i = 1
    BY <1>4, <2>1, <2>2, <2>3
  <2>4. CASE i # 1
    <3>1. i \in 2..n /\ i - 1 \in 1..n /\ i - 1 < i
      BY <1>1, <2>4
    <3>2. q[i-1] \in 1..m /\ q[i-1] < q[i]
      BY <1>2, <3>1
    <3>3. h[q[i]] >= h[q[i-1]] + 1 /\ h[q[i-1]] \in Nat /\ g[i-1] \in Nat
      BY <1>4, <1>5, <2>1, <3>1, <3>2
    <3>4. h[q[i-1]] >= g[i-1]
      BY <1>7, <3>1
    <3>5. g[i] = g[i-1] + 1 \/ g[i] = gridIndex(w[i])
      BY <1>4, <3>1
    <3>6. h[q[i]] >= g[i]
      BY <2>2, <3>3, <3>4, <3>5, SMTT(30)
    <3> QED BY <2>1, <3>6
  <2> QED BY <2>3, <2>4
<1>8. \A i \in 0..n : i \in S
  <2> HIDE DEF S
  <2> QED BY <1>1, <1>6, <1>7, UpTo
<1>9. h[q[n]] >= g[n] /\ q[n] \in 1..m /\ h[q[n]] \in Nat /\ g[n] \in Nat /\ h[m] \in Nat
  <2>1. n \in 0..n /\ n # 0 /\ n \in S
    BY <1>1, <1>8
  <2> QED BY <1>2, <1>3, <1>4, <2>1
<1>10. h[m] >= h[q[n]]
  <2>1. m \in 1..m
    BY <1>3
  <2>2. CASE q[n] = m
    BY <1>9, <2>2
  <2>3. CASE q[n] # m
    <3>1. q[n] < m
      BY <1>3, <1>9, <2>3
    <3>2. h[m] >= h[q[n]] + 1
      BY <1>5, <1>9, <2>1, <3>1
    <3> QED BY <1>9, <3>2
  <2> QED BY <2>2, <2>3
<1>11. Len(g) = n /\ Len(h) = m
  BY <1>1, <1>3, <1>4
<1>12. gridColdEnd(w) = g[n] + 1 /\ gridColdEnd(e) = h[m] + 1
  BY <1>11 DEF gridColdEnd, g, h, Last
<1>13. g[n] + 1 <= h[m] + 1 /\ g[n] + 1 \in Nat /\ h[m] + 1 \in Nat
  BY <1>9, <1>10
<1> QED BY <1>3, <1>12, <1>13

-----------------------------------------------------------------------------
(* The frames a plan keeps, some of them twice after a failed scan.         *)

\* Kept frames echo those heard: the ones heard from place a on are kept in their order, at the places p, and what is
\* kept was heard, not before its own place.
Echoes(D, H, a, p) ==
  /\ p \in [a..Len(H) -> 1..Len(D)]
  /\ \A i \in a..Len(H) : D[p[i]] = H[i]
  /\ \A i, j \in a..Len(H) : i < j => p[i] < p[j]
  /\ \A j \in 1..Len(D) : \E i \in 1..Len(H) : D[j] = H[i] /\ (i >= a => p[i] <= j)
Echo(D, H, a) == \E p : Echoes(D, H, a, p)

LEMMA EchoNone == Echo(<<>>, <<>>, 1)
<1> DEFINE p == [i \in 1..0 |-> 0]
<1>1. Len(<<>>) = 0 /\ 1..0 = {} /\ p \in [1..0 -> 1..0]
  OBVIOUS
<1>2. Echoes(<<>>, <<>>, 1, p)
  BY <1>1 DEF Echoes
<1> QED BY <1>2 DEF Echo

\* A frame kept again.
LEMMA EchoAgain ==
    ASSUME NEW D \in Seq(Nat), NEW H \in Seq(Nat), NEW a \in 1..Len(H)+1, Echo(D, H, a), NEW i \in 1..Len(H)
    PROVE  Echo(Append(D, H[i]), H, a)
<1> DEFINE E == Append(D, H[i])
           n == Len(D)
           m == Len(H)
<1>1. n \in Nat /\ m \in Nat /\ Len(E) = n + 1 /\ E[n + 1] = H[i] /\ \A j \in 1..n : E[j] = D[j]
  OBVIOUS
<1>2. PICK p : Echoes(D, H, a, p)
  BY DEF Echo
<1>3. /\ p \in [a..m -> 1..n] /\ (\A k \in a..m : D[p[k]] = H[k]) /\ (\A k, j \in a..m : k < j => p[k] < p[j])
      /\ \A j \in 1..n : \E k \in 1..m : D[j] = H[k] /\ (k >= a => p[k] <= j)
  BY <1>2 DEF Echoes
<1>4. i \in 1..m /\ a \in 1..m+1 /\ \A k \in a..m : p[k] \in 1..n
  BY <1>3
<1> HIDE DEF E, n, m
<1>5. p \in [a..m -> 1..n+1]
  <2>1. 1..n \subseteq 1..n+1
    BY <1>1
  <2> QED BY <1>3, <2>1
<1>6. \A k \in a..m : E[p[k]] = H[k]
  BY <1>1, <1>3, <1>4
<1>7. ASSUME NEW j \in 1..n+1 PROVE \E k \in 1..m : E[j] = H[k] /\ (k >= a => p[k] <= j)
  <2>1. CASE j = n + 1
    <3>1. i >= a => i \in a..m
      BY <1>1, <1>4
    <3>2. i >= a => p[i] <= j
      BY <1>1, <1>4, <2>1, <3>1
    <3> QED BY <1>1, <1>4, <2>1, <3>2
  <2>2. CASE j \in 1..n
    BY <1>1, <1>3, <2>2
  <2> QED BY <1>1, <2>1, <2>2
<1>8. Echoes(E, H, a, p)
  BY <1>1, <1>3, <1>5, <1>6, <1>7 DEF Echoes, m
<1> QED BY <1>8 DEF Echo, E

\* A frame heard and kept.
LEMMA EchoMore ==
    ASSUME NEW D \in Seq(Nat), NEW H \in Seq(Nat), NEW y \in Nat, Echo(D, H, FirstAt(H, y)), NEW x \in Nat
    PROVE  Echo(Append(D, x), Append(H, x), FirstAt(Append(H, x), y))
<1> DEFINE E == Append(D, x)
           G == Append(H, x)
           n == Len(D)
           m == Len(H)
           a == FirstAt(H, y)
           b == FirstAt(G, y)
<1>1. /\ n \in Nat /\ Len(E) = n + 1 /\ E[n + 1] = x /\ (\A j \in 1..n : E[j] = D[j])
      /\ m \in Nat /\ Len(G) = m + 1 /\ G[m + 1] = x /\ (\A j \in 1..m : G[j] = H[j]) /\ G \in Seq(Nat)
  OBVIOUS
<1>2. PICK p : Echoes(D, H, a, p)
  BY DEF Echo
<1>3. a \in 1..m+1 /\ b \in 1..m+2 /\ (a <= m => b = a) /\ (a > m => b > m)
  <2>1. Begins(H, G)
    BY <1>1 DEF Begins
  <2>2. FirstIs(H, y, a) /\ FirstIs(G, y, b)
    BY <1>1, FirstAtFirst
  <2>3. (a <= m => b = a) /\ (a > m => b > m)
    BY <1>1, <2>1, FirstAtBegins
  <2> QED BY <1>1, <2>2, <2>3 DEF FirstIs
<1> HIDE DEF E, G, n, m, a, b
<1>4. /\ p \in [a..m -> 1..n] /\ (\A k \in a..m : D[p[k]] = H[k]) /\ (\A k, j \in a..m : k < j => p[k] < p[j])
      /\ \A j \in 1..n : \E k \in 1..m : D[j] = H[k] /\ (k >= a => p[k] <= j)
  BY <1>2 DEF Echoes, n, m
<1> DEFINE q == [k \in b..m+1 |-> IF k = m + 1 THEN n + 1 ELSE p[k]]
<1>5. ASSUME NEW k \in b..m+1, k # m + 1 PROVE k \in a..m /\ p[k] \in 1..n
  <2>1. k \in a..m
    BY <1>1, <1>3, <1>5
  <2> QED BY <1>4, <2>1
<1>6. q \in [b..m+1 -> 1..n+1]
  <2>1. ASSUME NEW k \in b..m+1 PROVE (IF k = m + 1 THEN n + 1 ELSE p[k]) \in 1..n+1
    BY <1>1, <1>5
  <2> QED BY <2>1
<1>7. \A k \in b..m+1 : q[k] = IF k = m + 1 THEN n + 1 ELSE p[k]
  OBVIOUS
<1> HIDE DEF q
<1>8. ASSUME NEW k \in b..m+1 PROVE E[q[k]] = G[k]
  <2>1. CASE k = m + 1
    BY <1>1, <1>7, <2>1
  <2>2. CASE k # m + 1
    <3>1. q[k] = p[k] /\ k \in a..m /\ p[k] \in 1..n /\ k \in 1..m
      BY <1>1, <1>3, <1>5, <1>7, <2>2
    <3> QED BY <1>1, <1>4, <3>1
  <2> QED BY <2>1, <2>2
<1>9. ASSUME NEW k \in b..m+1, NEW j \in b..m+1, k < j PROVE q[k] < q[j]
  <2>1. k # m + 1 /\ q[k] = p[k] /\ k \in a..m /\ p[k] \in 1..n
    BY <1>1, <1>3, <1>5, <1>7, <1>9
  <2>2. CASE j = m + 1
    BY <1>1, <1>7, <2>1, <2>2
  <2>3. CASE j # m + 1
    <3>1. q[j] = p[j] /\ j \in a..m
      BY <1>5, <1>7, <2>3
    <3> QED BY <1>4, <1>9, <2>1, <3>1
  <2> QED BY <2>2, <2>3
<1>10. ASSUME NEW j \in 1..n+1 PROVE \E k \in 1..m+1 : E[j] = G[k] /\ (k >= b => q[k] <= j)
  <2>1. CASE j = n + 1
    <3>1. m + 1 \in 1..m+1 /\ E[j] = G[m + 1]
      BY <1>1, <2>1
    <3>2. m + 1 >= b => q[m + 1] <= j
      <4> SUFFICES ASSUME m + 1 >= b PROVE q[m + 1] <= j
        OBVIOUS
      <4>1. m + 1 \in b..m+1
        BY <1>1, <1>3
      <4> QED BY <1>1, <1>7, <2>1, <4>1
    <3> QED BY <3>1, <3>2
  <2>2. CASE j \in 1..n
    <3>1. PICK k \in 1..m : D[j] = H[k] /\ (k >= a => p[k] <= j)
      BY <1>4, <2>2
    <3>2. k \in 1..m+1 /\ E[j] = G[k] /\ k # m + 1
      BY <1>1, <2>2, <3>1
    <3>3. k >= b => q[k] <= j
      <4> SUFFICES ASSUME k >= b PROVE q[k] <= j
        OBVIOUS
      <4>1. k \in b..m+1
        BY <1>1, <1>3, <3>2
      <4>2. q[k] = p[k] /\ k >= a
        BY <1>1, <1>3, <1>5, <1>7, <3>2, <4>1
      <4> QED BY <3>1, <4>2
    <3> QED BY <3>2, <3>3
  <2> QED BY <1>1, <2>1, <2>2
<1>11. Echoes(E, G, b, q)
  BY <1>1, <1>6, <1>8, <1>9, <1>10 DEF Echoes
<1> QED BY <1>11 DEF Echo, E, G, b

\* The frames of a window dropped.
LEMMA EchoDrop ==
    ASSUME NEW D \in Seq(Nat), NEW H \in Seq(Nat), NEW x \in Nat, NEW y \in Nat, x <= y, Echo(D, H, FirstAt(H, x))
    PROVE  Echo(SubSeq(D, FirstAt(D, y), Len(D)), H, FirstAt(H, y))
<1> DEFINE d == FirstAt(D, y)
           E == SubSeq(D, d, Len(D))
           n == Len(D)
           m == Len(H)
           a == FirstAt(H, x)
           b == FirstAt(H, y)
<1>1. /\ n \in Nat /\ m \in Nat /\ FirstIs(D, y, d) /\ FirstIs(H, x, a) /\ FirstIs(H, y, b) /\ a <= b
      /\ d \in 1..n+1 /\ a \in 1..m+1 /\ b \in 1..m+1 /\ (\A j \in 1..n : D[j] \in Nat) /\ \A j \in 1..m : H[j] \in Nat
  <2>1. FirstIs(D, y, d) /\ FirstIs(H, x, a) /\ FirstIs(H, y, b)
    BY FirstAtFirst
  <2>2. a <= b
    BY FirstAtLater
  <2>3. d \in 1..n+1 /\ a \in 1..m+1 /\ b \in 1..m+1
    BY <2>1 DEF FirstIs
  <2> HIDE DEF a, b, d
  <2> QED BY <2>1, <2>2, <2>3
<1>2. PICK p : Echoes(D, H, a, p)
  BY DEF Echo
<1> HIDE DEF d, a, b
<1>3. Slice(D, d, n, E)
  BY <1>1, SliceIs
<1>4. /\ E \in Seq(Nat) /\ Len(E) = n - d + 1 /\ (\A i \in 1..Len(E) : E[i] = D[d + i - 1])
  BY <1>1, <1>3 DEF Slice
<1> HIDE DEF E, n, m
<1>5. /\ p \in [a..m -> 1..n] /\ (\A k \in a..m : D[p[k]] = H[k]) /\ (\A k, j \in a..m : k < j => p[k] < p[j])
      /\ \A j \in 1..n : \E k \in 1..m : D[j] = H[k] /\ (k >= a => p[k] <= j)
  BY <1>2 DEF Echoes, n, m
<1>6. ASSUME NEW k \in b..m PROVE k \in a..m /\ p[k] \in d..n /\ p[k] - d + 1 \in 1..Len(E)
  <2>1. k \in a..m /\ b \in a..m /\ b \in 1..m /\ b <= m
    BY <1>1
  <2>2. D[p[b]] = H[b] /\ H[b] >= y /\ p[b] \in 1..n /\ p[k] \in 1..n /\ (b < k => p[b] < p[k])
    BY <1>1, <1>5, <2>1 DEF FirstIs, m
  <2>3. p[b] >= d
    <3> SUFFICES ASSUME p[b] < d PROVE FALSE
      BY <1>1, <2>2
    <3>1. D[p[b]] < y /\ D[p[b]] \in Nat
      BY <1>1, <2>2 DEF FirstIs, n
    <3> QED BY <2>2, <3>1
  <2>4. p[k] >= p[b]
    BY <2>1, <2>2
  <2>5. p[k] \in d..n
    BY <1>1, <2>2, <2>3, <2>4
  <2> QED BY <1>1, <1>4, <2>1, <2>5
<1> DEFINE q == [k \in b..m |-> p[k] - d + 1]
<1>7. q \in [b..m -> 1..Len(E)]
  BY <1>6
<1>8. \A k \in b..m : q[k] = p[k] - d + 1
  OBVIOUS
<1> HIDE DEF q
<1>9. ASSUME NEW k \in b..m PROVE E[q[k]] = H[k]
  <2>1. q[k] \in 1..Len(E) /\ d + q[k] - 1 = p[k]
    <3>1. q[k] \in 1..Len(E) /\ q[k] = p[k] - d + 1 /\ p[k] \in d..n
      BY <1>6, <1>7, <1>8
    <3> QED BY <1>1, <3>1
  <2>2. E[q[k]] = D[d + q[k] - 1]
    BY <1>4, <2>1
  <2> QED BY <1>5, <1>6, <2>1, <2>2
<1>10. ASSUME NEW k \in b..m, NEW j \in b..m, k < j PROVE q[k] < q[j]
  <2>1. p[k] < p[j] /\ p[k] \in d..n /\ p[j] \in d..n
    BY <1>5, <1>6, <1>10
  <2> QED BY <1>1, <1>8, <2>1
<1>11. ASSUME NEW j \in 1..Len(E) PROVE \E k \in 1..m : E[j] = H[k] /\ (k >= b => q[k] <= j)
  <2>1. d + j - 1 \in 1..n /\ E[j] = D[d + j - 1]
    BY <1>1, <1>4
  <2>2. PICK k \in 1..m : D[d + j - 1] = H[k] /\ (k >= a => p[k] <= d + j - 1)
    BY <1>5, <2>1
  <2>3. k >= b => q[k] <= j
    <3> SUFFICES ASSUME k >= b PROVE q[k] <= j
      OBVIOUS
    <3>1. k \in b..m
      BY <1>1
    <3>2. p[k] <= d + j - 1 /\ p[k] \in d..n
      BY <1>1, <1>6, <2>2, <3>1, SMTT(30)
    <3> QED BY <1>1, <1>8, <3>1, <3>2
  <2> QED BY <2>1, <2>2, <2>3
<1>12. Echoes(E, H, b, q)
  BY <1>7, <1>9, <1>10, <1>11 DEF Echoes, m
<1> QED BY <1>12 DEF Echo, E, d, b

\* What the kept frames say of the window from x to y and of the first frame past it.
WindowHeard(D, H, x, y) ==
  LET to == FirstAt(D, y)
      b  == FirstAt(H, y)
      w  == SubSeq(H, FirstAt(H, x), b - 1)
  IN IF to > Len(D) THEN b > Len(H)
     ELSE /\ b <= Len(H) /\ D[to] = H[b] /\ (to = 1 => w = <<>>)
          /\ w # <<>> => gridColdEnd(w) <= gridColdEnd(SubSeq(D, 1, to - 1))
LEMMA EchoWindow ==
    ASSUME NEW D \in Seq(Nat), NEW H \in Seq(Nat), NEW x \in Nat, NEW y \in Nat, x <= y, Echo(D, H, FirstAt(H, x))
    PROVE  WindowHeard(D, H, x, y)
<1> DEFINE d == FirstAt(D, y)
           n == Len(D)
           m == Len(H)
           a == FirstAt(H, x)
           b == FirstAt(H, y)
           w == SubSeq(H, a, b - 1)
           e == SubSeq(D, 1, d - 1)
<1>1. /\ n \in Nat /\ m \in Nat /\ FirstIs(D, y, d) /\ FirstIs(H, x, a) /\ FirstIs(H, y, b) /\ a <= b
      /\ d \in 1..n+1 /\ a \in 1..m+1 /\ b \in 1..m+1 /\ (\A j \in 1..n : D[j] \in Nat) /\ \A j \in 1..m : H[j] \in Nat
  <2>1. FirstIs(D, y, d) /\ FirstIs(H, x, a) /\ FirstIs(H, y, b)
    BY FirstAtFirst
  <2>2. a <= b
    BY FirstAtLater
  <2>3. d \in 1..n+1 /\ a \in 1..m+1 /\ b \in 1..m+1
    BY <2>1 DEF FirstIs
  <2> HIDE DEF a, b, d
  <2> QED BY <2>1, <2>2, <2>3
<1>2. PICK p : Echoes(D, H, a, p)
  BY DEF Echo
<1> HIDE DEF d, a, b
<1>3. Slice(H, a, b - 1, w) /\ (w = <<>> <=> b - 1 < a) /\ Slice(D, 1, d - 1, e)
  <2>1. b - 1 \in Nat /\ d - 1 \in Nat /\ b - 1 <= m /\ d - 1 <= n /\ a \in Nat \ {0} /\ 1 \in Nat \ {0}
    BY <1>1
  <2> QED BY <2>1, SliceIs
<1>4. /\ w \in Seq(Nat) /\ Len(w) = b - a /\ (\A i \in 1..Len(w) : w[i] = H[a + i - 1])
      /\ e \in Seq(Nat) /\ Len(e) = d - 1 /\ (\A i \in 1..Len(e) : e[i] = D[1 + i - 1])
  BY <1>1, <1>3 DEF Slice
<1> HIDE DEF w, e, n, m
<1>5. /\ p \in [a..m -> 1..n] /\ (\A k \in a..m : D[p[k]] = H[k]) /\ (\A k, j \in a..m : k < j => p[k] < p[j])
      /\ \A j \in 1..n : \E k \in 1..m : D[j] = H[k] /\ (k >= a => p[k] <= j)
  BY <1>2 DEF Echoes, n, m
\* The first frame past the window is kept no earlier than the first kept past it.
<1>6. ASSUME b <= m PROVE b \in a..m /\ p[b] \in d..n /\ d <= n
  <2>1. b \in a..m /\ b \in 1..m
    BY <1>1, <1>6
  <2>2. D[p[b]] = H[b] /\ H[b] >= y /\ p[b] \in 1..n
    BY <1>1, <1>5, <1>6, <2>1 DEF FirstIs, m
  <2>3. p[b] >= d
    <3> SUFFICES ASSUME p[b] < d PROVE FALSE
      BY <1>1, <2>2
    <3>1. D[p[b]] < y /\ D[p[b]] \in Nat
      BY <1>1, <2>2 DEF FirstIs, n
    <3> QED BY <2>2, <3>1
  <2> QED BY <1>1, <2>1, <2>2, <2>3
<1>7. d > n => b > m
  BY <1>1, <1>6
<1>8. ASSUME d <= n
      PROVE  b <= m /\ D[d] = H[b] /\ (d = 1 => w = <<>>) /\ (w # <<>> => gridColdEnd(w) <= gridColdEnd(e))
  <2>1. d \in 1..n /\ D[d] >= y
    BY <1>1, <1>8 DEF FirstIs, n
  <2>2. PICK k \in 1..m : D[d] = H[k] /\ (k >= a => p[k] <= d)
    BY <1>5, <2>1
  <2>3. k >= b
    <3> SUFFICES ASSUME k < b PROVE FALSE
      BY <1>1
    <3>1. H[k] < y /\ H[k] \in Nat
      BY <1>1, <2>2 DEF FirstIs, m
    <3> QED BY <2>1, <2>2, <3>1
  <2>4. b <= m /\ k \in a..m /\ p[k] <= d /\ p[k] \in 1..n
    <3>1. b <= m /\ k \in a..m /\ p[k] <= d
      BY <1>1, <2>2, <2>3
    <3> QED BY <1>5, <3>1
  <2>5. b \in a..m /\ p[b] \in d..n
    BY <1>6, <2>4
  <2>6. k = b /\ p[b] = d
    <3>1. b < k => p[b] < p[k]
      BY <1>5, <2>4, <2>5
    <3>2. k = b
      BY <1>1, <2>3, <2>4, <2>5, <3>1
    <3> QED BY <1>1, <2>4, <2>5, <3>2
  <2>7. ASSUME NEW i \in 1..Len(w) PROVE a + i - 1 \in a..m /\ p[a + i - 1] \in 1..d-1
    <3> DEFINE l == a + i - 1
    <3>1. l \in a..m /\ l < b
      BY <1>1, <1>4
    <3> HIDE DEF l
    <3>2. p[l] \in 1..n /\ p[l] < p[b]
      BY <1>5, <2>5, <3>1
    <3>3. p[l] \in 1..d-1
      BY <1>1, <2>6, <3>2
    <3> QED BY <3>1, <3>3 DEF l
  <2>8. ASSUME d = 1 PROVE w = <<>>
    <3>1. ASSUME w # <<>> PROVE FALSE
      <4>1. 1 \in 1..Len(w)
        BY <1>4, <3>1
      <4>2. p[a + 1 - 1] \in 1..d-1
        BY <2>7, <4>1
      <4> QED BY <2>8, <4>2
    <3> QED BY <3>1
  <2>9. ASSUME w # <<>> PROVE gridColdEnd(w) <= gridColdEnd(e)
    <3> DEFINE q == [i \in 1..Len(w) |-> p[a + i - 1]]
    <3>1. q \in [1..Len(w) -> 1..Len(e)]
      BY <1>4, <2>7
    <3>2. \A i \in 1..Len(w) : q[i] = p[a + i - 1]
      OBVIOUS
    <3> HIDE DEF q
    <3>3. ASSUME NEW i \in 1..Len(w) PROVE e[q[i]] = w[i]
      <4>1. q[i] \in 1..Len(e) /\ q[i] = p[a + i - 1] /\ a + i - 1 \in a..m /\ w[i] = H[a + i - 1]
        BY <1>4, <2>7, <3>1, <3>2
      <4>2. e[q[i]] = D[1 + q[i] - 1] /\ 1 + q[i] - 1 = q[i]
        BY <1>4, <4>1, SMTT(30)
      <4>3. D[p[a + i - 1]] = H[a + i - 1]
        BY <1>5, <4>1
      <4> QED BY <4>1, <4>2, <4>3
    <3>4. ASSUME NEW i \in 1..Len(w), NEW j \in 1..Len(w), i < j PROVE q[i] < q[j]
      <4>1. a + i - 1 \in a..m /\ a + j - 1 \in a..m /\ a + i - 1 < a + j - 1
        BY <1>1, <1>4, <2>7, <3>4
      <4>2. p[a + i - 1] < p[a + j - 1]
        BY <1>5, <4>1
      <4> QED BY <3>2, <4>2
    <3> QED BY <1>4, <2>9, <3>1, <3>3, <3>4, ColdEcho
  <2> QED BY <2>2, <2>4, <2>6, <2>8, <2>9
<1>9. d \in 1..n+1 /\ n \in Nat
  BY <1>1
<1>10. IF d > n THEN b > m
       ELSE b <= m /\ D[d] = H[b] /\ (d = 1 => w = <<>>) /\ (w # <<>> => gridColdEnd(w) <= gridColdEnd(e))
  BY <1>7, <1>8, <1>9
<1>11. WindowHeard(D, H, x, y) =
         IF d > n THEN b > m
         ELSE b <= m /\ D[d] = H[b] /\ (d = 1 => w = <<>>) /\ (w # <<>> => gridColdEnd(w) <= gridColdEnd(e))
  BY Zenon DEF WindowHeard, d, b, w, e, n, m, a
<1> QED BY <1>10, <1>11

-----------------------------------------------------------------------------
(* The cuts: the start of the file, then keyframes at least a segment apart. *)

\* Cut n is made for block i.
CutFor(f, cut, i) == f.blocks[i].t = "v" /\ f.blocks[i].ms = cut.ms /\ i <= f.ends[cut.at] /\ cut.at \in 1..Len(f.ends)
Apiece(f, cuts) ==
  /\ cuts \in Seq(Cut) /\ (cuts # <<>> => cuts[1].ms = 0)
  /\ \A n \in 2..Len(cuts) : /\ cuts[n-1].ms < cuts[n].ms
                             /\ \E i \in 1..Len(f.blocks) : CutFor(f, cuts[n], i)

LEMMA ClusterEnds ==
    ASSUME NEW f \in Files, NEW i \in 1..Len(f.blocks)
    PROVE  i <= f.ends[ClusterOf(f, i)] /\ ClusterOf(f, i) \in 1..Len(f.ends)
<1> DEFINE N == Len(f.ends)
           S == {c \in 1..N : i <= f.ends[c]}
<1>1. /\ N \in Nat \ {0} /\ f.ends[N] = Len(f.blocks) /\ Len(f.blocks) \in Nat
      /\ \A c \in 1..N : f.ends[c] \in 0..Len(f.blocks)
  BY FileTypes
<1>2. N \in S /\ S \subseteq 1..N
  BY <1>1
<1>3. ClusterOf(f, i) \in 1..N
  BY ClusterIs
<1>4. \E c \in 1..N : i <= f.ends[c] /\ (c > 1 => i > f.ends[c-1])
  <2> DEFINE T == {d \in 0..N : d = 0 \/ f.ends[d] < i}
  <2> SUFFICES ASSUME \A c \in 1..N : i <= f.ends[c] => c > 1 /\ ~(i > f.ends[c-1]) PROVE FALSE
    OBVIOUS
  <2>1. 0 \in T
    BY <1>1
  <2>2. ASSUME NEW c \in 1..N, c - 1 \in T PROVE c \in T
    <3>1. c > 1 => f.ends[c-1] < i /\ f.ends[c-1] \in Nat
      BY <1>1, <2>2
    <3>2. ~(i <= f.ends[c])
      BY <3>1
    <3> QED BY <1>1, <3>2
  <2>3. \A d \in 0..N : d \in T
    <3> HIDE DEF T
    <3> QED BY <1>1, <2>1, <2>2, UpTo
  <2>4. N \in 0..N /\ N # 0
    BY <1>1
  <2> QED BY <1>1, <2>3, <2>4
<1>5. PICK c \in 1..N : i <= f.ends[c] /\ (c > 1 => i > f.ends[c-1])
  BY <1>4
<1>6. ClusterOf(f, i) = c
  BY <1>5, ClusterIs
<1> QED BY <1>3, <1>5, <1>6

LEMMA ApieceStep ==
    ASSUME NEW f \in Files, NEW i \in 1..Len(f.blocks), IsKey(f.blocks[i]), NEW cuts, Apiece(f, cuts)
    PROVE  Apiece(f, recordKeyframe(cuts, f.blocks[i].ms, ClusterOf(f, i)))
<1> DEFINE b == f.blocks[i]
           at == ClusterOf(f, i)
           known == IF cuts = <<>> THEN <<[ms |-> 0, at |-> at]>> ELSE cuts
           cut == [ms |-> b.ms, at |-> at]
<1>1. at \in Nat /\ at \in 1..Len(f.ends) /\ i <= f.ends[at] /\ SegMs \in Nat \ {0} /\ Len(f.ends) \in Nat
  BY ClusterEnds, FileTypes, GrowingAssumption
<1>2. b.ms \in Nat /\ b.t = "v"
  <2>1. b \in Blocks
    BY FileTypes
  <2> QED BY <2>1 DEF Blocks, IsKey
<1>3. recordKeyframe(cuts, b.ms, at) = IF b.ms >= Last(known).ms + SegMs THEN Append(known, cut) ELSE known
  BY DEF recordKeyframe
<1> HIDE DEF b, at
<1>4. Apiece(f, known) /\ known # <<>>
  <2>1. CASE cuts = <<>>
    <3> DEFINE k == <<[ms |-> 0, at |-> at]>>
    <3>1. [ms |-> 0, at |-> at] \in Cut
      BY <1>1 DEF Cut
    <3>2. k \in Seq(Cut) /\ Len(k) = 1 /\ k[1].ms = 0
      BY <3>1
    <3>3. known = k
      BY <2>1
    <3>4. k # <<>> /\ 2..1 = {}
      OBVIOUS
    <3> HIDE DEF k, known
    <3>5. Apiece(f, k)
      BY <3>2, <3>4 DEF Apiece
    <3> QED BY <3>3, <3>4, <3>5
  <2>2. CASE cuts # <<>>
    BY <2>2
  <2> QED BY <2>1, <2>2
<1> HIDE DEF known
<1>5. ASSUME b.ms >= Last(known).ms + SegMs PROVE Apiece(f, Append(known, cut))
  <2> DEFINE e == Append(known, cut)
             n == Len(known)
  <2>1. cut \in Cut
    BY <1>1, <1>2 DEF Cut
  <2>2. known \in Seq(Cut) /\ n \in Nat \ {0}
    BY <1>4 DEF Apiece
  <2>3. e \in Seq(Cut) /\ Len(e) = n + 1 /\ e[n + 1] = cut /\ \A k \in 1..n : e[k] = known[k]
    BY <2>1, <2>2
  <2>4. Last(known) = known[n] /\ known[n].ms \in Nat
    <3>1. known[n] \in Cut
      BY <2>2
    <3> QED BY <3>1 DEF Last, Cut
  <2>5. known[n].ms < cut.ms
    BY <1>1, <1>2, <1>5, <2>4
  <2>6. CutFor(f, cut, i)
    BY <1>1, <1>2 DEF CutFor, b
  <2> HIDE DEF e, n, cut
  <2>7. e # <<>> /\ e[1].ms = 0
    <3>1. 1 \in 1..n /\ known[1].ms = 0
      BY <1>4, <2>2 DEF Apiece
    <3> QED BY <2>2, <2>3, <3>1
  <2>8. ASSUME NEW k \in 2..n+1
        PROVE  e[k-1].ms < e[k].ms /\ \E j \in 1..Len(f.blocks) : CutFor(f, e[k], j)
    <3>1. CASE k = n + 1
      <4>1. k - 1 = n /\ n \in 1..n
        BY <2>2, <3>1
      <4>2. e[k-1] = known[n] /\ e[k] = cut
        BY <2>3, <3>1, <4>1
      <4> QED BY <2>5, <2>6, <4>2
    <3>2. CASE k # n + 1
      <4>1. k \in 2..n /\ k \in 1..n /\ k - 1 \in 1..n
        BY <2>2, <3>2
      <4>2. e[k] = known[k] /\ e[k-1] = known[k-1]
        BY <2>3, <4>1
      <4> QED BY <1>4, <4>1, <4>2 DEF Apiece, n
    <3> QED BY <3>1, <3>2
  <2>9. Apiece(f, e)
    BY <2>3, <2>7, <2>8 DEF Apiece
  <2> QED BY <2>9 DEF e
<1> QED
  <2>1. Apiece(f, recordKeyframe(cuts, b.ms, at))
    BY <1>3, <1>4, <1>5
  <2> QED BY <2>1 DEF b, at

LEMMA FoundApiece == ASSUME NEW f \in Files, NEW i \in 0..Len(f.blocks) PROVE Apiece(f, FoundAt(f, i))
<1> DEFINE n == Len(f.blocks)
           S == {k \in 0..n : Apiece(f, FoundAt(f, k))}
<1>1. /\ n \in Nat /\ FoundAt(f, 0) = <<>>
      /\ \A k \in 1..n : FoundAt(f, k) = IF IsKey(f.blocks[k])
                                          THEN recordKeyframe(FoundAt(f, k - 1), f.blocks[k].ms, ClusterOf(f, k))
                                          ELSE FoundAt(f, k - 1)
  BY FoundStep, FileTypes
<1>2. 0 \in S
  <2>1. Apiece(f, <<>>)
    BY DEF Apiece
  <2> QED BY <1>1, <2>1
<1>3. ASSUME NEW k \in 1..n, k - 1 \in S PROVE k \in S
  <2>1. Apiece(f, FoundAt(f, k - 1)) /\ k \in 0..n
    BY <1>1, <1>3
  <2>2. IsKey(f.blocks[k]) => Apiece(f, recordKeyframe(FoundAt(f, k - 1), f.blocks[k].ms, ClusterOf(f, k)))
    BY <2>1, ApieceStep
  <2> QED BY <1>1, <2>1, <2>2
<1>4. \A k \in 0..n : k \in S
  <2> HIDE DEF S
  <2> QED BY <1>1, <1>2, <1>3, UpTo
<1> QED BY <1>4

\* Cuts that begin the planned ones.
Rise(c) == \A i, j \in 1..Len(c) : i < j => c[i].ms < c[j].ms
Begun(f, c) ==
  /\ c \in Seq(Cut) /\ PlannedCuts(f) \in Seq(Cut) /\ Len(c) <= Len(PlannedCuts(f)) /\ PlannedCuts(f) # <<>>
  /\ \A n \in 1..Len(c) : c[n] = PlannedCuts(f)[n] /\ c[n].ms \in Nat
  /\ Rise(c) /\ (c # <<>> => c[1].ms = 0)
  /\ \A n \in 2..Len(c) : \E i \in 1..Len(f.blocks) : CutFor(f, c[n], i)

LEMMA BegunPlanned == ASSUME NEW f \in Files, NEW c, IsPrefix(c, PlannedCuts(f)), c \in Seq(Cut) PROVE Begun(f, c)
<1> DEFINE P == PlannedCuts(f)
<1>1. Apiece(f, P) /\ P \in CutSeq
  <2>1. Len(f.blocks) \in 0..Len(f.blocks) /\ FoundAt(f, Len(f.blocks)) = P
    BY FileTypes, FoundStep
  <2>2. Apiece(f, FoundAt(f, Len(f.blocks)))
    BY <2>1, FoundApiece
  <2>3. P \in CutSeq
    <3>1. /\ Len(KeysOf(f)) \in Nat \ {0} /\ Cutting(f) \in [0..Len(KeysOf(f)) -> CutSeq]
          /\ P = Cutting(f)[Len(KeysOf(f))]
      BY CuttingIs
    <3> QED BY <3>1
  <2> QED BY <2>1, <2>2, <2>3
<1>2. P \in Seq(Cut) /\ P # <<>>
  BY <1>1 DEF CutSeq
<1> HIDE DEF P
<1>3. Len(c) <= Len(P) /\ (\A i \in 1..Len(c) : c[i] = P[i]) /\ Len(c) \in Nat /\ Len(P) \in Nat
  BY <1>2, PrefixIs DEF P
<1>4. \A n \in 1..Len(c) : c[n].ms \in Nat
  <2>1. \A n \in 1..Len(c) : c[n] \in Cut
    OBVIOUS
  <2> QED BY <2>1 DEF Cut
<1>5. ASSUME NEW n \in 2..Len(c) PROVE c[n-1].ms < c[n].ms /\ \E i \in 1..Len(f.blocks) : CutFor(f, c[n], i)
  <2>1. n \in 2..Len(P) /\ n \in 1..Len(c) /\ n - 1 \in 1..Len(c)
    BY <1>3
  <2>2. c[n] = P[n] /\ c[n-1] = P[n-1]
    BY <1>3, <2>1
  <2> QED BY <1>1, <2>1, <2>2 DEF Apiece
<1>6. Rise(c)
  <2> SUFFICES ASSUME NEW i \in 1..Len(c), NEW j \in 1..Len(c), i < j PROVE c[i].ms < c[j].ms
    BY DEF Rise
  <2> DEFINE T == {d \in 0..Len(c)-i : d = 0 \/ c[i].ms < c[i + d].ms}
  <2>1. Len(c) - i \in Nat /\ 0 \in T
    BY <1>3
  <2>2. ASSUME NEW d \in 1..Len(c)-i, d - 1 \in T PROVE d \in T
    <3> DEFINE l == i + d
    <3>1. l \in 2..Len(c) /\ l \in 1..Len(c) /\ l - 1 \in 1..Len(c) /\ d \in 0..Len(c)-i /\ i + (d - 1) = l - 1
      BY <1>3
    <3> HIDE DEF l
    <3>2. c[l-1].ms < c[l].ms /\ c[l].ms \in Nat /\ c[l-1].ms \in Nat /\ c[i].ms \in Nat
      BY <1>4, <1>5, <3>1
    <3>3. c[i].ms <= c[l-1].ms
      <4>1. CASE d = 1
        <5>1. l - 1 = i
          BY <4>1 DEF l
        <5> QED BY <3>2, <5>1
      <4>2. CASE d # 1
        <5>1. c[i].ms < c[i + (d - 1)].ms
          BY <2>2, <4>2
        <5> QED BY <3>1, <3>2, <5>1, SMTT(30)
      <4> QED BY <4>1, <4>2
    <3>4. c[i].ms < c[l].ms
      BY <3>2, <3>3
    <3> QED BY <3>1, <3>4 DEF l
  <2>3. \A d \in 0..Len(c)-i : d \in T
    <3> HIDE DEF T
    <3> QED BY <2>1, <2>2, UpTo
  <2>4. j - i \in 0..Len(c)-i /\ j - i # 0 /\ i + (j - i) = j
    BY <1>3
  <2>5. j - i \in T
    BY <2>3, <2>4
  <2>6. c[i].ms < c[i + (j - i)].ms
    BY <2>4, <2>5
  <2> QED BY <2>4, <2>6
<1>7. c # <<>> => c[1].ms = 0
  <2> SUFFICES ASSUME c # <<>> PROVE c[1].ms = 0
    OBVIOUS
  <2>1. 1 \in 1..Len(c)
    BY <1>3
  <2> QED BY <1>1, <1>2, <1>3, <2>1 DEF Apiece
<1> QED BY <1>2, <1>3, <1>4, <1>5, <1>6, <1>7 DEF Begun, P

-----------------------------------------------------------------------------
(* The windows of the full pass, one next to the other.                     *)

Sorted(c) == c \in Seq(Cut) /\ Rise(c) /\ (c # <<>> => c[1].ms = 0) /\ \A n \in 1..Len(c) : c[n].ms \in Nat
From(c, pts, n) == IF n <= Len(c) THEN FirstAt(pts, c[n].ms) ELSE Len(pts) + 1

\* Window n of times pts, and the first time after it.
Windowed(c, pts, n) ==
  /\ FullWindow(c, pts, n) = SubSeq(pts, From(c, pts, n), From(c, pts, n + 1) - 1)
  /\ From(c, pts, n) \in 1..Len(pts)+1 /\ From(c, pts, n + 1) \in 1..Len(pts)+1
  /\ From(c, pts, n) <= From(c, pts, n + 1)
  /\ FullWindow(c, pts, n) \in Seq(Nat) /\ Len(FullWindow(c, pts, n)) = From(c, pts, n + 1) - From(c, pts, n)
  /\ FullWindow(c, pts, n) = <<>> <=> From(c, pts, n) = From(c, pts, n + 1)
  /\ FullWindow(c, pts, n) # <<>> => FullWindow(c, pts, n)[1] = pts[From(c, pts, n)]
  /\ FullNext(c, pts, n) = IF From(c, pts, n + 1) <= Len(pts) THEN pts[From(c, pts, n + 1)] ELSE -1
LEMMA WindowIs ==
    ASSUME NEW c, Sorted(c), NEW pts \in Seq(Nat), NEW n \in 1..Len(c)
    PROVE  Windowed(c, pts, n)
<1> DEFINE a == From(c, pts, n)
           b == From(c, pts, n + 1)
           w == FullWindow(c, pts, n)
           m == Len(pts)
<1>1. /\ c \in Seq(Cut) /\ Len(c) \in Nat /\ m \in Nat /\ c # <<>> /\ c[1].ms = 0 /\ c[n].ms \in Nat
      /\ n \in Nat /\ n <= Len(c) /\ n >= 1
      /\ (n + 1 <= Len(c) => c[n+1].ms \in Nat /\ c[n].ms <= c[n+1].ms)
  <2>1. c \in Seq(Cut) /\ Len(c) \in Nat /\ m \in Nat /\ c # <<>> /\ c[1].ms = 0 /\ c[n].ms \in Nat
    BY DEF Sorted
  <2>2. ASSUME n + 1 <= Len(c) PROVE c[n+1].ms \in Nat /\ c[n].ms <= c[n+1].ms
    <3>1. n + 1 \in 1..Len(c) /\ n < n + 1
      BY <2>1, <2>2
    <3>2. c[n].ms < c[n+1].ms /\ c[n+1].ms \in Nat
      BY <3>1 DEF Sorted, Rise
    <3> QED BY <2>1, <3>2
  <2> QED BY <2>1, <2>2
<1>2. a = FirstAt(pts, c[n].ms) /\ a \in 1..m+1
  <2>1. FirstIs(pts, c[n].ms, FirstAt(pts, c[n].ms))
    BY <1>1, FirstAtFirst
  <2> QED BY <1>1, <2>1 DEF From, FirstIs
<1>3. n = 1 => a = 1
  <2> SUFFICES ASSUME n = 1 PROVE a = 1
    OBVIOUS
  <2>1. c[n].ms = 0
    BY <1>1
  <2>2. 1 \in 1..m+1 /\ (\A i \in 1..m : i < 1 => pts[i] < 0) /\ (1 <= m => pts[1] >= 0) /\ 0 \in Nat
    BY <1>1
  <2>3. FirstAt(pts, 0) = 1
    BY <2>2, FirstAtOf
  <2> QED BY <1>2, <2>1, <2>3
<1>4. b \in 1..m+1 /\ a <= b /\ b = WindowTo(c, pts, n)
  <2>1. CASE n + 1 <= Len(c)
    <3>1. FirstIs(pts, c[n+1].ms, FirstAt(pts, c[n+1].ms))
      BY <1>1, <2>1, FirstAtFirst
    <3>2. FirstAt(pts, c[n].ms) <= FirstAt(pts, c[n+1].ms)
      BY <1>1, <2>1, FirstAtLater
    <3>3. b = FirstAt(pts, c[n+1].ms) /\ n < Len(c)
      BY <1>1, <2>1 DEF From
    <3> QED BY <1>2, <3>1, <3>2, <3>3 DEF WindowTo, FirstIs
  <2>2. CASE ~(n + 1 <= Len(c))
    <3>1. ~(n < Len(c)) /\ b = m + 1
      BY <1>1, <2>2 DEF From
    <3> QED BY <1>1, <1>2, <3>1 DEF WindowTo
  <2> QED BY <2>1, <2>2
<1>5. w = SubSeq(pts, a, b - 1)
  <2>1. (IF n = 1 THEN 1 ELSE FirstAt(pts, c[n].ms)) = a
    BY <1>2, <1>3
  <2> QED BY <1>4, <2>1 DEF FullWindow
<1> HIDE DEF a, b
<1>6. Slice(pts, a, b - 1, w) /\ (w = <<>> <=> b - 1 < a)
  <2>1. a \in Nat \ {0} /\ b - 1 \in Nat /\ b - 1 <= m
    BY <1>1, <1>2, <1>4
  <2> QED BY <1>5, <2>1, SliceIs
<1> HIDE DEF w
<1>7. w \in Seq(Nat) /\ Len(w) = b - a /\ (w = <<>> <=> a = b)
  BY <1>1, <1>2, <1>4, <1>6 DEF Slice
<1>8. w # <<>> => w[1] = pts[a]
  <2> SUFFICES ASSUME w # <<>> PROVE w[1] = pts[a]
    OBVIOUS
  <2>1. 1 \in 1..Len(w) /\ a + 1 - 1 = a
    BY <1>2, <1>7
  <2> QED BY <1>6, <2>1 DEF Slice
<1>9. FullNext(c, pts, n) = IF b <= m THEN pts[b] ELSE -1
  BY <1>4 DEF FullNext
<1> QED BY <1>2, <1>4, <1>5, <1>7, <1>8, <1>9 DEF Windowed, a, b, w, m

\* What window n opens at: only the window before it counts.
LEMMA OpenOn ==
    ASSUME NEW w \in Seq(Nat), w # <<>>
    PROVE  /\ gridOpen(w, -1) = gridIndex(w[1])
           /\ \A e \in Nat : e <= gridIndex(w[1]) => gridOpen(w, e) = gridIndex(w[1])
<1>1. gridIndex(w[1]) \in Nat
  BY GridOpenType
<1>2. ~(-1 > gridIndex(w[1]))
  BY <1>1
<1>3. ASSUME NEW e \in Nat, e <= gridIndex(w[1]) PROVE gridOpen(w, e) = gridIndex(w[1])
  <2>1. ~(e > gridIndex(w[1]))
    BY <1>1, <1>3
  <2> QED BY <2>1 DEF gridOpen
<1> QED BY <1>2, <1>3 DEF gridOpen

\* Where the window after window n opens: on the first frame past n, or where n ends when that frame is in n + 1.
EndsAt(c, pts, n) ==
  LET next == FullNext(c, pts, n)
      cold == gridColdEnd(FullWindow(c, pts, n))
      skips == n + 2 <= Len(c) /\ next >= c[n+2].ms
  IN /\ next = -1 => FullEnd(c, pts, n) = -1
     /\ next # -1 =>
          /\ next \in Nat /\ n < Len(c)
          /\ skips => FullEnd(c, pts, n) = gridIndex(next)
          /\ ~skips => /\ FullWindow(c, pts, n + 1) # <<>> /\ FullWindow(c, pts, n + 1)[1] = next
                       /\ FullEnd(c, pts, n) = gridOpen(FullWindow(c, pts, n + 1), cold)
                       /\ FullEnd(c, pts, n) = FullOpen(c, pts, n + 1)
          /\ cold <= gridIndex(next) => FullEnd(c, pts, n) = gridIndex(next)
LEMMA EndIs ==
    ASSUME NEW c, Sorted(c), NEW pts \in Seq(Nat), NEW n \in 1..Len(c), FullWindow(c, pts, n) # <<>>
    PROVE  EndsAt(c, pts, n)
<1> DEFINE N == Len(c)
           m == Len(pts)
           F(i) == From(c, pts, i)
           W(i) == FullWindow(c, pts, i)
           next == FullNext(c, pts, n)
           cold == gridColdEnd(W(n))
           skips == n + 2 <= N /\ next >= c[n+2].ms
           later == {i \in n+1..N : W(i) # <<>>}
           E == FullEnd(c, pts, n)
<1>1. N \in Nat /\ m \in Nat /\ n \in Nat /\ n >= 1 /\ n <= N
  BY DEF Sorted
<1>2. \A i \in 1..N : Windowed(c, pts, i)
  BY WindowIs
<1>3. /\ \A i \in 1..N : /\ W(i) \in Seq(Nat) /\ F(i) \in 1..m+1 /\ F(i + 1) \in 1..m+1 /\ F(i) <= F(i + 1)
                         /\ (W(i) = <<>> <=> F(i) = F(i + 1)) /\ (W(i) # <<>> => W(i)[1] = pts[F(i)])
      /\ next = IF F(n + 1) <= m THEN pts[F(n + 1)] ELSE -1
  BY <1>2 DEF Windowed
<1>4. F(N + 1) = m + 1
  BY <1>1 DEF From
<1>5. E = IF later = {} THEN -1 ELSE FullOpen(c, pts, CHOOSE i \in later : \A k \in later : i <= k)
  BY DEF FullEnd
<1>6. cold \in Nat
  BY <1>1, <1>3, GridOpenType
<1>7. \A i \in 1..m : pts[i] \in Nat
  OBVIOUS
<1>8. \A i \in 1..N : i # 1 => FullOpen(c, pts, i) = gridOpen(W(i), IF W(i - 1) = <<>> THEN -1 ELSE gridColdEnd(W(i - 1)))
  BY DEF FullOpen
<1> HIDE DEF F, W, next, E, N, m
\* As long as the windows after n are empty, they start where n ends.
<1>9. ASSUME NEW k \in n+1..N+1, \A i \in n+1..k-1 : W(i) = <<>> PROVE F(k) = F(n + 1)
  <2> DEFINE T == {d \in 0..k-(n+1) : F(n + 1 + d) = F(n + 1)}
  <2>1. k - (n + 1) \in Nat /\ n + 1 + 0 = n + 1 /\ 0 \in T
    BY <1>1
  <2>2. ASSUME NEW d \in 1..k-(n+1), d - 1 \in T PROVE d \in T
    <3> DEFINE i == n + 1 + (d - 1)
    <3>1. i \in n+1..k-1 /\ i \in 1..N /\ i + 1 = n + 1 + d /\ d \in 0..k-(n+1)
      BY <1>1
    <3>2. F(i) = F(n + 1)
      BY <2>2
    <3> HIDE DEF i
    <3>3. F(i) = F(i + 1)
      BY <1>3, <1>9, <3>1
    <3> QED BY <3>1, <3>2, <3>3
  <2>3. \A d \in 0..k-(n+1) : d \in T
    <3> HIDE DEF T
    <3> QED BY <2>1, <2>2, UpTo
  <2>4. k - (n + 1) \in 0..k-(n+1) /\ n + 1 + (k - (n + 1)) = k
    BY <1>1
  <2>5. k - (n + 1) \in T
    BY <2>3, <2>4
  <2> QED BY <2>4, <2>5
<1>10. ASSUME next = -1 PROVE E = -1
  <2>1. F(n + 1) = m + 1 /\ n + 1 \in 1..N+1
    <3>1. F(n + 1) \in 1..m+1
      BY <1>1, <1>3
    <3>2. ~(F(n + 1) <= m)
      <4> SUFFICES ASSUME F(n + 1) <= m PROVE FALSE
        OBVIOUS
      <4>1. F(n + 1) \in 1..m
        BY <1>1, <3>1
      <4>3. next = pts[F(n + 1)]
        BY <1>3
      <4>2. next \in Nat
        BY <1>7, <4>1, <4>3
      <4> QED BY <1>10, <4>2
    <3> QED BY <1>1, <3>1, <3>2
  <2>2. ASSUME NEW i \in n+1..N PROVE W(i) = <<>>
    <3> DEFINE T == {d \in 0..i-(n+1) : F(n + 1 + d) = m + 1}
    <3>1. i - (n + 1) \in Nat /\ n + 1 + 0 = n + 1 /\ 0 \in T
      BY <1>1, <2>1
    <3>2. ASSUME NEW d \in 1..i-(n+1), d - 1 \in T PROVE d \in T
      <4> DEFINE j == n + 1 + (d - 1)
      <4>1. j \in 1..N /\ j + 1 = n + 1 + d /\ d \in 0..i-(n+1)
        BY <1>1
      <4>2. F(j) = m + 1
        BY <3>2
      <4> HIDE DEF j
      <4>3. F(j) <= F(j + 1) /\ F(j + 1) \in 1..m+1
        BY <1>3, <4>1
      <4>4. F(j + 1) = m + 1
        BY <1>1, <4>2, <4>3
      <4> QED BY <4>1, <4>4
    <3>3. \A d \in 0..i-(n+1) : d \in T
      <4> HIDE DEF T
      <4> QED BY <3>1, <3>2, UpTo
    <3>4. i - (n + 1) \in 0..i-(n+1) /\ n + 1 + (i - (n + 1)) = i
      BY <1>1
    <3>5. F(i) = m + 1
      <4>1. i - (n + 1) \in T
        BY <3>3, <3>4
      <4> QED BY <3>4, <4>1
    <3>8. i \in 1..N
      BY <1>1
    <3>6. i \in 1..N /\ F(i) <= F(i + 1) /\ F(i + 1) \in 1..m+1
      BY <1>3, <3>8
    <3>7. F(i) = F(i + 1)
      BY <1>1, <3>5, <3>6
    <3> QED BY <1>3, <3>6, <3>7
  <2>3. later = {}
    BY <2>2
  <2> QED BY <1>5, <2>3
<1> DEFINE Q == /\ next \in Nat /\ n < N
                /\ skips => E = gridIndex(next)
                /\ ~skips => /\ W(n + 1) # <<>> /\ W(n + 1)[1] = next /\ E = gridOpen(W(n + 1), cold)
                             /\ E = FullOpen(c, pts, n + 1)
                /\ cold <= gridIndex(next) => E = gridIndex(next)
<1> SUFFICES ASSUME next # -1 PROVE Q
  <2>1. EndsAt(c, pts, n) <=> (next = -1 => E = -1) /\ (next # -1 => Q)
    BY DEF EndsAt, next, E, W, N
  <2> HIDE DEF Q
  <2> QED BY <1>10, <2>1
<1>11. F(n + 1) \in 1..m /\ next = pts[F(n + 1)] /\ next \in Nat /\ n < N /\ n + 1 \in 1..N
  <2>1. F(n + 1) <= m /\ F(n + 1) \in 1..m+1 /\ next = pts[F(n + 1)]
    BY <1>1, <1>3
  <2>2. F(n + 1) \in 1..m
    BY <1>1, <2>1
  <2>3. n # N
    BY <1>1, <1>4, <2>2
  <2> QED BY <1>1, <1>7, <2>1, <2>2, <2>3
\* The first window after n that holds a frame holds the first frame past n.
<1>12. ASSUME \A i \in n+1..N : W(i) = <<>> PROVE FALSE
  <2>1. N + 1 \in n+1..N+1 /\ N + 1 - 1 = N
    BY <1>1
  <2> DEFINE k == N + 1
  <2>2. k \in n+1..N+1 /\ k - 1 = N
    BY <1>1
  <2> HIDE DEF k
  <2>3. \A i \in n+1..k-1 : W(i) = <<>>
    BY <1>12, <2>2
  <2>4. F(k) = F(n + 1)
    BY <1>9, <2>2, <2>3
  <2> QED BY <1>1, <1>4, <1>11, <2>4 DEF k
<1>13. later \subseteq 0..N /\ later # {}
  BY <1>1, <1>12
<1>14. PICK l \in later : \A k \in later : l <= k
  <2> HIDE DEF later
  <2>1. PICK l \in later : \A k \in 0..l-1 : k \notin later
    BY <1>1, <1>13, LeastIndex
  <2>2. ASSUME NEW k \in later PROVE l <= k
    <3>1. k \in 0..N /\ l \in 0..N
      BY <1>13
    <3>2. k \notin 0..l-1
      BY <2>1
    <3> QED BY <1>1, <3>1, <3>2
  <2> QED BY <2>1, <2>2
<1>15. l \in n+1..N /\ W(l) # <<>> /\ E = FullOpen(c, pts, l)
  <2>1. (CHOOSE i \in later : \A k \in later : i <= k) = l
    <3> DEFINE x == CHOOSE i \in later : \A k \in later : i <= k
    <3>1. x \in later /\ \A k \in later : x <= k
      <4> HIDE DEF later
      <4> QED BY <1>14, Zenon
    <3>2. x <= l /\ l <= x
      <4> HIDE DEF later, x
      <4> QED BY <1>14, <3>1
    <3>3. x \in Int /\ l \in Int
      <4> HIDE DEF x
      <4> QED BY <3>1
    <3> HIDE DEF x
    <3>4. x = l
      BY <3>2, <3>3
    <3> QED BY <3>4 DEF x
  <2> QED BY <1>5, <1>13, <2>1
<1>16. F(l) = F(n + 1) /\ W(l)[1] = next /\ W(l) \in Seq(Nat) /\ l \in 1..N /\ l # 1
  <2>1. l \in n+1..N+1 /\ l \in 1..N /\ l # 1
    BY <1>1, <1>15
  <2>2. \A i \in n+1..l-1 : W(i) = <<>>
    <3> SUFFICES ASSUME NEW i \in n+1..l-1, W(i) # <<>> PROVE FALSE
      OBVIOUS
    <3>1. i \in later /\ i < l
      BY <1>1, <1>15
    <3> QED BY <1>14, <3>1
  <2>3. F(l) = F(n + 1)
    BY <1>9, <2>1, <2>2
  <2> QED BY <1>3, <1>11, <1>15, <2>1, <2>3
<1>17. gridIndex(next) \in Nat
  BY <1>11, GridIndexNat
<1>18. E = gridOpen(W(l), IF l = n + 1 THEN cold ELSE -1)
  <2>1. E = gridOpen(W(l), IF W(l - 1) = <<>> THEN -1 ELSE gridColdEnd(W(l - 1)))
    BY <1>8, <1>15, <1>16
  <2>2. CASE l = n + 1
    <3>1. l - 1 = n /\ W(n) # <<>>
      BY <1>1, <2>2 DEF W
    <3> QED BY <2>1, <2>2, <3>1
  <2>3. CASE l # n + 1
    <3>1. l - 1 \in n+1..N /\ l - 1 < l
      BY <1>1, <1>15, <2>3
    <3>2. l - 1 \notin later
      BY <1>14, <3>1
    <3>3. W(l - 1) = <<>>
      BY <3>1, <3>2
    <3> QED BY <2>1, <2>3, <3>3
  <2> QED BY <2>2, <2>3
<1>19. l # n + 1 \/ cold <= gridIndex(next) => E = gridIndex(next)
  BY <1>6, <1>15, <1>16, <1>18, OpenOn
<1>20. skips <=> l # n + 1
  <2>1. c \in Seq(Cut) /\ \A i \in 1..N : c[i].ms \in Nat
    BY DEF Sorted, N
  <2>2. ASSUME skips PROVE l # n + 1
    <3>1. n + 2 \in 1..N /\ c[n+2].ms \in Nat /\ n + 1 + 1 = n + 2
      BY <1>1, <2>1, <2>2
    <3>2. FirstIs(pts, c[n+2].ms, F(n + 2))
      BY <1>1, <3>1, FirstAtFirst DEF From, F, N
    <3>3. F(n + 2) <= F(n + 1)
      <4> SUFFICES ASSUME ~(F(n + 2) <= F(n + 1)) PROVE FALSE
        OBVIOUS
      <4>1. F(n + 1) < F(n + 2)
        BY <1>11, <3>2 DEF FirstIs
      <4>2. pts[F(n + 1)] < c[n+2].ms
        BY <1>11, <3>2, <4>1 DEF FirstIs, m
      <4> QED BY <1>11, <2>2, <3>1, <4>2
    <3>4. F(n + 1) <= F(n + 2) /\ F(n + 2) \in 1..m+1
      BY <1>3, <1>11, <3>1
    <3>5. F(n + 1) = F(n + 1 + 1)
      BY <1>11, <3>1, <3>3, <3>4
    <3>6. W(n + 1) = <<>>
      BY <1>3, <1>11, <3>5
    <3> QED BY <1>15, <3>6
  <2>3. ASSUME l # n + 1 PROVE skips
    <3>1. n + 1 \in n+1..N /\ n + 1 < l /\ n + 2 \in 1..N /\ n + 1 + 1 = n + 2
      BY <1>1, <1>15, <2>3
    <3>2. n + 1 \notin later
      BY <1>14, <3>1
    <3>3. W(n + 1) = <<>>
      BY <3>1, <3>2
    <3>4. F(n + 1) = F(n + 2)
      BY <1>3, <1>11, <3>1, <3>3
    <3>5. FirstIs(pts, c[n+2].ms, F(n + 2))
      BY <1>1, <2>1, <3>1, FirstAtFirst DEF From, F, N
    <3>6. pts[F(n + 2)] >= c[n+2].ms
      BY <1>11, <3>4, <3>5 DEF FirstIs, m
    <3> QED BY <1>11, <3>1, <3>4, <3>6
  <2> QED BY <2>2, <2>3
<1>21. ~skips => W(n + 1) # <<>> /\ W(n + 1)[1] = next /\ E = gridOpen(W(n + 1), cold) /\ E = FullOpen(c, pts, n + 1)
  BY <1>15, <1>16, <1>18, <1>20
<1> QED BY <1>11, <1>19, <1>20, <1>21

\* Only the next cut counts, and the one after it where a window ends past the first frame after it.
Spilling(c, pts, n) ==
  /\ FullWindow(c, pts, n) # <<>> /\ FullNext(c, pts, n) # -1
  /\ gridColdEnd(FullWindow(c, pts, n)) > gridIndex(FullNext(c, pts, n))
More(c, e) == Sorted(c) /\ Sorted(e) /\ Len(c) <= Len(e) /\ \A i \in 1..Len(c) : c[i] = e[i]

LEMMA WindowSame ==
    ASSUME NEW c, NEW e, More(c, e), NEW pts \in Seq(Nat), NEW n \in 1..Len(c), n < Len(c)
    PROVE  /\ FullWindow(c, pts, n) = FullWindow(e, pts, n) /\ FullNext(c, pts, n) = FullNext(e, pts, n)
           /\ FullOpen(c, pts, n) = FullOpen(e, pts, n)
<1>1. Len(c) \in Nat /\ Len(e) \in Nat /\ n \in Nat
  BY DEF More, Sorted
<1>2. ASSUME NEW k \in 1..Len(c), k < Len(c)
      PROVE  WindowTo(c, pts, k) = WindowTo(e, pts, k) /\ FullWindow(c, pts, k) = FullWindow(e, pts, k)
  <2>1. k + 1 \in 1..Len(c) /\ k < Len(e)
    BY <1>1, <1>2 DEF More
  <2>2. c[k+1] = e[k+1] /\ c[k] = e[k]
    BY <2>1 DEF More
  <2>3. WindowTo(c, pts, k) = WindowTo(e, pts, k)
    BY <1>2, <2>1, <2>2 DEF WindowTo
  <2> QED BY <2>2, <2>3 DEF FullWindow
<1>3. FullWindow(c, pts, n) = FullWindow(e, pts, n) /\ FullNext(c, pts, n) = FullNext(e, pts, n)
  BY <1>2 DEF FullNext
<1>4. n # 1 => FullWindow(c, pts, n - 1) = FullWindow(e, pts, n - 1)
  <2> SUFFICES ASSUME n # 1 PROVE FullWindow(c, pts, n - 1) = FullWindow(e, pts, n - 1)
    OBVIOUS
  <2>1. n - 1 \in 1..Len(c) /\ n - 1 < Len(c)
    BY <1>1
  <2> QED BY <1>2, <2>1
<1>5. FullOpen(c, pts, n) = FullOpen(e, pts, n)
  BY <1>3, <1>4 DEF FullOpen
<1> QED BY <1>3, <1>5

LEMMA EndSame ==
    ASSUME NEW c, NEW e, More(c, e), NEW pts \in Seq(Nat), NEW n \in 1..Len(c), n < Len(c),
           FullWindow(c, pts, n) # <<>>, Spilling(c, pts, n) => n + 2 <= Len(c)
    PROVE  FullEnd(c, pts, n) = FullEnd(e, pts, n)
<1> DEFINE next == FullNext(c, pts, n)
           cold == gridColdEnd(FullWindow(c, pts, n))
<1>1. Len(c) \in Nat /\ Len(e) \in Nat /\ n \in Nat /\ Len(c) <= Len(e) /\ Sorted(c) /\ Sorted(e) /\ n \in 1..Len(e)
  BY DEF More, Sorted
<1>2. FullWindow(e, pts, n) = FullWindow(c, pts, n) /\ FullNext(e, pts, n) = next
  BY WindowSame
<1>3. EndsAt(c, pts, n)
  BY <1>1, EndIs
<1>4. EndsAt(e, pts, n)
  BY <1>1, <1>2, EndIs
<1>5. cold \in Nat
  <2>1. FullWindow(c, pts, n) \in Seq(Nat)
    BY <1>1, WindowIs DEF Windowed
  <2> QED BY <2>1, GridOpenType
<1> HIDE DEF next, cold
<1>6. CASE next = -1
  BY <1>2, <1>3, <1>4, <1>6 DEF EndsAt, next
<1>7. CASE next # -1 /\ cold <= gridIndex(next)
  <2>1. FullEnd(c, pts, n) = gridIndex(next)
    BY <1>3, <1>7 DEF EndsAt, next, cold
  <2>2. FullEnd(e, pts, n) = gridIndex(next)
    BY <1>2, <1>4, <1>7 DEF EndsAt, next, cold
  <2> QED BY <2>1, <2>2
<1>8. CASE next # -1 /\ ~(cold <= gridIndex(next))
  <2>1. next \in Nat
    BY <1>3, <1>8 DEF EndsAt, next
  <2>2. gridIndex(next) \in Nat
    BY <2>1, GridIndexNat
  <2>3. cold > gridIndex(next)
    BY <1>5, <1>8, <2>2
  <2>4. n + 2 <= Len(c) /\ n + 2 \in 1..Len(c) /\ n + 2 <= Len(e) /\ n + 1 \in 1..Len(c) /\ n + 1 < Len(c)
    <3>1. n + 2 <= Len(c)
      BY <1>8, <2>3 DEF Spilling, next, cold
    <3> QED BY <1>1, <3>1
  <2>5. c[n+2] = e[n+2]
    BY <2>4 DEF More
  <2>6. FullWindow(c, pts, n + 1) = FullWindow(e, pts, n + 1)
    BY <2>4, WindowSame
  <2>7. CASE next >= c[n+2].ms
    <3>1. FullEnd(c, pts, n) = gridIndex(next)
      BY <1>3, <1>8, <2>4, <2>7 DEF EndsAt, next
    <3>2. FullEnd(e, pts, n) = gridIndex(next)
      BY <1>2, <1>4, <1>8, <2>4, <2>5, <2>7 DEF EndsAt, next
    <3> QED BY <3>1, <3>2
  <2>8. CASE ~(next >= c[n+2].ms)
    <3>1. FullEnd(c, pts, n) = gridOpen(FullWindow(c, pts, n + 1), cold)
      BY <1>3, <1>8, <2>8 DEF EndsAt, next, cold
    <3>2. FullEnd(e, pts, n) = gridOpen(FullWindow(e, pts, n + 1), cold)
      BY <1>2, <1>4, <1>8, <2>5, <2>8 DEF EndsAt, next, cold
    <3> QED BY <2>6, <3>1, <3>2
  <2> QED BY <2>7, <2>8
<1> QED BY <1>6, <1>7, <1>8

\* The times of a track of the finished file.
LEMMA TrackTimes ==
    ASSUME NEW f \in Files, NEW t
    PROVE  TimesOf(t, f.blocks) \in Seq(Nat) /\ TimesOf(t, f.blocks) = Heard(t, f, Len(f.blocks))
<1>1. f.blocks \in Seq(Blocks)
  BY FileTypes
<1> QED BY <1>1, TimesOfType, HeardSteps

\* A window of the full pass, track by track.
PassOf(f, c, n) ==
  LET own == f.grid /\ FullWindow(c, TimesOf("a", f.blocks), n) # <<>>
  IN [frames |-> [t \in f.tracks |-> FullWindow(c, TimesOf(t, f.blocks), n)],
      next   |-> [t \in f.tracks |-> FullNext(c, TimesOf(t, f.blocks), n)],
      open   |-> IF own THEN FullOpen(c, TimesOf("a", f.blocks), n) ELSE -1,
      end    |-> IF own THEN FullEnd(c, TimesOf("a", f.blocks), n) ELSE -1]
LEMMA PassIs == ASSUME NEW f \in Files, NEW c, NEW n PROVE FullPass(f, c, n) = PassOf(f, c, n)
<1> DEFINE x(t) == TimesOf(t, f.blocks)
           pts == [t \in f.tracks |-> x(t)]
           own == f.grid /\ FullWindow(c, x("a"), n) # <<>>
<1>1. f.grid => "a" \in f.tracks
  BY FileTypes
<1>2. (\A t \in f.tracks : pts[t] = x(t)) /\ (f.grid => pts["a"] = x("a"))
  BY <1>1
<1>3. FullPass(f, c, n) =
        [frames |-> [t \in f.tracks |-> FullWindow(c, pts[t], n)],
         next   |-> [t \in f.tracks |-> FullNext(c, pts[t], n)],
         open   |-> IF f.grid /\ FullWindow(c, pts["a"], n) # <<>> THEN FullOpen(c, pts["a"], n) ELSE -1,
         end    |-> IF f.grid /\ FullWindow(c, pts["a"], n) # <<>> THEN FullEnd(c, pts["a"], n) ELSE -1]
  BY DEF FullPass
<1>4. PassOf(f, c, n) =
        [frames |-> [t \in f.tracks |-> FullWindow(c, x(t), n)], next |-> [t \in f.tracks |-> FullNext(c, x(t), n)],
         open   |-> IF own THEN FullOpen(c, x("a"), n) ELSE -1, end |-> IF own THEN FullEnd(c, x("a"), n) ELSE -1]
  BY DEF PassOf
<1> HIDE DEF pts, x
<1>5. (f.grid /\ FullWindow(c, pts["a"], n) # <<>>) <=> own
  BY <1>2
<1> QED BY <1>2, <1>3, <1>4, <1>5

LEMMA PassSame ==
    ASSUME NEW f \in Files, NEW c, NEW e, More(c, e), NEW n \in 1..Len(c), n < Len(c),
           f.grid /\ Spilling(c, TimesOf("a", f.blocks), n) => n + 2 <= Len(c)
    PROVE  FullPass(f, c, n) = FullPass(f, e, n)
<1> DEFINE x(t) == TimesOf(t, f.blocks)
           own(p) == f.grid /\ FullWindow(p, x("a"), n) # <<>>
<1>1. \A t : x(t) \in Seq(Nat)
  BY TrackTimes
<1>2. f.grid /\ Spilling(c, x("a"), n) => n + 2 <= Len(c)
  OBVIOUS
<1>3. \A p : PassOf(f, p, n) =
        [frames |-> [t \in f.tracks |-> FullWindow(p, x(t), n)], next |-> [t \in f.tracks |-> FullNext(p, x(t), n)],
         open   |-> IF own(p) THEN FullOpen(p, x("a"), n) ELSE -1, end |-> IF own(p) THEN FullEnd(p, x("a"), n) ELSE -1]
  BY DEF PassOf
<1> HIDE DEF x
<1>4. \A t : FullWindow(c, x(t), n) = FullWindow(e, x(t), n) /\ FullNext(c, x(t), n) = FullNext(e, x(t), n)
  BY <1>1, WindowSame
<1>5. FullOpen(c, x("a"), n) = FullOpen(e, x("a"), n)
  BY <1>1, WindowSame
<1>6. (own(c) <=> own(e)) /\ (own(c) => FullEnd(c, x("a"), n) = FullEnd(e, x("a"), n))
  BY <1>1, <1>2, <1>4, EndSame
<1> HIDE DEF own
<1>7. PassOf(f, c, n) = PassOf(f, e, n)
  BY <1>3, <1>4, <1>5, <1>6
<1> QED BY <1>7, PassIs

-----------------------------------------------------------------------------
(* What a walk of a part of the file reads.                                 *)

\* A track all of whose blocks are among the first i has been heard.
LEMMA HeardAll ==
    ASSUME NEW f \in Files, NEW t, NEW i \in 0..Len(f.blocks), \A j \in 1..Len(f.blocks) : f.blocks[j].t = t => j <= i
    PROVE  Heard(t, f, i) = TimesOf(t, f.blocks)
<1> DEFINE n == Len(f.blocks)
           S == {d \in 0..n-i : Heard(t, f, i + d) = Heard(t, f, i)}
<1>1. n \in Nat /\ i \in 0..n /\ n - i \in Nat /\ i + 0 = i
  BY FileTypes
<1>2. \A k \in 1..n : NextHeard(t, f, k)
  BY HeardSteps
<1>3. 0 \in S
  BY <1>1
<1>4. ASSUME NEW d \in 1..n-i, d - 1 \in S PROVE d \in S
  <2> DEFINE k == i + d
  <2>1. k \in 1..n /\ k > i /\ d \in 0..n-i /\ i + (d - 1) = k - 1
    BY <1>1
  <2> HIDE DEF k
  <2>2. f.blocks[k].t # t
    BY <1>1, <2>1
  <2>3. Heard(t, f, k) = Heard(t, f, k - 1)
    BY <1>2, <2>1, <2>2 DEF NextHeard
  <2> QED BY <1>4, <2>1, <2>3 DEF k
<1>5. \A d \in 0..n-i : d \in S
  <2> HIDE DEF S
  <2> QED BY <1>1, <1>3, <1>4, UpTo
<1>6. n - i \in S /\ i + (n - i) = n
  BY <1>1, <1>5
<1> QED BY <1>6, TrackTimes

\* What a walk takes of the times h of a track it read.
Taken(h, c, n) == SubSeq(h, IF n = 1 THEN 1 ELSE FirstAt(h, c[n].ms), Len(h))

\* The walk met the first block at or past the next cut.
TakenTo(f, t, c, n, i) ==
  /\ Taken(Heard(t, f, i - 1), c, n) = FullWindow(c, TimesOf(t, f.blocks), n)
  /\ FullNext(c, TimesOf(t, f.blocks), n) = f.blocks[i].ms
LEMMA TakenCrossed ==
    ASSUME NEW f \in Files, NEW t, NEW c, Sorted(c), NEW n \in 1..Len(c), n < Len(c),
           NEW i \in 1..Len(f.blocks), f.blocks[i].t = t, f.blocks[i].ms >= c[n+1].ms,
           \A j \in 1..i-1 : f.blocks[j].t = t => f.blocks[j].ms < c[n+1].ms
    PROVE  TakenTo(f, t, c, n, i)
<1> DEFINE h == Heard(t, f, i - 1)
           x == TimesOf(t, f.blocks)
           m == Len(h)
           y == c[n+1].ms
           z == c[n].ms
<1>1. i - 1 \in 0..Len(f.blocks) /\ i \in 0..Len(f.blocks) /\ Len(f.blocks) \in Nat /\ Len(f.blocks) \in i..Len(f.blocks)
      /\ Len(f.blocks) \in i-1..Len(f.blocks)
  BY FileTypes
<1>2. h \in Seq(Nat) /\ x \in Seq(Nat) /\ m \in Nat /\ x = Heard(t, f, Len(f.blocks))
  <2>1. h \in Seq(Nat)
    BY <1>1, HeardSteps
  <2>2. x \in Seq(Nat) /\ x = Heard(t, f, Len(f.blocks))
    BY TrackTimes
  <2> HIDE DEF h, x
  <2> QED BY <2>1, <2>2
<1>3. Begins(h, x)
  BY <1>1, <1>2, HeardGrows
<1>4. f.blocks[i].ms \in Nat /\ Heard(t, f, i) = Append(h, f.blocks[i].ms)
  BY HeardSteps DEF NextHeard
<1>5. Begins(Heard(t, f, i), x)
  BY <1>1, <1>2, HeardGrows
<1>6. HeardOf(t, f, i - 1, h)
  BY <1>1, HeardAre
<1>7. Len(c) \in Nat /\ y \in Nat /\ z \in Nat /\ n \in Nat
  <2>1. n + 1 \in 1..Len(c) /\ n \in 1..Len(c) /\ Len(c) \in Nat
    BY DEF Sorted
  <2> QED BY <2>1 DEF Sorted
<1> HIDE DEF h, x
<1>8. Len(x) \in Nat /\ m + 1 <= Len(x) /\ x[m + 1] = f.blocks[i].ms /\ \A k \in 1..m : x[k] = h[k]
  <2> DEFINE u == Append(h, f.blocks[i].ms)
  <2>1. Len(u) = m + 1 /\ u[m + 1] = f.blocks[i].ms /\ m + 1 \in 1..Len(u)
    BY <1>2, <1>4
  <2> HIDE DEF u
  <2>2. Begins(u, x)
    BY <1>4, <1>5 DEF u
  <2> QED BY <1>2, <1>3, <2>1, <2>2 DEF Begins
<1>9. \A k \in 1..m : h[k] < y
  <2> TAKE k \in 1..m
  <2>1. PICK j \in 1..i-1 : f.blocks[j].t = t /\ f.blocks[j].ms = h[k]
    BY <1>6 DEF HeardOf
  <2> QED BY <2>1
<1> HIDE DEF m
<1>10. FirstAt(x, y) = m + 1
  <2>1. m + 1 \in 1..Len(x)+1 /\ m + 1 <= Len(x) /\ x[m + 1] >= y
    BY <1>2, <1>8
  <2>2. ASSUME NEW k \in 1..Len(x), k < m + 1 PROVE x[k] < y
    <3>1. k \in 1..m
      BY <1>2, <2>2
    <3> QED BY <1>8, <1>9, <3>1
  <2> HIDE DEF y
  <2> QED BY <1>2, <1>7, <2>1, <2>2, FirstAtOf
<1>11. WindowTo(c, x, n) = m + 1 /\ FullNext(c, x, n) = f.blocks[i].ms
  BY <1>8, <1>10 DEF WindowTo, FullNext
<1>12. FullWindow(c, x, n) = SubSeq(x, IF n = 1 THEN 1 ELSE FirstAt(x, z), m)
  <2>1. WindowTo(c, x, n) - 1 = m
    BY <1>2, <1>11
  <2> QED BY <2>1 DEF FullWindow
<1>13. Taken(h, c, n) = SubSeq(h, IF n = 1 THEN 1 ELSE FirstAt(h, z), m)
  BY DEF Taken, m
<1> HIDE DEF z
<1>14. FirstIs(h, z, FirstAt(h, z)) /\ FirstIs(x, z, FirstAt(x, z))
  BY <1>2, <1>7, FirstAtFirst
<1>15. (FirstAt(h, z) <= m => FirstAt(x, z) = FirstAt(h, z)) /\ (FirstAt(h, z) > m => FirstAt(x, z) > m)
  BY <1>2, <1>3, <1>7, FirstAtBegins DEF m
<1>16. FirstAt(h, z) \in 1..m+1 /\ FirstAt(x, z) \in Nat \ {0} /\ m <= Len(h) /\ m <= Len(x) /\ Len(h) = m
  BY <1>2, <1>8, <1>14 DEF FirstIs, m
<1>17. CASE n = 1
  <2>1. SubSeq(h, 1, m) = SubSeq(x, 1, m)
    <3>1. h \in Seq(Nat) /\ x \in Seq(Nat) /\ Begins(h, x) /\ m \in Nat /\ m <= Len(h) /\ 1 \in Nat \ {0}
      BY <1>2, <1>3, <1>16
    <3> QED BY <3>1, SliceSame, Zenon
  <2> QED BY <1>11, <1>12, <1>13, <1>17, <2>1 DEF TakenTo, h, x
<1>18. CASE n # 1 /\ FirstAt(h, z) <= m
  <2>1. FirstAt(h, z) \in Nat \ {0}
    BY <1>16
  <2>2. SubSeq(h, FirstAt(h, z), m) = SubSeq(x, FirstAt(h, z), m)
    <3>1. h \in Seq(Nat) /\ x \in Seq(Nat) /\ Begins(h, x) /\ m \in Nat /\ m <= Len(h)
      BY <1>2, <1>3, <1>16
    <3> QED BY <2>1, <3>1, SliceSame, Zenon
  <2> QED BY <1>11, <1>12, <1>13, <1>15, <1>18, <2>2 DEF TakenTo, h, x
<1>19. CASE n # 1 /\ FirstAt(h, z) > m
  <2>1. FirstAt(h, z) \in Nat \ {0}
    BY <1>16
  <2>2. SubSeq(h, FirstAt(h, z), m) = <<>>
    BY <1>2, <1>16, <1>19, <2>1, SliceIs
  <2>3. SubSeq(x, FirstAt(x, z), m) = <<>>
    BY <1>2, <1>15, <1>16, <1>19, SliceIs
  <2> QED BY <1>11, <1>12, <1>13, <1>19, <2>2, <2>3 DEF TakenTo, h, x
<1> QED BY <1>2, <1>16, <1>17, <1>18, <1>19 DEF TakenTo

\* The walk read the whole track, and no block of it is at or past the next cut.
LEMMA TakenWhole ==
    ASSUME NEW f \in Files, NEW t, NEW c, Sorted(c), NEW n \in 1..Len(c),
           \A j \in 1..Len(f.blocks) : f.blocks[j].t = t /\ n < Len(c) => f.blocks[j].ms < c[n+1].ms
    PROVE  /\ Taken(TimesOf(t, f.blocks), c, n) = FullWindow(c, TimesOf(t, f.blocks), n)
           /\ FullNext(c, TimesOf(t, f.blocks), n) = -1
<1> DEFINE x == TimesOf(t, f.blocks)
           m == Len(x)
<1>1. x \in Seq(Nat) /\ m \in Nat /\ x = Heard(t, f, Len(f.blocks)) /\ Len(f.blocks) \in 0..Len(f.blocks)
  BY TrackTimes, FileTypes
<1>2. HeardOf(t, f, Len(f.blocks), x)
  BY <1>1, HeardAre
<1> HIDE DEF x
<1>3. WindowTo(c, x, n) = m + 1
  <2>1. CASE n < Len(c)
    <3> DEFINE y == c[n+1].ms
    <3>1. y \in Nat
      <4>1. n + 1 \in 1..Len(c)
        BY <2>1 DEF Sorted
      <4> QED BY <4>1 DEF Sorted
    <3>2. ASSUME NEW k \in 1..m PROVE x[k] < y
      <4>1. PICK j \in 1..Len(f.blocks) : f.blocks[j].t = t /\ f.blocks[j].ms = x[k]
        BY <1>2 DEF HeardOf
      <4> QED BY <2>1, <4>1
    <3> HIDE DEF y
    <3>3. m + 1 \in 1..Len(x)+1 /\ ~(m + 1 <= Len(x))
      BY <1>1
    <3>4. FirstAt(x, y) = m + 1
      BY <1>1, <3>1, <3>2, <3>3, FirstAtOf
    <3> QED BY <2>1, <3>4 DEF WindowTo, y
  <2>2. CASE ~(n < Len(c))
    BY <2>2 DEF WindowTo
  <2> QED BY <2>1, <2>2
<1>4. FullNext(c, x, n) = -1
  BY <1>1, <1>3 DEF FullNext
<1>5. FullWindow(c, x, n) = Taken(x, c, n)
  <2>1. WindowTo(c, x, n) - 1 = m
    BY <1>1, <1>3
  <2> QED BY <2>1 DEF FullWindow, Taken
<1> QED BY <1>4, <1>5 DEF x

\* The track ended before the window.
LEMMA TakenEnded ==
    ASSUME NEW f \in Files, NEW t, NEW c, Sorted(c), NEW n \in 1..Len(c), NEW i \in 0..Len(f.blocks),
           \A j \in 1..Len(f.blocks) : f.blocks[j].t = t => f.blocks[j].ms < c[n].ms
    PROVE  /\ Taken(Heard(t, f, i), c, n) = FullWindow(c, TimesOf(t, f.blocks), n)
           /\ FullNext(c, TimesOf(t, f.blocks), n) = -1
<1> DEFINE x == TimesOf(t, f.blocks)
           h == Heard(t, f, i)
           z == c[n].ms
<1>1. x \in Seq(Nat) /\ h \in Seq(Nat) /\ x = Heard(t, f, Len(f.blocks)) /\ Len(f.blocks) \in 0..Len(f.blocks)
      /\ Len(f.blocks) \in i..Len(f.blocks) /\ Len(x) \in Nat /\ Len(h) \in Nat
  <2>1. h \in Seq(Nat)
    BY HeardSteps
  <2>2. x \in Seq(Nat) /\ x = Heard(t, f, Len(f.blocks))
    BY TrackTimes
  <2>3. Len(f.blocks) \in 0..Len(f.blocks) /\ Len(f.blocks) \in i..Len(f.blocks)
    BY FileTypes
  <2> HIDE DEF h, x
  <2> QED BY <2>1, <2>2, <2>3
<1>2. HeardOf(t, f, Len(f.blocks), x)
  BY <1>1, HeardAre
<1>3. Begins(h, x)
  BY <1>1, HeardGrows
<1>4. z \in Nat /\ Len(c) \in Nat /\ (n = 1 => z = 0) /\ n \in Nat /\ (n < Len(c) => z < c[n+1].ms /\ c[n+1].ms \in Nat)
  <2>1. Len(c) \in Nat /\ c # <<>>
    BY DEF Sorted
  <2>2. z \in Nat /\ (n = 1 => z = 0)
    BY <2>1 DEF Sorted
  <2>3. ASSUME n < Len(c) PROVE z < c[n+1].ms /\ c[n+1].ms \in Nat
    <3>1. n + 1 \in 1..Len(c) /\ n < n + 1
      BY <2>1, <2>3
    <3> QED BY <3>1 DEF Sorted, Rise
  <2> QED BY <2>1, <2>2, <2>3
<1>5. \A j \in 1..Len(f.blocks) : f.blocks[j].ms \in Nat
  BY HeardSteps DEF NextHeard
<1>6. \A j \in 1..Len(f.blocks) : f.blocks[j].t = t /\ n < Len(c) => f.blocks[j].ms < c[n+1].ms
  BY <1>4, <1>5
<1>7. Taken(x, c, n) = FullWindow(c, x, n) /\ FullNext(c, x, n) = -1
  BY <1>6, TakenWhole
<1> HIDE DEF x, h
<1>8. \A k \in 1..Len(x) : x[k] < z /\ x[k] \in Nat
  <2> TAKE k \in 1..Len(x)
  <2>1. PICK j \in 1..Len(f.blocks) : f.blocks[j].t = t /\ f.blocks[j].ms = x[k]
    BY <1>2 DEF HeardOf
  <2> QED BY <1>1, <2>1
<1> HIDE DEF z
<1>9. ASSUME NEW s \in Seq(Nat), Len(s) <= Len(x), \A k \in 1..Len(s) : s[k] = x[k] PROVE Taken(s, c, n) = <<>>
  <2>1. Len(s) \in Nat /\ \A k \in 1..Len(s) : s[k] < z
    <3>1. ASSUME NEW k \in 1..Len(s) PROVE s[k] < z
      <4>1. k \in 1..Len(x) /\ s[k] = x[k]
        BY <1>1, <1>9
      <4> QED BY <1>8, <4>1
    <3> QED BY <3>1
  <2>2. CASE n = 1
    <3>1. ASSUME NEW k \in 1..Len(s) PROVE FALSE
      <4>1. s[k] < 0 /\ s[k] \in Nat
        BY <1>4, <2>1, <2>2
      <4> QED BY <4>1
    <3>2. Len(s) = 0
      <4>1. Len(s) >= 1 => 1 \in 1..Len(s)
        BY <2>1
      <4> QED BY <2>1, <3>1, <4>1
    <3>3. SubSeq(s, 1, Len(s)) = <<>>
      BY <2>1, <3>2, SliceIs
    <3> QED BY <2>2, <3>3 DEF Taken
  <2>3. CASE n # 1
    <3>1. Len(s) + 1 \in 1..Len(s)+1 /\ ~(Len(s) + 1 <= Len(s))
      BY <2>1
    <3>2. FirstAt(s, z) = Len(s) + 1
      BY <1>4, <2>1, <3>1, FirstAtOf
    <3>3. SubSeq(s, Len(s) + 1, Len(s)) = <<>>
      <4>1. Len(s) + 1 \in Nat \ {0} /\ Len(s) < Len(s) + 1 /\ Len(s) <= Len(s)
        BY <2>1
      <4> QED BY <2>1, <4>1, SliceIs
    <3> QED BY <2>3, <3>2, <3>3 DEF Taken, z
  <2> QED BY <2>2, <2>3
<1>10. Taken(h, c, n) = <<>> /\ Taken(x, c, n) = <<>>
  BY <1>1, <1>3, <1>9 DEF Begins
<1> QED BY <1>7, <1>10 DEF x, h

-----------------------------------------------------------------------------
(* A walk for a window of the plan, of the file as far as it is written.    *)

Waiting(n) == {t \in file.tracks : ~trackEndedBefore(t, plan.cuts[n].ms)}

\* cross: each track's first block past the window, 0 if none is written; last: where the walk stops; seen: the
\* latest time of each track.
Walks(n, w, cross, last, seen) ==
  /\ cross \in [file.tracks -> 0..written] /\ last \in 0..written
  /\ \A t \in file.tracks :
       IF cross[t] = 0
       THEN \A i \in 1..written : file.blocks[i].t = t /\ n < Len(plan.cuts) => file.blocks[i].ms < plan.cuts[n+1].ms
       ELSE /\ n < Len(plan.cuts) /\ file.blocks[cross[t]].t = t /\ file.blocks[cross[t]].ms >= plan.cuts[n+1].ms
            /\ \A i \in 1..cross[t]-1 : file.blocks[i].t = t => file.blocks[i].ms < plan.cuts[n+1].ms
  /\ IF \E t \in Waiting(n) : cross[t] = 0 THEN last = written ELSE \A t \in Waiting(n) : cross[t] <= last
  /\ seen \in [file.tracks -> Nat]
  /\ \A t \in file.tracks : \A i \in 1..written : file.blocks[i].t = t => file.blocks[i].ms <= seen[t]
  /\ w.frames \in [file.tracks -> Seq(Nat)]
  /\ \A t \in file.tracks :
       w.frames[t] = Taken(Heard(t, file, IF cross[t] \in 1..last THEN cross[t] - 1 ELSE last), plan.cuts, n)
  /\ w.next = [t \in file.tracks |-> IF cross[t] \in 1..last THEN file.blocks[cross[t]].ms ELSE -1]
  /\ w.ended \in [file.tracks -> Nat \union {-1}]
  /\ \A t \in file.tracks :
       w.ended[t] = IF (\E u \in Waiting(n) : cross[u] = 0) /\ cross[t] = 0 /\ seen[t] > ended[t]
                    THEN seen[t] ELSE ended[t]

LEMMA WalkIs ==
    ASSUME file \in Files, written \in 0..Len(file.blocks), plan \in Plans,
           ended \in [file.tracks -> Nat \union {-1}], NEW n \in 1..Len(plan.cuts)
    PROVE  \E cross, last, seen : Walks(n, walkWindow(n), cross, last, seen)
<1> DEFINE B == Visible
           start == plan.cuts[n].ms
           crossing(t) == {i \in DOMAIN B : B[i].t = t /\ n < Len(plan.cuts) /\ B[i].ms >= plan.cuts[n+1].ms}
           cross == [t \in file.tracks |-> IF crossing(t) = {} THEN 0
                                           ELSE CHOOSE i \in crossing(t) : \A j \in crossing(t) : i <= j]
           waiting == {t \in file.tracks : ~trackEndedBefore(t, start)}
           atEnd == \E t \in waiting : cross[t] = 0
           last  == IF atEnd THEN Len(B)
                    ELSE CHOOSE i \in {cross[t] : t \in waiting} \union {0} : \A t \in waiting : cross[t] <= i
           window(t) ==
             LET read == TimesOf(t, SubSeq(B, 1, IF cross[t] \in 1..last THEN cross[t] - 1 ELSE last))
             IN SubSeq(read, IF n = 1 THEN 1 ELSE FirstAt(read, start), Len(read))
           seen(t) == LET met == {start} \union {B[i].ms : i \in {j \in DOMAIN B : B[j].t = t}}
                      IN CHOOSE ms \in met : \A other \in met : other <= ms
           w == [frames |-> [t \in file.tracks |-> window(t)],
                 next   |-> [t \in file.tracks |-> IF cross[t] \in 1..last THEN B[cross[t]].ms ELSE -1],
                 ended  |-> [t \in file.tracks |->
                               IF atEnd /\ cross[t] = 0 /\ seen(t) > ended[t] THEN seen(t) ELSE ended[t]]]
<1>1. walkWindow(n) = w
  BY DEF walkWindow
<1>2. /\ B \in Seq(Blocks) /\ Len(B) = written /\ written \in Nat /\ DOMAIN B = 1..written
      /\ \A i \in 1..written : B[i] = file.blocks[i] /\ B[i].ms \in Nat /\ i \in 1..Len(file.blocks)
      /\ \A k \in 0..written : SubSeq(B, 1, k) = SubSeq(file.blocks, 1, k)
  <2>1. file.blocks \in Seq(Blocks) /\ Len(file.blocks) \in Nat
    BY FileTypes
  <2>2. B \in Seq(Blocks) /\ Len(B) = written /\ \A i \in 1..written : B[i] = file.blocks[i]
    BY <2>1 DEF Visible
  <2>3. \A k \in 0..written : SubSeq(B, 1, k) = SubSeq(file.blocks, 1, k)
    BY <2>1 DEF Visible
  <2> HIDE DEF B
  <2>4. DOMAIN B = 1..written /\ written \in Nat /\ \A i \in 1..written : B[i] \in Blocks /\ i \in 1..Len(file.blocks)
    BY <2>1, <2>2
  <2>5. \A i \in 1..written : B[i].ms \in Nat
    BY <2>4 DEF Blocks
  <2> QED BY <2>2, <2>3, <2>4, <2>5
<1>3. start \in Nat /\ (n < Len(plan.cuts) => plan.cuts[n+1].ms \in Nat)
  <2>1. plan.cuts \in Seq(Cut) /\ Len(plan.cuts) \in Nat
    BY DEF Plans
  <2>2. plan.cuts[n] \in Cut /\ (n < Len(plan.cuts) => n + 1 \in 1..Len(plan.cuts))
    BY <2>1
  <2>3. n < Len(plan.cuts) => plan.cuts[n+1] \in Cut
    BY <2>1, <2>2
  <2> QED BY <2>2, <2>3 DEF Cut
<1>4. Waiting(n) = waiting
  BY DEF Waiting
<1> HIDE DEF B, start
<1>5. ASSUME NEW t \in file.tracks
      PROVE  /\ cross[t] \in 0..written
             /\ cross[t] = 0 => crossing(t) = {}
             /\ cross[t] # 0 => cross[t] \in crossing(t) /\ \A i \in crossing(t) : cross[t] <= i
  <2>1. crossing(t) \subseteq 1..written
    BY <1>2
  <2>2. cross[t] = IF crossing(t) = {} THEN 0 ELSE CHOOSE i \in crossing(t) : \A j \in crossing(t) : i <= j
    OBVIOUS
  <2> HIDE DEF crossing, cross
  <2>3. CASE crossing(t) = {}
    BY <1>2, <2>2, <2>3
  <2>4. CASE crossing(t) # {}
    <3>1. PICK m \in crossing(t) : \A k \in 0..m-1 : k \notin crossing(t)
      <4>1. crossing(t) \subseteq 0..written
        BY <2>1
      <4> QED BY <1>2, <2>4, <4>1, LeastIndex
    <3>2. \A j \in crossing(t) : m <= j
      BY <1>2, <2>1, <3>1
    <3>3. cross[t] \in crossing(t) /\ \A i \in crossing(t) : cross[t] <= i
      BY <2>2, <2>4, <3>2, Zenon
    <3> QED BY <2>1, <2>4, <3>3
  <2> QED BY <2>3, <2>4
<1>6. ASSUME NEW t \in file.tracks
      PROVE  IF cross[t] = 0
             THEN \A i \in 1..written : file.blocks[i].t = t /\ n < Len(plan.cuts) => file.blocks[i].ms < plan.cuts[n+1].ms
             ELSE /\ n < Len(plan.cuts) /\ file.blocks[cross[t]].t = t /\ file.blocks[cross[t]].ms >= plan.cuts[n+1].ms
                  /\ \A i \in 1..cross[t]-1 : file.blocks[i].t = t => file.blocks[i].ms < plan.cuts[n+1].ms
  <2> DEFINE k == cross[t]
  <2>1. \A i \in 1..written : i \in crossing(t) <=>
          file.blocks[i].t = t /\ n < Len(plan.cuts) /\ file.blocks[i].ms >= plan.cuts[n+1].ms
    BY <1>2
  <2>2. k \in 0..written /\ (k = 0 => crossing(t) = {}) /\ (k # 0 => k \in crossing(t) /\ \A i \in crossing(t) : k <= i)
    BY <1>5
  <2>3. \A i \in 1..written : file.blocks[i].ms \in Nat
    BY <1>2
  <2> HIDE DEF k, crossing
  <2>4. CASE k = 0
    BY <1>3, <2>1, <2>2, <2>3, <2>4 DEF k
  <2>5. CASE k # 0
    <3>1. k \in 1..written /\ k \in crossing(t)
      BY <1>2, <2>2, <2>5
    <3>2. ASSUME NEW i \in 1..k-1, file.blocks[i].t = t PROVE file.blocks[i].ms < plan.cuts[n+1].ms
      <4>1. i \in 1..written /\ ~(k <= i)
        BY <1>2, <3>1
      <4>2. i \notin crossing(t)
        BY <2>2, <2>5, <4>1
      <4> QED BY <1>3, <2>1, <2>3, <3>1, <3>2, <4>1, <4>2
    <3> QED BY <2>1, <2>5, <3>1, <3>2 DEF k
  <2> QED BY <2>4, <2>5
<1>7. cross \in [file.tracks -> 0..written]
  <2> DEFINE x(t) == IF crossing(t) = {} THEN 0 ELSE CHOOSE i \in crossing(t) : \A j \in crossing(t) : i <= j
  <2>1. \A t \in file.tracks : x(t) \in 0..written
    BY <1>5
  <2>2. cross = [t \in file.tracks |-> x(t)]
    OBVIOUS
  <2> HIDE DEF x, cross
  <2> QED BY <2>1, <2>2
<1> HIDE DEF cross, crossing
<1>8. last \in 0..written /\ IF atEnd THEN last = written ELSE \A t \in waiting : cross[t] <= last
  <2>1. CASE atEnd
    BY <1>2, <2>1
  <2>2. CASE ~atEnd
    <3> DEFINE S == {cross[t] : t \in waiting} \union {0}
    <3>1. S \subseteq 0..written /\ S # {}
      BY <1>2, <1>5
    <3>2. PICK m \in S : \A k \in S : k <= m
      <4> HIDE DEF S
      <4> QED BY <1>2, <3>1, GreatestIndex
    <3>3. \A t \in waiting : cross[t] <= m
      BY <3>2
    <3>4. last = CHOOSE i \in S : \A t \in waiting : cross[t] <= i
      BY <2>2
    <3> HIDE DEF S, waiting, last, atEnd
    <3>5. last \in S /\ \A t \in waiting : cross[t] <= last
      BY <3>2, <3>3, <3>4, Zenon
    <3> QED BY <2>2, <3>1, <3>5
  <2> QED BY <2>1, <2>2
<1> HIDE DEF last
<1>9. ASSUME NEW t \in file.tracks
      PROVE  window(t) = Taken(Heard(t, file, IF cross[t] \in 1..last THEN cross[t] - 1 ELSE last), plan.cuts, n)
  <2> DEFINE to == IF cross[t] \in 1..last THEN cross[t] - 1 ELSE last
  <2>1. to \in 0..written
    BY <1>2, <1>5, <1>8
  <2> HIDE DEF to
  <2>2. TimesOf(t, SubSeq(B, 1, to)) = Heard(t, file, to)
    BY <1>2, <2>1 DEF Heard
  <2> QED BY <2>2 DEF Taken, start, to
<1>10. \A t \in file.tracks : cross[t] \in 1..last => B[cross[t]].ms = file.blocks[cross[t]].ms
  <2> TAKE t \in file.tracks
  <2>1. cross[t] \in 1..last => cross[t] \in 1..written
    BY <1>2, <1>8
  <2> QED BY <1>2, <2>1
<1>11. ASSUME NEW t \in file.tracks
       PROVE  seen(t) \in Nat /\ \A i \in 1..written : file.blocks[i].t = t => file.blocks[i].ms <= seen(t)
  <2> DEFINE J == {j \in DOMAIN B : B[j].t = t}
             v == [i \in 1..written |-> B[i].ms]
             met == {start} \union {B[i].ms : i \in J}
  <2>1. J \in SUBSET (1..written) /\ v \in [1..written -> Nat] /\ written \in Nat
    BY <1>2
  <2>2. met = {start} \union {v[i] : i \in J}
    BY <1>2
  <2>3. seen(t) = CHOOSE ms \in met : \A other \in met : other <= ms
    OBVIOUS
  <2>4. \A m \in met : m \in Nat
    BY <1>2, <1>3
  <2>5. \A i \in 1..written : file.blocks[i].t = t => file.blocks[i].ms \in met
    BY <1>2
  <2> HIDE DEF J, v, met, seen
  <2>6. \E m \in met : m \in Nat /\ \A o \in met : o <= m
    BY <1>3, <2>1, <2>2, GreatestValue
  <2>7. seen(t) \in met /\ \A o \in met : o <= seen(t)
    BY <2>3, <2>6, Zenon
  <2> QED BY <2>4, <2>5, <2>7
<1> DEFINE met == [t \in file.tracks |-> seen(t)]
<1>12. met \in [file.tracks -> Nat] /\ \A t \in file.tracks : met[t] = seen(t)
  BY <1>11
<1>13. WindowTyped(n, w)
  <2> HIDE DEF w
  <2> QED BY <1>1, WindowType
<1>14. /\ \A t \in file.tracks : w.frames[t] = window(t)
       /\ \A t \in file.tracks :
            w.ended[t] = IF atEnd /\ cross[t] = 0 /\ seen(t) > ended[t] THEN seen(t) ELSE ended[t]
       /\ w.next = [t \in file.tracks |-> IF cross[t] \in 1..last THEN B[cross[t]].ms ELSE -1]
  <2> HIDE DEF window, seen, atEnd
  <2> QED OBVIOUS
<1>15. w.next = [t \in file.tracks |-> IF cross[t] \in 1..last THEN file.blocks[cross[t]].ms ELSE -1]
  <2> HIDE DEF w
  <2> QED BY <1>10, <1>14
<1>16. (\E t \in Waiting(n) : cross[t] = 0) <=> atEnd
  BY <1>4
<1> HIDE DEF w, met, window, seen, atEnd, waiting
<1>17. Walks(n, w, cross, last, met)
  BY <1>4, <1>6, <1>7, <1>8, <1>9, <1>11, <1>12, <1>13, <1>14, <1>15, <1>16, SMTT(30) DEF Walks, WindowTyped
<1> QED BY <1>1, <1>17


-----------------------------------------------------------------------------
(* What a walk for a settled window finds.                                  *)

Even == Interleaved(file) /\ EndsInside(file)

\* Track t is written past ms, or to its end.
Crossed(t, ms) ==
  \/ \E i \in 1..written : file.blocks[i].t = t /\ file.blocks[i].ms >= ms
  \/ \A i \in 1..Len(file.blocks) : file.blocks[i].t = t => i <= written
Seen(ms) == \A t \in file.tracks : Crossed(t, ms)

\* A walk for window n finds the end of every track, or a block past the window.
Ready(n) ==
  /\ n < Len(plan.cuts) => Seen(plan.cuts[n+1].ms)
  /\ n = Len(plan.cuts) => written = Len(file.blocks)

\* The ends e met by the walks are ends.
EndsKnown(e) == \A t \in file.tracks : e[t] >= 0 =>
                  \A i \in 1..Len(file.blocks) : file.blocks[i].t = t => file.blocks[i].ms <= e[t]

Right(n, w) ==
  /\ w.frames = [t \in file.tracks |-> FullWindow(plan.cuts, TimesOf(t, file.blocks), n)]
  /\ w.next = [t \in file.tracks |-> FullNext(plan.cuts, TimesOf(t, file.blocks), n)]
  /\ EndsKnown(w.ended)

LEMMA EndsBefore ==
    ASSUME NEW f \in Files, NEW c, Begun(f, c), EndsInside(f), NEW n \in 1..Len(c), NEW t, NEW e \in Nat, e <= c[n].ms,
           \A i \in 1..Len(f.blocks) : f.blocks[i].t = t => f.blocks[i].ms <= e
    PROVE  \A i \in 1..Len(f.blocks) : f.blocks[i].t = t => f.blocks[i].ms < c[n].ms
<1> DEFINE P == PlannedCuts(f)
           m == Len(f.blocks)
<1>1. /\ n \in 1..Len(P) /\ P \in Seq(Cut) /\ c[n] = P[n] /\ c[n].ms \in Nat
      /\ m \in Nat /\ f.blocks \in Seq(Blocks) /\ \A i \in 1..m : f.blocks[i].ms \in Nat
  <2>1. Len(c) \in Nat /\ Len(P) \in Nat /\ Len(c) <= Len(P) /\ P \in Seq(Cut) /\ c[n] = P[n] /\ c[n].ms \in Nat
    BY DEF Begun
  <2>2. m \in Nat /\ f.blocks \in Seq(Blocks)
    BY FileTypes
  <2>3. \A i \in 1..m : f.blocks[i].ms \in Nat
    BY HeardSteps DEF NextHeard
  <2> QED BY <2>1, <2>2, <2>3
<1>2. DOMAIN P = 1..Len(P) /\ DOMAIN f.blocks = 1..m
  BY <1>1
<1>3. ASSUME NEW i \in 1..m, f.blocks[i].t = t, f.blocks[i].ms >= P[n].ms PROVE FALSE
  <2>1. PICK j \in 1..m : f.blocks[j].t = f.blocks[i].t /\ f.blocks[j].ms > P[n].ms
    BY <1>1, <1>2, <1>3 DEF EndsInside
  <2>2. f.blocks[j].ms <= e /\ e <= P[n].ms /\ f.blocks[j].ms \in Nat /\ P[n].ms \in Nat
    BY <1>1, <1>3, <2>1
  <2> QED BY <2>1, <2>2
<1> QED BY <1>1, <1>3


LEMMA BegunSorted == ASSUME NEW f, NEW c, Begun(f, c) PROVE Sorted(c)
  BY DEF Begun, Sorted

\* One track of it.
RightTrack(n, w, t) ==
  /\ w.frames[t] = FullWindow(plan.cuts, TimesOf(t, file.blocks), n)
  /\ w.next[t] = FullNext(plan.cuts, TimesOf(t, file.blocks), n)
  /\ w.ended[t] >= 0 => \A i \in 1..Len(file.blocks) : file.blocks[i].t = t => file.blocks[i].ms <= w.ended[t]
LEMMA TrackRight ==
    ASSUME file \in Files, written \in 0..Len(file.blocks), Begun(file, plan.cuts), EndsInside(file),
           ended \in [file.tracks -> Nat \union {-1}], EndsKnown(ended), NEW n \in 1..Len(plan.cuts), Ready(n),
           NEW w, NEW cross, NEW last, NEW seen, Walks(n, w, cross, last, seen), NEW t \in file.tracks
    PROVE  RightTrack(n, w, t)
<1> DEFINE c == plan.cuts
           m == Len(file.blocks)
           x == TimesOf(t, file.blocks)
           k == cross[t]
           to == IF k \in 1..last THEN k - 1 ELSE last
<1>1. /\ Sorted(c) /\ Len(c) \in Nat /\ m \in Nat /\ written \in 0..m /\ written \in Nat /\ c[n].ms \in Nat
      /\ (n < Len(c) => c[n+1].ms \in Nat /\ c[n].ms < c[n+1].ms)
      /\ \A i \in 1..m : file.blocks[i].ms \in Nat
  <2>1. Sorted(c) /\ Len(c) \in Nat
    BY BegunSorted DEF Sorted
  <2>2. m \in Nat
    BY FileTypes
  <2>3. \A i \in 1..m : file.blocks[i].ms \in Nat
    BY HeardSteps DEF NextHeard
  <2>4. n < Len(c) => c[n+1].ms \in Nat /\ c[n].ms < c[n+1].ms
    <3>1. n < Len(c) => n + 1 \in 1..Len(c) /\ n < n + 1
      BY <2>1
    <3> QED BY <2>1, <3>1 DEF Sorted, Rise
  <2> QED BY <2>1, <2>2, <2>3, <2>4 DEF Sorted
<1>2. /\ k \in 0..written /\ last \in 0..written
      /\ IF k = 0
         THEN \A i \in 1..written : file.blocks[i].t = t /\ n < Len(c) => file.blocks[i].ms < c[n+1].ms
         ELSE /\ n < Len(c) /\ file.blocks[k].t = t /\ file.blocks[k].ms >= c[n+1].ms
              /\ \A i \in 1..k-1 : file.blocks[i].t = t => file.blocks[i].ms < c[n+1].ms
      /\ IF \E u \in Waiting(n) : cross[u] = 0 THEN last = written ELSE \A u \in Waiting(n) : cross[u] <= last
      /\ seen[t] \in Nat /\ \A i \in 1..written : file.blocks[i].t = t => file.blocks[i].ms <= seen[t]
      /\ w.frames[t] = Taken(Heard(t, file, to), c, n)
      /\ w.next[t] = IF k \in 1..last THEN file.blocks[k].ms ELSE -1
      /\ w.ended[t] = IF (\E u \in Waiting(n) : cross[u] = 0) /\ k = 0 /\ seen[t] > ended[t] THEN seen[t] ELSE ended[t]
  BY DEF Walks
<1>3. ended[t] \in Nat \union {-1}
  OBVIOUS
\* No block past the window is written: none will be.
<1>4. k = 0 => \A i \in 1..m : file.blocks[i].t = t => i <= written
  <2> SUFFICES ASSUME k = 0 PROVE \A i \in 1..m : file.blocks[i].t = t => i <= written
    OBVIOUS
  <2>1. CASE n < Len(c)
    <3>1. Crossed(t, c[n+1].ms)
      BY <2>1 DEF Ready, Seen
    <3>2. ~\E i \in 1..written : file.blocks[i].t = t /\ file.blocks[i].ms >= c[n+1].ms
      <4> SUFFICES ASSUME NEW i \in 1..written, file.blocks[i].t = t, file.blocks[i].ms >= c[n+1].ms PROVE FALSE
        OBVIOUS
      <4>1. file.blocks[i].ms < c[n+1].ms /\ file.blocks[i].ms \in Nat
        BY <1>1, <1>2, <2>1
      <4> QED BY <1>1, <2>1, <4>1
    <3> QED BY <3>1, <3>2 DEF Crossed
  <2>2. CASE n = Len(c)
    BY <1>1, <2>2 DEF Ready
  <2> QED BY <1>1, <2>1, <2>2
<1>5. w.ended[t] >= 0 => \A i \in 1..m : file.blocks[i].t = t => file.blocks[i].ms <= w.ended[t]
  <2>1. CASE w.ended[t] = ended[t]
    BY <2>1 DEF EndsKnown
  <2>2. CASE w.ended[t] = seen[t] /\ k = 0
    BY <1>1, <1>2, <1>4, <2>2
  <2> HIDE DEF k, c
  <2> QED BY <1>2, <2>1, <2>2
<1>6. CASE t \in Waiting(n)
  <2>1. k # 0 => k \in 1..last
    BY <1>1, <1>2, <1>6
  <2>2. CASE k # 0
    <3>1. k \in 1..m /\ n < Len(c)
      BY <1>1, <1>2, <2>2
    <3>2. Taken(Heard(t, file, k - 1), c, n) = FullWindow(c, x, n) /\ FullNext(c, x, n) = file.blocks[k].ms
      <4> HIDE DEF c, k
      <4>1. file.blocks[k].t = t /\ file.blocks[k].ms >= c[n+1].ms
        BY <1>2, <2>2
      <4>2. \A i \in 1..k-1 : file.blocks[i].t = t => file.blocks[i].ms < c[n+1].ms
        BY <1>2, <2>2
      <4>3. n \in 1..Len(c) /\ Sorted(c) /\ n < Len(c) /\ k \in 1..Len(file.blocks)
        BY <1>1, <3>1 DEF c
      <4>4. file \in Files
        OBVIOUS
      <4>5. TakenTo(file, t, c, n, k)
        BY <4>1, <4>2, <4>3, <4>4, TakenCrossed, Zenon
      <4> QED BY <4>5 DEF TakenTo
    <3>3. to = k - 1
      BY <2>1, <2>2
    <3> QED BY <1>2, <1>5, <2>1, <2>2, <3>2, <3>3 DEF RightTrack
  <2>3. CASE k = 0
    <3>1. last = written /\ ~(k \in 1..last) /\ to = written
      BY <1>2, <1>6, <2>3
    <3>2. Heard(t, file, written) = x
      BY <1>1, <1>4, <2>3, HeardAll
    <3>3. \A j \in 1..m : file.blocks[j].t = t /\ n < Len(c) => file.blocks[j].ms < c[n+1].ms
      BY <1>1, <1>2, <1>4, <2>3
    <3>4. Taken(x, c, n) = FullWindow(c, x, n) /\ FullNext(c, x, n) = -1
      BY <1>1, <3>3, TakenWhole
    <3> QED BY <1>2, <1>5, <3>1, <3>2, <3>4 DEF RightTrack
  <2> QED BY <2>2, <2>3
<1>7. CASE t \notin Waiting(n)
  <2>1. ended[t] >= 0 /\ ended[t] <= c[n].ms
    BY <1>7 DEF Waiting, trackEndedBefore
  <2>2. \A i \in 1..m : file.blocks[i].t = t => file.blocks[i].ms < c[n].ms
    <3> DEFINE e == ended[t]
    <3>1. e \in Nat /\ e <= c[n].ms /\ \A i \in 1..m : file.blocks[i].t = t => file.blocks[i].ms <= e
      BY <1>3, <2>1 DEF EndsKnown
    <3> HIDE DEF e
    <3> QED BY <3>1, EndsBefore
  <2>3. k = 0
    <3> SUFFICES ASSUME k # 0 PROVE FALSE
      OBVIOUS
    <3>1. k \in 1..m /\ file.blocks[k].t = t /\ n < Len(c) /\ file.blocks[k].ms >= c[n+1].ms
      BY <1>1, <1>2
    <3>2. file.blocks[k].ms < c[n].ms /\ file.blocks[k].ms \in Nat
      BY <1>1, <2>2, <3>1
    <3> HIDE DEF k, c
    <3> QED BY <1>1, <3>1, <3>2
  <2>4. ~(k \in 1..last) /\ to = last /\ last \in 0..m
    BY <1>1, <1>2, <2>3
  <2>5. Taken(Heard(t, file, last), c, n) = FullWindow(c, x, n) /\ FullNext(c, x, n) = -1
    BY <1>1, <2>2, <2>4, TakenEnded
  <2> QED BY <1>2, <1>5, <2>4, <2>5 DEF RightTrack
<1> QED BY <1>6, <1>7

LEMMA WalkRight ==
    ASSUME file \in Files, written \in 0..Len(file.blocks), plan \in Plans, Begun(file, plan.cuts), EndsInside(file),
           ended \in [file.tracks -> Nat \union {-1}], EndsKnown(ended), NEW n \in 1..Len(plan.cuts), Ready(n)
    PROVE  Right(n, walkWindow(n))
<1> DEFINE w == walkWindow(n)
<1>1. PICK cross, last, seen : Walks(n, w, cross, last, seen)
  BY WalkIs
<1>2. WindowTyped(n, w)
  BY WindowType
<1> HIDE DEF w
<1>3. \A t \in file.tracks : RightTrack(n, w, t)
  BY <1>1, TrackRight
<1>4. w.frames = [t \in file.tracks |-> FullWindow(plan.cuts, TimesOf(t, file.blocks), n)]
  BY <1>2, <1>3 DEF WindowTyped, RightTrack
<1>5. w.next = [t \in file.tracks |-> FullNext(plan.cuts, TimesOf(t, file.blocks), n)]
  BY <1>2, <1>3 DEF WindowTyped, RightTrack
<1>6. EndsKnown(w.ended)
  BY <1>3 DEF RightTrack, EndsKnown
<1> QED BY <1>4, <1>5, <1>6 DEF Right, w


-----------------------------------------------------------------------------
(* How far the cuts and the scans reach.                                    *)

LEMMA WholeWritten == ASSUME WalkInv, NEW c \in 1..Len(file.ends), c <= Whole PROVE file.ends[c] <= written
<1> DEFINE n == Len(file.ends)
           A == {d \in DOMAIN file.ends : file.ends[d] <= written}
<1>1. /\ file \in Files /\ n \in Nat /\ DOMAIN file.ends = 1..n /\ written \in Nat /\ Whole \in Nat /\ Whole = Cardinality(A)
      /\ \A d \in 1..n : file.ends[d] \in Nat
      /\ \A d, g \in 1..n : d <= g => file.ends[d] <= file.ends[g]
  <2>1. file \in Files /\ written \in Nat
    BY DEF WalkInv
  <2>2. /\ n \in Nat /\ DOMAIN file.ends = 1..n /\ (\A d \in 1..n : file.ends[d] \in Nat)
        /\ \A d, g \in 1..n : d <= g => file.ends[d] <= file.ends[g]
    BY <2>1, FileTypes
  <2>3. Whole \in Nat
    BY WalkFacts
  <2> QED BY <2>1, <2>2, <2>3 DEF Whole
<1> SUFFICES ASSUME ~(file.ends[c] <= written) PROVE FALSE
  OBVIOUS
<1>2. A \in SUBSET (1..c-1)
  <2> SUFFICES ASSUME NEW d \in 1..n, file.ends[d] <= written, ~(d \in 1..c-1) PROVE FALSE
    BY <1>1
  <2>1. c <= d
    BY <1>1
  <2>2. file.ends[c] <= file.ends[d] /\ file.ends[c] \in Nat /\ file.ends[d] \in Nat
    BY <1>1, <2>1
  <2> QED BY <1>1, <2>2
<1>3. IsFiniteSet(1..c-1) /\ Cardinality(1..c-1) = c - 1
  <2>1. 1 \in Int /\ c - 1 \in Int /\ c \in Nat /\ c >= 1
    BY <1>1
  <2>2. IsFiniteSet(1..c-1) /\ Cardinality(1..c-1) = IF 1 > c - 1 THEN 0 ELSE (c - 1) - 1 + 1
    BY <2>1, FS_Interval
  <2> QED BY <2>1, <2>2
<1> HIDE DEF A
<1>4. Cardinality(A) <= Cardinality(1..c-1)
  BY <1>2, <1>3, FS_Subset
<1> QED BY <1>1, <1>3, <1>4

LEMMA WholeAll == ASSUME WalkInv, Whole = Len(file.ends) PROVE written = Len(file.blocks)
<1> DEFINE n == Len(file.ends)
<1>1. n \in 1..n /\ n <= Whole /\ file.ends[n] = Len(file.blocks)
  <2>1. n \in Nat \ {0}
    BY WalkFacts
  <2>2. file.ends[n] = Len(file.blocks)
    BY FileTypes DEF WalkInv
  <2> QED BY <2>1, <2>2
<1>2. file.ends[n] <= written
  BY <1>1, WholeWritten
<1>3. written \in 0..Len(file.blocks) /\ Len(file.blocks) \in Nat
  BY WalkFacts DEF WalkInv
<1> QED BY <1>1, <1>2, <1>3

\* The cuts name no cluster past k.
AtMost(cuts, k) == \A n \in 1..Len(cuts) : cuts[n].at <= k

LEMMA AtMostRecorded ==
    ASSUME NEW cuts \in Seq(Cut), NEW ms \in Nat, NEW at \in Nat, NEW k \in Nat, at <= k, AtMost(cuts, k)
    PROVE  AtMost(recordKeyframe(cuts, ms, at), k)
<1> DEFINE known == IF cuts = <<>> THEN <<[ms |-> 0, at |-> at]>> ELSE cuts
           x == [ms |-> ms, at |-> at]
           after == recordKeyframe(cuts, ms, at)
<1>1. known \in Seq(Cut) /\ x \in Cut /\ x.at = at
  <2>1. x \in Cut /\ x.at = at /\ [ms |-> 0, at |-> at] \in Cut
    BY DEF Cut
  <2>2. <<[ms |-> 0, at |-> at]>> \in Seq(Cut)
    BY <2>1
  <2> QED BY <2>1, <2>2
<1>2. after = CutOn(known, x)
  BY DEF recordKeyframe, CutOn
<1>3. AtMost(known, k)
  <2>1. CASE cuts = <<>>
    <3>1. known = <<[ms |-> 0, at |-> at]>> /\ Len(known) = 1 /\ known[1].at = at
      BY <2>1
    <3> QED BY <3>1 DEF AtMost
  <2> QED BY <2>1
<1> HIDE DEF known, x
<1>4. AtMost(Append(known, x), k)
  <2> DEFINE y == Append(known, x)
  <2>1. Len(known) \in Nat /\ Len(y) = Len(known) + 1 /\ y[Len(known) + 1] = x /\ \A i \in 1..Len(known) : y[i] = known[i]
    BY <1>1
  <2> HIDE DEF y
  <2>2. \A i \in 1..Len(y) : y[i].at <= k
    BY <1>1, <1>3, <2>1 DEF AtMost
  <2> QED BY <2>2 DEF AtMost, y
<1> QED BY <1>2, <1>3, <1>4 DEF CutOn

LEMMA AtMostKept ==
    ASSUME NEW cuts \in Seq(Cut), NEW keys \in Seq(Nat), NEW at \in Nat, NEW k \in Nat, at <= k, AtMost(cuts, k)
    PROVE  AtMost(recordKeyframes(cuts, keys, at), k)
<1> DEFINE n == Len(keys)
<1>1. PICK a : /\ a \in [0..n -> Seq(Cut)] /\ Records(cuts, keys, at, a)
               /\ recordKeyframes(cuts, keys, at) = a[n]
  BY RecordKeyframesIs, Zenon
<1>2. n \in Nat /\ \A i \in 1..n : keys[i] \in Nat
  OBVIOUS
<1> DEFINE S == {i \in 0..n : AtMost(a[i], k)}
<1>3. 0 \in S
  BY <1>1, <1>2 DEF Records
<1>4. ASSUME NEW i \in 1..n, i - 1 \in S PROVE i \in S
  <2>0. i \in 0..n /\ i - 1 \in 0..n /\ keys[i] \in Nat
    BY <1>2
  <2>1. a[i-1] \in Seq(Cut)
    <3> HIDE DEF n
    <3> QED BY <1>1, <2>0
  <2>2. a[i] = recordKeyframe(a[i-1], keys[i], at)
    BY <1>1 DEF Records
  <2>3. AtMost(a[i-1], k)
    BY <1>4
  <2>4. AtMost(a[i], k)
    BY <2>0, <2>1, <2>2, <2>3, AtMostRecorded
  <2> QED BY <2>0, <2>4
<1>5. \A i \in 0..n : i \in S
  <2> HIDE DEF S, n
  <2> QED BY <1>2, <1>3, <1>4, UpTo
<1>6. n \in 0..n
  BY <1>2
<1> QED BY <1>1, <1>5, <1>6

\* What ends a plan: Complete's calls, the trailer and a closed plan all find the file written.
EndingInv ==
  /\ scan.pc = "close" => scan.call = "complete"
  /\ scan.call = "complete" \/ trailer \/ plan.done => written = Len(file.blocks)

LEMMA EndingInit == Init => EndingInv
<1> SUFFICES ASSUME Init PROVE EndingInv
  OBVIOUS
<1>1. scan = Idle /\ trailer = FALSE /\ plan = NewPlan
  BY DEF Init
<1>2. scan.pc = "idle" /\ scan.call = "none"
  BY <1>1 DEF Idle
<1>3. plan.done = FALSE
  BY <1>1 DEF NewPlan
<1> QED BY <1>1, <1>2, <1>3 DEF EndingInv

LEMMA EndingStep == WalkInv /\ EndingInv /\ [Next]_vars => EndingInv'
<1> SUFFICES ASSUME WalkInv, EndingInv, [Next]_vars PROVE EndingInv'
  OBVIOUS
<1>0. /\ written \in 0..Len(file.blocks) /\ Len(file.blocks) \in Nat /\ scan \in Scans /\ plan \in Plans
      /\ plan.gridWin <= Len(plan.cuts) /\ plan.done \in BOOLEAN
  BY WalkFacts DEF WalkInv, Plans
<1>1. CASE Quiet
  <2>1. UNCHANGED <<file, scan, plan>> /\ written' \in written..Len(file.blocks) /\ (trailer' => trailer \/ Whole = Len(file.ends))
    BY <1>1 DEF Quiet
  <2>2. Whole = Len(file.ends) => written = Len(file.blocks)
    BY WholeAll
  <2> QED BY <1>0, <2>1, <2>2 DEF EndingInv
<1>2. CASE BeginMoved
  <2>1. scan'.pc = "scan" /\ (scan'.call = "complete" => Written) /\ UNCHANGED <<file, written, trailer, plan>>
    BY <1>2 DEF BeginMoved, Apart
  <2>2. Written => written = Len(file.blocks)
    BY WholeAll DEF Written
  <2> QED BY <2>1, <2>2 DEF EndingInv
<1>3. CASE \E b : BlockMoved(b)
  <2>1. PICK b : BlockMoved(b)
    BY <1>3
  <2>2. scan'.pc = "scan" /\ scan'.call = scan.call /\ UNCHANGED <<file, written, trailer>> /\ b \in Blocks
    BY <2>1 DEF BlockMoved, Apart
  <2>3. plan'.done = plan.done
    <3>1. CASE scan'.locked
      <4>1. plan' = foldBlock(plan, b, plan.cursor + 1) /\ plan.cursor + 1 \in Nat
        BY <1>0, <2>1, <3>1 DEF BlockMoved, Plans
      <4>2. BlockFolded(plan, b, plan.cursor + 1, plan')
        BY <1>0, <2>2, <4>1, FoldBlock
      <4> QED BY <4>2 DEF BlockFolded
    <3>2. CASE ~scan'.locked
      BY <2>1, <3>2 DEF BlockMoved
    <3> QED BY <3>1, <3>2
  <2> QED BY <2>2, <2>3 DEF EndingInv
<1>4. CASE \E p, q : ClusterMoved(p, q)
  <2>1. PICK p, q : ClusterMoved(p, q)
    BY <1>4
  <2>2. scan'.pc = "scan" /\ scan'.call = scan.call /\ UNCHANGED <<file, written, trailer>>
    BY <2>1 DEF ClusterMoved, Apart
  <2>3. p \in Plans /\ p.gridWin <= Len(p.cuts) /\ p.done = plan.done /\ q = updateSegCount(p) /\ plan'.done = q.done
    BY <2>1 DEF ClusterMoved
  <2>4. plan'.done = plan.done
    BY <2>3, UpdateSegCount
  <2> QED BY <2>2, <2>4 DEF EndingInv
<1>5. CASE FailMoved
  <2>1. scan' \in {Idle, Abandoned(scan.call)} /\ UNCHANGED <<file, written, trailer>> /\ (plan' = plan \/ plan' = NewPlan)
    BY <1>5 DEF FailMoved, Apart
  <2>2. NewPlan.done = FALSE
    BY DEF NewPlan
  <2>3. /\ Idle.pc = "idle" /\ Idle.call = "none"
        /\ IF scan.call = "complete" THEN Abandoned(scan.call).pc = "close" /\ Abandoned(scan.call).call = "complete"
           ELSE Abandoned(scan.call) = Idle
    BY <1>0, Fresher
  <2> QED BY <2>1, <2>2, <2>3 DEF EndingInv
<1>6. CASE FinalMoved
  <2>1. scan' = Idle /\ UNCHANGED <<file, written, trailer>> /\ (AtEnd \/ scan.pc = "close")
    BY <1>6 DEF FinalMoved, Apart
  <2>2. Idle.pc = "idle"
    BY DEF Idle
  <2>3. ASSUME AtEnd PROVE written = Len(file.blocks)
    <3>1. plan.cursor = Len(file.ends) /\ plan.cursor <= Whole /\ Whole \in 0..Len(file.ends) /\ Len(file.ends) \in Nat
      BY <2>3, WalkFacts DEF AtEnd, WalkInv
    <3>2. Whole = Len(file.ends)
      BY <3>1
    <3> QED BY <3>2, WholeAll
  <2> QED BY <2>1, <2>2, <2>3 DEF EndingInv
<1>7. CASE RestMoved
  <2>1. scan' = Abandoned(scan.call) /\ UNCHANGED <<file, written, trailer>> /\ plan'.done = plan.done
    BY <1>7 DEF RestMoved, Apart
  <2>3. /\ Idle.pc = "idle" /\ Idle.call = "none"
        /\ IF scan.call = "complete" THEN Abandoned(scan.call).pc = "close" /\ Abandoned(scan.call).call = "complete"
           ELSE Abandoned(scan.call) = Idle
    BY <1>0, Fresher
  <2> QED BY <2>1, <2>3 DEF EndingInv
<1> QED BY <1>1, <1>2, <1>3, <1>4, <1>5, <1>6, <1>7, Steps

\* A cut is met in a whole cluster, none past the cursor's.
AtInv == AtMost(plan.cuts, plan.cursor + 1) /\ AtMost(plan.cuts, Whole)

LEMMA AtMore == ASSUME NEW c \in Seq(Cut), NEW k \in Nat, NEW m \in Nat, k <= m, AtMost(c, k) PROVE AtMost(c, m)
<1> SUFFICES ASSUME NEW n \in 1..Len(c) PROVE c[n].at <= m
  BY DEF AtMost
<1>1. c[n] \in Cut
  OBVIOUS
<1>2. c[n].at \in Nat /\ c[n].at <= k
  BY <1>1 DEF Cut, AtMost
<1> QED BY <1>2

LEMMA AtNone == AtMost(<<>>, 0) /\ AtMost(<<>>, 1)
  BY DEF AtMost

LEMMA AtInit == Init => AtInv
<1> SUFFICES ASSUME Init PROVE AtInv
  OBVIOUS
<1>1. plan.cuts = <<>>
  BY DEF Init, NewPlan
<1> QED BY <1>1 DEF AtInv, AtMost

LEMMA AtStep == WalkInv /\ AtInv /\ [Next]_vars => AtInv'
<1> SUFFICES ASSUME WalkInv, AtInv, [Next]_vars PROVE AtInv'
  OBVIOUS
<1> DEFINE c == plan.cuts
           k == plan.cursor
<1>0. /\ c \in Seq(Cut) /\ k \in Nat /\ Whole \in Nat /\ scan \in Scans /\ plan \in Plans /\ plan.gridWin <= Len(c)
      /\ scan.keys \in Seq(Nat) /\ scan.size \in Nat /\ scan.size <= Whole /\ file \in Files /\ written \in Nat
  BY WalkFacts DEF WalkInv, Plans, Scans
<1>1. ASSUME UNCHANGED file, written' \in Nat, written <= written', plan'.cuts = c, plan'.cursor \in Nat, k <= plan'.cursor
      PROVE  AtInv'
  <2>1. Whole' \in Nat /\ Whole <= Whole'
    <3>1. WholeOf(file, written) <= WholeOf(file, written') /\ Whole = WholeOf(file, written) /\ Whole' = WholeOf(file, written')
      BY <1>0, <1>1, WholeIs DEF Whole, WholeOf
    <3>2. WholeOf(file, written') \in 0..Len(file.ends)
      BY <1>0, <1>1, WholeIs
    <3> QED BY <3>1, <3>2
  <2>2. AtMost(c, Whole') /\ AtMost(c, plan'.cursor + 1)
    <3>1. AtMost(c, Whole) /\ AtMost(c, k + 1)
      BY DEF AtInv
    <3>2. k + 1 \in Nat /\ plan'.cursor + 1 \in Nat /\ k + 1 <= plan'.cursor + 1
      BY <1>0, <1>1
    <3> HIDE DEF c, k
    <3> QED BY <1>0, <2>1, <3>1, <3>2, AtMore
  <2> QED BY <1>1, <2>2 DEF AtInv
<1>a. ASSUME Walking, UNCHANGED <<file, written>>, AtMost(plan'.cuts, k + 1), plan'.cuts \in Seq(Cut),
             plan'.cursor \in Nat, k <= plan'.cursor
      PROVE  AtInv'
  <2>1. k + 1 <= Whole /\ k + 1 \in Nat /\ plan'.cursor + 1 \in Nat /\ k + 1 <= plan'.cursor + 1
    BY <1>0, <1>a DEF Walking
  <2>2. Whole' = Whole
    BY <1>a DEF Whole
  <2>3. AtMost(plan'.cuts, Whole) /\ AtMost(plan'.cuts, plan'.cursor + 1)
    <3> HIDE DEF k
    <3> QED BY <1>0, <1>a, <2>1, AtMore
  <2> QED BY <2>2, <2>3 DEF AtInv
<1>b. AtMost(c, k + 1)
  BY DEF AtInv
<1>2. CASE Quiet
  <2>1. UNCHANGED file /\ written' \in Nat /\ written <= written' /\ plan' = plan
    BY <1>2, WalkFacts DEF Quiet, WalkInv
  <2> QED BY <1>0, <1>1, <2>1
<1>3. CASE BeginMoved
  <2>1. UNCHANGED <<file, written>> /\ plan' = plan
    BY <1>3 DEF BeginMoved, Apart
  <2> QED BY <1>0, <1>1, <2>1
<1>4. CASE \E b : BlockMoved(b)
  <2>1. PICK b : BlockMoved(b)
    BY <1>4
  <2>2. Walking /\ UNCHANGED <<file, written>> /\ b \in Blocks
    BY <2>1 DEF BlockMoved, Apart
  <2>3. CASE scan'.locked
    <3>1. plan' = foldBlock(plan, b, k + 1) /\ k + 1 \in Nat
      BY <1>0, <2>1, <2>3 DEF BlockMoved
    <3>2. BlockFolded(plan, b, k + 1, plan')
      BY <1>0, <2>2, <3>1, FoldBlock
    <3>3. plan' \in Plans /\ plan'.cursor = k /\ plan'.cuts = IF IsKey(b) THEN recordKeyframe(c, b.ms, k + 1) ELSE c
      BY <3>2 DEF BlockFolded
    <3>4. b.ms \in Nat
      BY <2>2 DEF Blocks
    <3>5. AtMost(recordKeyframe(c, b.ms, k + 1), k + 1)
      <4> HIDE DEF k, c
      <4> QED BY <1>0, <1>b, <3>1, <3>4, AtMostRecorded
    <3>6. plan'.cuts \in Seq(Cut) /\ AtMost(plan'.cuts, k + 1)
      BY <1>b, <3>3, <3>5 DEF Plans
    <3> QED BY <1>0, <1>a, <2>2, <3>3, <3>6
  <2>4. CASE ~scan'.locked
    <3>1. plan' = plan
      BY <2>1, <2>4 DEF BlockMoved
    <3> QED BY <1>0, <1>1, <2>2, <3>1
  <2> QED BY <2>3, <2>4
<1>5. CASE \E p, q : ClusterMoved(p, q)
  <2>1. PICK p, q : ClusterMoved(p, q)
    BY <1>5
  <2>2. Walking /\ UNCHANGED <<file, written>> /\ plan'.cursor = k + 1
    BY <2>1 DEF ClusterMoved, Apart
  <2>3. p \in Plans /\ p.gridWin <= Len(p.cuts) /\ q = updateSegCount(p) /\ plan'.cuts = q.cuts
        /\ p.cuts = (IF scan.locked THEN c ELSE recordKeyframes(c, scan.keys, k + 1))
    BY <2>1 DEF ClusterMoved
  <2>4. q.cuts = p.cuts
    BY <2>3, UpdateSegCount DEF SameWalk
  <2>5. AtMost(recordKeyframes(c, scan.keys, k + 1), k + 1)
    <3>1. k + 1 \in Nat
      BY <1>0
    <3> HIDE DEF k, c
    <3> QED BY <1>0, <1>b, <3>1, AtMostKept
  <2>6. plan'.cuts \in Seq(Cut) /\ AtMost(plan'.cuts, k + 1)
    BY <1>b, <2>3, <2>4, <2>5 DEF Plans
  <2>7. plan'.cursor \in Nat /\ k <= plan'.cursor
    BY <1>0, <2>2
  <2> QED BY <1>a, <2>2, <2>6, <2>7
<1>6. CASE FailMoved
  <2>1. UNCHANGED <<file, written>> /\ (plan' = plan \/ plan' = NewPlan)
    BY <1>6 DEF FailMoved, Apart
  <2>2. CASE plan' = plan
    BY <1>0, <1>1, <2>1, <2>2
  <2>3. CASE plan' = NewPlan
    <3>1. plan'.cuts = <<>>
      BY <2>3 DEF NewPlan
    <3> QED BY <3>1 DEF AtInv, AtMost
  <2> QED BY <2>1, <2>2, <2>3
<1>7. CASE FinalMoved
  <2>1. UNCHANGED <<file, written>> /\ plan'.cuts = c /\ plan'.cursor = k
    BY <1>7 DEF FinalMoved, Apart, SameWalk
  <2> QED BY <1>0, <1>1, <2>1
<1>8. CASE RestMoved
  <2>1. UNCHANGED <<file, written>> /\ plan'.cuts = c /\ plan'.cursor = k
    BY <1>8 DEF RestMoved, Apart, SameWalk
  <2> QED BY <1>0, <1>1, <2>1
<1> QED BY <1>2, <1>3, <1>4, <1>5, <1>6, <1>7, <1>8, Steps

(* The grid's frames a plan keeps. They echo, from the time Opens its first   *)
(* open window opens on, the audio heard in some part R of the file that is   *)
(* written: a cluster folded again after a failed scan gives frames heard     *)
(* already.                                                                   *)

Keeps(f, w, D, x, k) == \E R \in k..w : Echo(D, Heard("a", f, R), FirstAt(Heard("a", f, R), x))
OpensAt(c, n) == IF n = 0 THEN 0 ELSE c[n+1].ms
GridInv ==
  /\ plan.gridWin = 0 \/ plan.gridWin < Len(plan.cuts)
  /\ scan.at = 0 \/ scan.locked => scan.audio = <<>>
  /\ ~plan.done =>
       /\ Keeps(file, written, plan.gridPts, OpensAt(plan.cuts, plan.gridWin), Folded)
       /\ Keeps(file, written, plan.gridPts \o scan.audio, OpensAt(plan.cuts, plan.gridWin), Base + scan.at)

LEMMA KeepsLess ==
    ASSUME NEW f, NEW w \in Nat, NEW v \in Nat, w <= v, NEW D, NEW x, NEW k \in Nat, NEW j \in Nat, j <= k, Keeps(f, w, D, x, k)
    PROVE  Keeps(f, v, D, x, j)
<1>1. PICK R \in k..w : Echo(D, Heard("a", f, R), FirstAt(Heard("a", f, R), x))
  BY DEF Keeps
<1>2. R \in j..v
  OBVIOUS
<1> QED BY <1>1, <1>2 DEF Keeps

LEMMA BlockKept ==
    ASSUME NEW f \in Files, NEW w \in 0..Len(f.blocks), NEW k \in Nat, k + 1 <= w, NEW x \in Nat, NEW D \in Seq(Nat),
           Keeps(f, w, D, x, k)
    PROVE  Keeps(f, w, IF f.blocks[k+1].t = "a" THEN Append(D, f.blocks[k+1].ms) ELSE D, x, k + 1)
<1> DEFINE b == f.blocks[k+1]
           H(R) == Heard("a", f, R)
<1>0. /\ Len(f.blocks) \in Nat /\ (\A i \in 0..Len(f.blocks) : H(i) \in Seq(Nat))
      /\ (\A i \in 1..Len(f.blocks) : NextHeard("a", f, i)) /\ k + 1 \in 1..Len(f.blocks)
  <2>1. Len(f.blocks) \in Nat
    BY FileTypes
  <2>2. /\ \A i \in 0..Len(f.blocks) : H(i) \in Seq(Nat)
        /\ \A i \in 1..Len(f.blocks) : NextHeard("a", f, i)
    BY HeardSteps
  <2> QED BY <2>1, <2>2
<1>1. PICK R \in k..w : Echo(D, H(R), FirstAt(H(R), x))
  BY DEF Keeps
<1>2. R \in 0..Len(f.blocks) /\ R \in Nat /\ H(R) \in Seq(Nat)
  BY <1>0
<1>3. NextHeard("a", f, k + 1) /\ k + 1 - 1 = k
  BY <1>0
<1>4. b.ms \in Nat /\ H(k + 1) = IF b.t = "a" THEN Append(H(k), b.ms) ELSE H(k)
  BY <1>3 DEF NextHeard
<1>5. CASE R = k
  <2>1. k + 1 \in k+1..w
    OBVIOUS
  <2>2. CASE b.t = "a"
    <3> HIDE DEF H, b
    <3>1. Echo(Append(D, b.ms), Append(H(R), b.ms), FirstAt(Append(H(R), b.ms), x))
      BY <1>1, <1>2, <1>4, EchoMore
    <3>2. Echo(Append(D, b.ms), H(k + 1), FirstAt(H(k + 1), x))
      BY <1>4, <1>5, <2>2, <3>1
    <3> USE DEF H, b
    <3> QED BY <2>1, <2>2, <3>2 DEF Keeps
  <2>3. CASE b.t # "a"
    <3>2. Echo(D, H(k + 1), FirstAt(H(k + 1), x))
      BY <1>1, <1>4, <1>5, <2>3
    <3> QED BY <2>1, <2>3, <3>2 DEF Keeps
  <2> QED BY <2>2, <2>3
<1>6. CASE R # k
  <2>1. R \in k+1..w /\ k + 1 \in 1..R
    BY <1>2, <1>6
  <2>2. CASE b.t = "a"
    <3>1. HeardOf("a", f, R, H(R))
      BY <1>2, HeardAre
    <3>2. PICK i \in 1..Len(H(R)) : H(R)[i] = b.ms
      BY <2>1, <2>2, <3>1 DEF HeardOf
    <3>3. FirstAt(H(R), x) \in 1..Len(H(R))+1
      BY <1>2, FirstAtIs
    <3> HIDE DEF H, b
    <3>4. Echo(Append(D, H(R)[i]), H(R), FirstAt(H(R), x))
      BY <1>1, <1>2, <3>3, EchoAgain
    <3>5. Echo(Append(D, b.ms), H(R), FirstAt(H(R), x))
      BY <3>2, <3>4
    <3> USE DEF H, b
    <3> QED BY <2>1, <2>2, <3>5 DEF Keeps
  <2>3. CASE b.t # "a"
    BY <1>1, <2>1, <2>3 DEF Keeps
  <2> QED BY <2>2, <2>3
<1> QED BY <1>5, <1>6

LEMMA DropKept ==
    ASSUME NEW f \in Files, NEW w \in 0..Len(f.blocks), NEW k \in Nat, NEW x \in Nat, NEW y \in Nat, x <= y,
           NEW D \in Seq(Nat), Keeps(f, w, D, x, k)
    PROVE  Keeps(f, w, SubSeq(D, FirstAt(D, y), Len(D)), y, k)
<1>1. PICK R \in k..w : Echo(D, Heard("a", f, R), FirstAt(Heard("a", f, R), x))
  BY DEF Keeps
<1>2. R \in 0..Len(f.blocks)
  BY FileTypes
<1>3. Heard("a", f, R) \in Seq(Nat)
  BY <1>2, HeardSteps
<1>4. Echo(SubSeq(D, FirstAt(D, y), Len(D)), Heard("a", f, R), FirstAt(Heard("a", f, R), y))
  BY <1>1, <1>3, EchoDrop
<1> QED BY <1>1, <1>4 DEF Keeps

LEMMA KeepsNone == ASSUME NEW f \in Files, NEW w \in Nat PROVE Keeps(f, w, <<>>, 0, 0)
<1>1. Heard("a", f, 0) = <<>>
  BY HeardSteps
<1>2. FirstAt(<<>>, 0) = 1
  <2>1. <<>> \in Seq(Nat) /\ Len(<<>>) = 0
    OBVIOUS
  <2>2. FirstAt(<<>>, 0) \in 1..Len(<<>>)+1
    BY <2>1, FirstAtIs
  <2> QED BY <2>1, <2>2
<1>3. 0 \in 0..w
  OBVIOUS
<1> QED BY <1>1, <1>2, <1>3, EchoNone DEF Keeps

LEMMA GridInit == Init => GridInv
<1> SUFFICES ASSUME Init PROVE GridInv
  OBVIOUS
<1>1. file \in Files /\ written = 0 /\ scan = Idle /\ plan = NewPlan
  BY DEF Init
<1>2. plan.gridWin = 0 /\ plan.gridPts = <<>> /\ plan.cursor = 0
  BY <1>1 DEF NewPlan
<1>3. scan.at = 0 /\ scan.audio = <<>> /\ ~scan.locked
  BY <1>1 DEF Idle
<1>4. Base = 0 /\ Folded = 0 /\ Base + scan.at = 0
  BY <1>2, <1>3 DEF Base, Folded
<1>5. plan.gridPts \o scan.audio = <<>>
  BY <1>2, <1>3
<1>6. Keeps(file, written, <<>>, 0, 0)
  BY <1>1, KeepsNone
<1> QED BY <1>2, <1>3, <1>4, <1>5, <1>6 DEF GridInv, OpensAt

LEMMA OpensSame ==
    ASSUME NEW c \in Seq(Cut), NEW e \in Seq(Cut), IsPrefix(c, e), NEW n \in Nat, n = 0 \/ n < Len(c)
    PROVE  OpensAt(e, n) = OpensAt(c, n) /\ (n = 0 \/ n < Len(e)) /\ OpensAt(c, n) \in Nat
<1>1. Len(c) <= Len(e) /\ (\A i \in 1..Len(c) : c[i] = e[i]) /\ Len(c) \in Nat /\ Len(e) \in Nat
  BY PrefixIs
<1>2. CASE n = 0
  BY <1>2 DEF OpensAt
<1>3. CASE n # 0
  <2>1. n + 1 \in 1..Len(c)
    BY <1>1, <1>3
  <2>2. c[n+1] = e[n+1] /\ c[n+1] \in Cut
    BY <1>1, <2>1
  <2>3. OpensAt(c, n) = c[n+1].ms /\ OpensAt(e, n) = e[n+1].ms
    BY <1>3 DEF OpensAt
  <2>4. c[n+1].ms \in Nat
    BY <2>2 DEF Cut
  <2> QED BY <1>1, <1>3, <2>2, <2>3, <2>4
<1> QED BY <1>2, <1>3

\* What is left of a plan's frames once the windows up to n are dropped.
LEMMA FramesLeft ==
    ASSUME NEW f \in Files, NEW w \in 0..Len(f.blocks), NEW k \in Nat, NEW p \in Plans, Rise(p.cuts),
           p.gridWin = 0 \/ p.gridWin < Len(p.cuts), NEW m \in p.gridWin..Len(p.cuts), m = p.gridWin \/ m < Len(p.cuts),
           Keeps(f, w, p.gridPts, OpensAt(p.cuts, p.gridWin), k)
    PROVE  Keeps(f, w, dropGridWindows(p, m), OpensAt(p.cuts, m), k)
<1> DEFINE c == p.cuts
           n == p.gridWin
<1>0. c \in Seq(Cut) /\ n \in Nat /\ m \in Nat /\ p.gridPts \in Seq(Nat) /\ Len(c) \in Nat /\ n <= m
  BY DEF Plans
<1>2. CASE m = n
  <2>1. dropGridWindows(p, m) = p.gridPts
    BY <1>2 DEF dropGridWindows
  <2> QED BY <1>2, <2>1
<1>3. CASE m # n
  <2>1. m < Len(c) /\ m # 0
    BY <1>0, <1>3
  <2>2. dropGridWindows(p, m) = SubSeq(p.gridPts, FirstAt(p.gridPts, c[m+1].ms), Len(p.gridPts))
    BY <1>3 DEF dropGridWindows
  <2>3. m + 1 \in 1..Len(c) /\ c[m+1] \in Cut
    BY <1>0, <2>1
  <2>4. c[m+1].ms \in Nat /\ OpensAt(c, m) = c[m+1].ms
    BY <2>1, <2>3 DEF OpensAt, Cut
  <2>5. OpensAt(c, n) \in Nat /\ OpensAt(c, n) <= c[m+1].ms
    <3>1. CASE n = 0
      BY <2>4, <3>1 DEF OpensAt
    <3>2. CASE n # 0
      <4>1. n + 1 \in 1..Len(c) /\ n + 1 < m + 1
        BY <1>0, <1>3, <2>1, <3>2
      <4>2. c[n+1] \in Cut /\ c[n+1].ms < c[m+1].ms
        <5>1. Rise(c)
          OBVIOUS
        <5>2. c[n+1] \in Cut
          BY <1>0, <4>1
        <5> HIDE DEF c, n
        <5>3. c[n+1].ms < c[m+1].ms
          BY <2>3, <4>1, <5>1 DEF Rise
        <5> QED BY <5>2, <5>3
      <4>3. c[n+1].ms \in Nat /\ OpensAt(c, n) = c[n+1].ms
        BY <3>2, <4>2 DEF OpensAt, Cut
      <4> QED BY <2>4, <4>2, <4>3
    <3> QED BY <3>1, <3>2
  <2>6. Keeps(f, w, p.gridPts, OpensAt(c, n), k)
    OBVIOUS
  <2> HIDE DEF c, n
  <2>7. Keeps(f, w, SubSeq(p.gridPts, FirstAt(p.gridPts, c[m+1].ms), Len(p.gridPts)), c[m+1].ms, k)
    BY <1>0, <2>4, <2>5, <2>6, DropKept
  <2> USE DEF c
  <2> QED BY <2>2, <2>4, <2>7
<1> QED BY <1>2, <1>3

LEMMA DroppedKept ==
    ASSUME NEW f \in Files, NEW w \in 0..Len(f.blocks), NEW k \in Nat, NEW p \in Plans, NEW q \in Plans,
           Rise(p.cuts), p.gridWin = 0 \/ p.gridWin < Len(p.cuts),
           q.cuts = p.cuts, q.gridWin \in p.gridWin..Len(p.cuts), Drops(p, q),
           Keeps(f, w, p.gridPts, OpensAt(p.cuts, p.gridWin), k)
    PROVE  /\ q.gridWin = 0 \/ q.gridWin < Len(q.cuts)
           /\ Keeps(f, w, q.gridPts, OpensAt(q.cuts, q.gridWin), k)
<1>1. q.gridPts = dropGridWindows(p, q.gridWin) /\ \A i \in p.gridWin+1..q.gridWin : i < Len(p.cuts)
  BY DEF Drops
<1>2. p.gridWin \in Nat /\ q.gridWin \in Nat
  BY DEF Plans
<1>3. q.gridWin = p.gridWin \/ q.gridWin < Len(p.cuts)
  <2>1. q.gridWin # p.gridWin => q.gridWin \in p.gridWin+1..q.gridWin
    BY <1>2
  <2> QED BY <1>1, <2>1
<1>4. Keeps(f, w, dropGridWindows(p, q.gridWin), OpensAt(p.cuts, q.gridWin), k)
  BY <1>3, FramesLeft
<1> QED BY <1>1, <1>3, <1>4

LEMMA PlanBegun == ASSUME WalkInv, CutsInv PROVE Begun(file, plan.cuts)
<1>1. file \in Files /\ Base \in 0..Len(file.blocks)
  BY WalkFacts DEF WalkInv
<1>2. Covers(file, plan.cuts, Base)
  BY DEF CutsInv
<1>3. plan.cuts \in Seq(Cut) /\ IsPrefix(plan.cuts, PlannedCuts(file))
  BY <1>1, <1>2, CoversPlanned
<1> QED BY <1>1, <1>3, BegunPlanned

\* What a walk is about to fold in is written.
LEMMA WalkWritten == ASSUME WalkInv, Walking PROVE file.ends[plan.cursor + 1] <= written /\ plan.cursor + 1 <= Whole
<1>1. /\ plan.cursor + 1 \in 1..Len(file.ends) /\ plan.cursor < scan.size /\ scan.size <= Whole
      /\ plan.cursor \in Nat /\ scan.size \in Nat /\ Whole \in Nat
  BY WalkFacts, ClusterFacts DEF WalkInv, Walking
<1>2. plan.cursor + 1 <= Whole
  BY <1>1
<1> QED BY <1>1, <1>2, WholeWritten

LEMMA ConcatAppend ==
    ASSUME NEW s \in Seq(Nat), NEW u \in Seq(Nat), NEW x \in Nat
    PROVE  s \o Append(u, x) = Append(s \o u, x)
<1>1. <<x>> \in Seq(Nat) /\ s \o u \in Seq(Nat)
  OBVIOUS
<1>2. Append(u, x) = u \o <<x>> /\ Append(s \o u, x) = (s \o u) \o <<x>>
  BY <1>1, AppendIsConcat
<1>3. (s \o u) \o <<x>> = s \o (u \o <<x>>)
  BY <1>1, ConcatAssociative
<1> QED BY <1>2, <1>3

LEMMA GridBlock == ASSUME WalkInv, CutsInv, GridInv, NEW b, BlockMoved(b) PROVE GridInv'
<1> DEFINE c == plan.cuts
           n == plan.gridWin
           x == OpensAt(c, n)
           D == plan.gridPts
           A == scan.audio
           k == Base + scan.at
<1>0. /\ file \in Files /\ written \in 0..Len(file.blocks) /\ Len(file.blocks) \in Nat
      /\ plan \in Plans /\ scan \in Scans /\ c \in Seq(Cut) /\ n \in Nat /\ D \in Seq(Nat) /\ A \in Seq(Nat)
      /\ n <= Len(c) /\ Base \in Nat /\ scan.at \in Nat /\ plan.cursor \in Nat /\ (scan.at = 0 => ~scan.locked)
  BY WalkFacts DEF WalkInv, Plans, Scans
<1>1. /\ Walking /\ UNCHANGED <<file, written>> /\ b \in Blocks /\ scan.at + 1 <= Len(Cluster)
      /\ b = file.blocks[Base + scan.at + 1] /\ scan'.at = scan.at + 1 /\ scan' \in Scans
      /\ scan'.locked = (IF scan.at = 0 THEN HeadOpen ELSE scan.locked)
      /\ scan'.audio = IF ~scan'.locked /\ b.t = "a" THEN Append(A, b.ms) ELSE A
  BY DEF BlockMoved, Apart
<1>2. k \in Nat /\ k + 1 <= written /\ b = file.blocks[k+1]
  <2>1. Len(Cluster) = file.ends[plan.cursor + 1] - Base /\ file.ends[plan.cursor + 1] \in Base..Len(file.blocks)
    BY <1>1, ClusterFacts
  <2>2. file.ends[plan.cursor + 1] <= written
    BY <1>1, WalkWritten
  <2>3. k \in Nat /\ Base + scan.at + 1 = k + 1
    BY <1>0
  <2>4. k + 1 <= file.ends[plan.cursor + 1]
    <3> DEFINE e == file.ends[plan.cursor + 1]
    <3>1. Len(Cluster) = e - Base /\ e \in Nat /\ scan.at + 1 <= Len(Cluster)
      BY <1>0, <1>1, <2>1
    <3> HIDE DEF e
    <3>2. k + 1 <= e
      BY <1>0, <3>1
    <3> QED BY <3>2 DEF e
  <2>5. k + 1 <= written
    BY <1>0, <2>1, <2>2, <2>3, <2>4
  <2> QED BY <1>1, <2>3, <2>5
<1>3. (n = 0 \/ n < Len(c)) /\ (scan.at = 0 \/ scan.locked => A = <<>>)
  BY DEF GridInv
<1>x. x \in Nat
  <2>1. IsPrefix(c, c)
    BY <1>0, PrefixIs
  <2> QED BY <1>0, <1>3, <2>1, OpensSame
<1>m. b.ms \in Nat
  BY <1>1 DEF Blocks
<1>e. \A s \in Seq(Nat) : s \o <<>> = s
  OBVIOUS
<1>4. ~plan.done => Keeps(file, written, D, x, Folded) /\ Keeps(file, written, D \o A, x, k)
  BY DEF GridInv
<1>5. ASSUME NEW E \in Seq(Nat), Keeps(file, written, E, x, k)
      PROVE  Keeps(file, written, IF b.t = "a" THEN Append(E, b.ms) ELSE E, x, k + 1)
  <2> HIDE DEF k, x
  <2>1. Keeps(file, written, IF file.blocks[k+1].t = "a" THEN Append(E, file.blocks[k+1].ms) ELSE E, x, k + 1)
    BY <1>0, <1>2, <1>x, <1>5, BlockKept
  <2> QED BY <1>2, <2>1
<1>b. plan'.cursor = plan.cursor => Base' = Base /\ (Base + scan.at)' = k + 1
  <2>1. ASSUME plan'.cursor = plan.cursor PROVE Base' = Base
    BY <1>1, <2>1 DEF Base
  <2> QED BY <1>0, <1>1, <2>1
<1>6. CASE scan'.locked
  <2>1. plan' = foldBlock(plan, b, plan.cursor + 1) /\ plan.cursor + 1 \in Nat
    BY <1>0, <1>6, SMTT(30) DEF BlockMoved
  <2>2. BlockFolded(plan, b, plan.cursor + 1, plan')
    BY <1>0, <1>1, <2>1, FoldBlock
  <2>3. /\ plan' \in Plans /\ plan'.cursor = plan.cursor /\ plan'.gridWin = n /\ plan'.done = plan.done
        /\ plan'.cuts = IF IsKey(b) THEN recordKeyframe(c, b.ms, plan.cursor + 1) ELSE c
        /\ plan'.gridPts = IF b.t = "a" THEN Append(D, b.ms) ELSE D
    BY <2>2 DEF BlockFolded
  <2>4. plan'.cuts \in Seq(Cut) /\ IsPrefix(c, plan'.cuts)
    <3>1. IsPrefix(c, c)
      BY <1>0, PrefixIs
    <3> HIDE DEF c
    <3>2. Recorded(c, b.ms, recordKeyframe(c, b.ms, plan.cursor + 1))
      BY <1>0, <1>m, <2>1, RecordKeyframe
    <3> QED BY <1>0, <2>3, <3>1, <3>2 DEF Recorded
  <2>5. OpensAt(plan'.cuts, n) = x /\ (n = 0 \/ n < Len(plan'.cuts))
    BY <1>0, <1>3, <2>4, OpensSame
  <2>6. A = <<>> /\ scan'.audio = <<>>
    BY <1>0, <1>1, <1>3, <1>6
  <2>7. Folded' = k + 1 /\ (Base + scan.at)' = k + 1
    BY <1>0, <1>1, <1>6, <1>b, <2>3 DEF Folded
  <2>8. plan'.gridPts \o scan'.audio = plan'.gridPts
    BY <1>e, <2>3, <2>6 DEF Plans
  <2>9. ASSUME ~plan.done PROVE Keeps(file, written, plan'.gridPts, x, k + 1)
    <3>1. D \o A = D
      BY <1>0, <1>e, <2>6
    <3>2. Keeps(file, written, D, x, k)
      BY <1>4, <2>9, <3>1
    <3> HIDE DEF D, k, x
    <3> QED BY <1>0, <1>5, <2>3, <3>2
  <2> QED BY <1>1, <2>3, <2>5, <2>6, <2>7, <2>8, <2>9 DEF GridInv
<1>7. CASE ~scan'.locked
  <2>1. plan' = plan
    BY <1>7 DEF BlockMoved
  <2>2. ~scan.locked
    BY <1>0, <1>1, <1>7
  <2>3. Folded' = Base /\ Folded = Base /\ (Base + scan.at)' = k + 1
    BY <1>0, <1>7, <1>b, <2>1, <2>2 DEF Folded
  <2>4. D \o scan'.audio = IF b.t = "a" THEN Append(D \o A, b.ms) ELSE D \o A
    <3>1. CASE b.t = "a"
      <4>1. scan'.audio = Append(A, b.ms)
        BY <1>1, <1>7, <3>1
      <4>2. D \o Append(A, b.ms) = Append(D \o A, b.ms)
        <5> HIDE DEF D, A
        <5> QED BY <1>0, <1>m, ConcatAppend
      <4> QED BY <3>1, <4>1, <4>2
    <3>2. CASE b.t # "a"
      BY <1>1, <3>2
    <3> QED BY <3>1, <3>2
  <2>5. ASSUME ~plan.done PROVE Keeps(file, written, D \o scan'.audio, x, k + 1)
    <3>1. D \o A \in Seq(Nat) /\ Keeps(file, written, D \o A, x, k)
      BY <1>0, <1>4, <2>5
    <3> HIDE DEF D, A, k, x
    <3> QED BY <1>5, <2>4, <3>1
  <2>6. scan'.at # 0
    BY <1>0, <1>1
  <2>7. plan.done \/ Keeps(file, written, D, x, Base)
    BY <1>4, <2>3
  <2> QED BY <1>1, <1>3, <1>7, <2>1, <2>3, <2>5, <2>6, <2>7 DEF GridInv
<1> QED BY <1>6, <1>7

\* What a scan folds in of a cluster it walked, before it counts the windows.
FoldedOut(p) ==
  /\ p \in Plans /\ p.gridWin = plan.gridWin /\ (p.gridWin = 0 \/ p.gridWin < Len(p.cuts)) /\ p.done = plan.done
  /\ Begun(file, p.cuts) /\ plan'.cuts = p.cuts /\ plan'.done = p.done /\ plan' \in Plans
  /\ plan'.gridWin \in p.gridWin..Len(p.cuts) /\ Drops(p, plan') /\ (plan.done => plan'.gridWin = p.gridWin)
  /\ file' = file /\ written' = written
  /\ Fresh(scan') /\ Folded' = Base + scan.at /\ (Base + scan.at)' = Base + scan.at
  /\ Base + scan.at = file.ends[plan.cursor + 1] /\ Base + scan.at \in 0..Len(file.blocks) /\ Base + scan.at <= written
  /\ ~plan.done => Keeps(file, written, p.gridPts, OpensAt(p.cuts, p.gridWin), Base + scan.at)

LEMMA ClusterFolded ==
    ASSUME WalkInv, CutsInv, GridInv, [Next]_vars, NEW p, NEW q, ClusterMoved(p, q)
    PROVE  FoldedOut(p)
<1> DEFINE c == plan.cuts
           n == plan.gridWin
           D == plan.gridPts
           A == scan.audio
           k == Base + scan.at
<1>0. /\ file \in Files /\ written \in 0..Len(file.blocks) /\ Len(file.blocks) \in Nat
      /\ plan \in Plans /\ scan \in Scans /\ c \in Seq(Cut) /\ n \in Nat /\ D \in Seq(Nat) /\ A \in Seq(Nat)
      /\ n <= Len(c) /\ Base \in Nat /\ scan.at \in Nat /\ plan.cursor \in Nat
  BY WalkFacts DEF WalkInv, Plans, Scans
<1>1. /\ Walking /\ UNCHANGED <<file, written>> /\ scan.at = Len(Cluster) /\ Fresh(scan')
      /\ p \in Plans /\ p.gridWin = n /\ p.gridWin <= Len(p.cuts) /\ IsPrefix(c, p.cuts) /\ p.done = plan.done
      /\ p.gridPts = (IF scan.locked THEN D ELSE D \o A) /\ q = updateSegCount(p)
      /\ plan'.gridPts = q.gridPts /\ plan'.cuts = q.cuts /\ plan'.gridWin = q.gridWin /\ plan'.done = q.done
      /\ plan'.cursor = plan.cursor + 1 /\ plan' \in Plans
  BY DEF ClusterMoved, Apart
<1>2. /\ q \in Plans /\ q.cuts = p.cuts /\ q.done = p.done /\ q.gridWin \in p.gridWin..Len(p.cuts) /\ Drops(p, q)
      /\ (p.done => q.gridWin = p.gridWin)
  BY <1>1, UpdateSegCount DEF SameWalk
<1>d. Drops(p, plan')
  BY <1>1, <1>2 DEF Drops
<1>3. (n = 0 \/ n < Len(c)) /\ (scan.at = 0 \/ scan.locked => A = <<>>)
  BY DEF GridInv
<1>4. p.gridPts = D \o A
  <2>1. CASE scan.locked
    <3>1. A = <<>>
      BY <1>3, <2>1
    <3>2. D \o <<>> = D
      BY <1>0
    <3> QED BY <1>1, <2>1, <3>1, <3>2
  <2>2. CASE ~scan.locked
    BY <1>1, <2>2
  <2> QED BY <2>1, <2>2
<1>5. p.cuts \in Seq(Cut)
  BY <1>1 DEF Plans
<1>6. (p.gridWin = 0 \/ p.gridWin < Len(p.cuts)) /\ OpensAt(p.cuts, p.gridWin) = OpensAt(c, n)
  BY <1>0, <1>1, <1>3, <1>5, OpensSame
<1>7. Begun(file, p.cuts)
  <2>1. WalkInv' /\ CutsInv'
    BY WalkStep, CutsStep
  <2>2. file' = file
    BY <1>1
  <2>3. (WalkInv /\ CutsInv => Begun(file, plan.cuts))'
    BY PlanBegun, PTL
  <2>4. Begun(file, plan'.cuts)
    BY <2>1, <2>2, <2>3
  <2> QED BY <1>1, <1>2, <2>4
<1>9. /\ Folded' = k /\ (Base + scan.at)' = k /\ k = file.ends[plan.cursor + 1] /\ k \in 0..Len(file.blocks) /\ k <= written
  <2>1. Len(Cluster) = file.ends[plan.cursor + 1] - Base /\ file.ends[plan.cursor + 1] \in Base..Len(file.blocks)
    BY <1>1, ClusterFacts
  <2>2. k = file.ends[plan.cursor + 1] /\ k \in 0..Len(file.blocks)
    <3> DEFINE e == file.ends[plan.cursor + 1]
    <3>1. scan.at = e - Base /\ e \in Base..Len(file.blocks)
      BY <1>1, <2>1
    <3> HIDE DEF e
    <3>2. k = e /\ k \in 0..Len(file.blocks)
      BY <1>0, <3>1
    <3> QED BY <3>2 DEF e
  <2>3. Base' = file.ends[plan.cursor + 1]
    BY <1>0, <1>1 DEF Base
  <2>4. scan'.at = 0 /\ scan'.locked = FALSE
    BY <1>1 DEF Fresh
  <2>5. k <= written
    BY <1>1, <2>2, WalkWritten
  <2> HIDE DEF k
  <2> QED BY <1>0, <2>2, <2>3, <2>4, <2>5 DEF Folded
<1>10. ~plan.done => Keeps(file, written, p.gridPts, OpensAt(p.cuts, p.gridWin), k)
  <2> SUFFICES ASSUME ~plan.done PROVE Keeps(file, written, p.gridPts, OpensAt(p.cuts, p.gridWin), k)
    OBVIOUS
  <2>1. Keeps(file, written, D \o A, OpensAt(c, n), k)
    BY DEF GridInv
  <2> QED BY <1>4, <1>6, <2>1
<1> QED BY <1>1, <1>2, <1>d, <1>6, <1>7, <1>9, <1>10 DEF FoldedOut

LEMMA GridCluster == ASSUME WalkInv, CutsInv, GridInv, [Next]_vars, NEW p, NEW q, ClusterMoved(p, q) PROVE GridInv'
<1> DEFINE k == Base + scan.at
<1>0. FoldedOut(p) /\ file \in Files /\ written \in 0..Len(file.blocks)
  BY ClusterFolded DEF WalkInv
<1>1. Rise(p.cuts)
  BY <1>0 DEF FoldedOut, Begun
<1>2. k \in Nat
  BY <1>0 DEF FoldedOut
<1>10. (plan'.gridWin = 0 \/ plan'.gridWin < Len(plan'.cuts))
       /\ (~plan.done => Keeps(file, written, plan'.gridPts, OpensAt(plan'.cuts, plan'.gridWin), k))
  <2>0. /\ p \in Plans /\ plan' \in Plans /\ (p.gridWin = 0 \/ p.gridWin < Len(p.cuts)) /\ plan'.cuts = p.cuts
        /\ plan'.gridWin \in p.gridWin..Len(p.cuts) /\ Drops(p, plan') /\ (plan.done => plan'.gridWin = p.gridWin)
        /\ (~plan.done => Keeps(file, written, p.gridPts, OpensAt(p.cuts, p.gridWin), k))
    BY <1>0 DEF FoldedOut
  <2>1. CASE plan.done
    BY <2>0, <2>1
  <2>2. CASE ~plan.done
    <3> HIDE DEF k
    <3> QED BY <1>0, <1>1, <1>2, <2>0, <2>2, DroppedKept
  <2> QED BY <2>1, <2>2
<1>11. plan'.gridPts \o scan'.audio = plan'.gridPts /\ scan'.audio = <<>>
  <2>1. scan'.audio = <<>> /\ plan'.gridPts \in Seq(Nat)
    BY <1>0 DEF FoldedOut, Fresh, Plans
  <2>2. \A s \in Seq(Nat) : s \o <<>> = s
    OBVIOUS
  <2> QED BY <2>1, <2>2
<1>12. file' = file /\ written' = written /\ plan'.done = plan.done /\ Folded' = k /\ (Base + scan.at)' = k
  BY <1>0 DEF FoldedOut
<1> QED BY <1>10, <1>11, <1>12 DEF GridInv

LEMMA GridStep == WalkInv /\ CutsInv /\ GridInv /\ [Next]_vars => GridInv'
<1> SUFFICES ASSUME WalkInv, CutsInv, GridInv, [Next]_vars PROVE GridInv'
  OBVIOUS
<1> DEFINE c == plan.cuts
           n == plan.gridWin
           x == OpensAt(c, n)
           D == plan.gridPts
           A == scan.audio
<1>0. /\ file \in Files /\ written \in 0..Len(file.blocks) /\ Len(file.blocks) \in Nat /\ written \in Nat
      /\ plan \in Plans /\ scan \in Scans /\ c \in Seq(Cut) /\ n \in Nat /\ D \in Seq(Nat) /\ A \in Seq(Nat)
      /\ n <= Len(c) /\ Base \in Nat /\ scan.at \in Nat /\ plan.cursor \in Nat
      /\ (scan.at = 0 => ~scan.locked)
  BY WalkFacts DEF WalkInv, Plans, Scans
<1>g. n = 0 \/ n < Len(c)
  BY DEF GridInv
<1>x. x \in Nat
  <2>1. IsPrefix(c, c)
    BY <1>0, PrefixIs
  <2> QED BY <1>0, <1>g, <2>1, OpensSame
<1>f. Folded \in Nat /\ Base <= Folded /\ Base + scan.at \in Nat /\ Base <= Base + scan.at /\ Folded <= Base + scan.at
  BY <1>0 DEF Folded
<1>k. ~plan.done => Keeps(file, written, D, x, Base)
  <2> SUFFICES ASSUME ~plan.done PROVE Keeps(file, written, D, x, Base)
    OBVIOUS
  <2>1. Keeps(file, written, D, x, Folded)
    BY DEF GridInv
  <2> HIDE DEF D, x
  <2> QED BY <1>0, <1>f, <2>1, KeepsLess
<1>e. \A s \in Seq(Nat) : s \o <<>> = s
  OBVIOUS
<1>r. ASSUME file' = file, written' = written, plan'.gridPts = D, plan'.gridWin = n, plan'.cuts = c,
             plan'.cursor = plan.cursor, plan'.done = plan.done, Fresh(scan')
      PROVE  GridInv'
  <2>1. scan'.at = 0 /\ scan'.locked = FALSE /\ scan'.audio = <<>>
    BY <1>r DEF Fresh
  <2>2. Folded' = Base /\ (Base + scan.at)' = Base
    <3>1. Base' = Base
      BY <1>r DEF Base
    <3> QED BY <1>0, <2>1, <3>1 DEF Folded
  <2>3. plan'.gridPts \o scan'.audio = D
    BY <1>0, <1>e, <1>r, <2>1
  <2> QED BY <1>g, <1>k, <1>r, <2>1, <2>2, <2>3 DEF GridInv
<1>1. CASE Quiet
  <2>1. UNCHANGED <<file, scan, plan>> /\ written' \in Nat /\ written <= written'
    BY <1>0, <1>1 DEF Quiet
  <2>2. Folded' = Folded /\ Base' = Base
    BY <2>1 DEF Folded, Base
  <2>3. ASSUME ~plan.done PROVE Keeps(file, written', D, x, Folded)
    <3>1. Keeps(file, written, D, x, Folded)
      BY <2>3 DEF GridInv
    <3> HIDE DEF D, x
    <3> QED BY <1>0, <1>f, <2>1, <3>1, KeepsLess
  <2>4. ASSUME ~plan.done PROVE Keeps(file, written', D \o A, x, Base + scan.at)
    <3>1. Keeps(file, written, D \o A, x, Base + scan.at)
      BY <2>4 DEF GridInv
    <3> HIDE DEF D, x, A
    <3> QED BY <1>0, <1>f, <2>1, <3>1, KeepsLess
  <2>5. scan.at = 0 \/ scan.locked => scan.audio = <<>>
    BY DEF GridInv
  <2> QED BY <1>g, <2>1, <2>2, <2>3, <2>4, <2>5 DEF GridInv
<1>2. CASE BeginMoved
  <2>1. UNCHANGED <<file, written, plan>> /\ Fresh(scan')
    BY <1>2 DEF BeginMoved, Apart
  <2> QED BY <1>r, <2>1
<1>3. CASE RestMoved
  <2>1. UNCHANGED <<file, written>> /\ Fresh(scan') /\ plan'.gridPts = D /\ plan'.gridWin = n /\ plan'.done = plan.done
    BY <1>3 DEF RestMoved, Apart
  <2>2. plan'.cuts = c /\ plan'.cursor = plan.cursor
    BY <1>3 DEF RestMoved, SameWalk
  <2> QED BY <1>r, <2>1, <2>2
<1>4. CASE FailMoved
  <2>1. UNCHANGED <<file, written>> /\ Fresh(scan') /\ (plan' = plan \/ plan' = NewPlan)
    BY <1>4 DEF FailMoved, Apart
  <2>2. CASE plan' = plan
    BY <1>r, <2>1, <2>2
  <2>3. CASE plan' = NewPlan
    <3>1. plan'.gridWin = 0 /\ plan'.gridPts = <<>> /\ plan'.cursor = 0
      BY <2>3 DEF NewPlan
    <3>2. scan'.at = 0 /\ scan'.locked = FALSE /\ scan'.audio = <<>>
      BY <2>1 DEF Fresh
    <3>3. Folded' = 0 /\ (Base + scan.at)' = 0
      BY <3>1, <3>2 DEF Base, Folded
    <3>4. plan'.gridPts \o scan'.audio = <<>>
      BY <3>1, <3>2
    <3>5. Keeps(file, written, <<>>, 0, 0)
      BY <1>0, KeepsNone
    <3>6. OpensAt(plan'.cuts, plan'.gridWin) = 0
      BY <3>1 DEF OpensAt
    <3> QED BY <2>1, <3>1, <3>2, <3>3, <3>4, <3>5, <3>6 DEF GridInv
  <2> QED BY <2>1, <2>2, <2>3
<1>5. CASE FinalMoved
  <2>1. scan' = Idle /\ plan'.done /\ plan'.gridWin = n /\ plan'.cuts = c
    BY <1>5 DEF FinalMoved, SameWalk
  <2>2. Idle.audio = <<>>
    BY DEF Idle
  <2> QED BY <1>g, <2>1, <2>2 DEF GridInv
<1> QED BY <1>1, <1>2, <1>3, <1>4, <1>5, Steps, GridBlock, GridCluster

-----------------------------------------------------------------------------
(* A window a scan settles is final: what a walk of it waits for is written,  *)
(* and when its frames spill past its end, so is what a walk of the next one  *)
(* waits for.                                                                 *)

SeenBy(f, w, ms) ==
  \A t \in f.tracks : \/ \E i \in 1..w : f.blocks[i].t = t /\ f.blocks[i].ms >= ms
                      \/ \A i \in 1..Len(f.blocks) : f.blocks[i].t = t => i <= w
SettledBy(f, w, c, n) ==
  /\ n < Len(c) /\ SeenBy(f, w, c[n+1].ms)
  /\ f.grid /\ Spilling(c, TimesOf("a", f.blocks), n) => n + 2 <= Len(c) /\ SeenBy(f, w, c[n+2].ms)

\* The clusters of the cuts end by block k.
Reached(f, c, k) == \A n \in 2..Len(c) : f.ends[c[n].at] <= k

\* By block k the audio is past cut n, or all of it is there.
Kept(f, ms, k) ==
  \/ \E i \in 1..k : f.blocks[i].t = "a" /\ f.blocks[i].ms >= ms
  \/ \A i \in 1..Len(f.blocks) : f.blocks[i].t = "a" => i <= k

LEMMA CutKept ==
    ASSUME NEW f \in Files, Interleaved(f), NEW c, Begun(f, c), NEW k \in 0..Len(f.blocks), Reached(f, c, k),
           NEW n \in 2..Len(c), f.grid => n + 1 <= Len(c)
    PROVE  Kept(f, c[n].ms, k)
<1> DEFINE P == PlannedCuts(f)
           by == f.ends[IF ~f.grid THEN P[n].at ELSE IF n < Len(P) THEN P[n+1].at ELSE Len(f.ends)]
           audio == {i \in DOMAIN f.blocks : f.blocks[i].t = "a"}
<1>0. /\ c \in Seq(Cut) /\ P \in Seq(Cut) /\ Len(c) \in Nat /\ Len(P) \in Nat /\ Len(c) <= Len(P)
      /\ \A m \in 1..Len(c) : c[m] = P[m]
  BY DEF Begun
<1>1. f.blocks \in Seq(Blocks) /\ Len(f.blocks) \in Nat /\ DOMAIN f.blocks = 1..Len(f.blocks)
  BY FileTypes
<1>2. n \in 2..Len(P) /\ n \in 1..Len(c) /\ c[n] = P[n]
  BY <1>0
<1>3. \/ \E i \in audio : i <= by /\ f.blocks[i].ms >= P[n].ms
      \/ \A i \in audio : i <= by
  BY <1>2 DEF Interleaved
<1>4. by <= k /\ by \in Nat
  <2>1. CASE ~f.grid
    <3>1. f.ends[c[n].at] <= k
      BY DEF Reached
    <3>2. \E i \in 1..Len(f.blocks) : CutFor(f, c[n], i)
      BY DEF Begun
    <3>3. c[n].at \in 1..Len(f.ends)
      BY <3>2 DEF CutFor
    <3>4. f.ends[c[n].at] \in Nat
      BY <3>3, FileTypes
    <3>5. by = f.ends[c[n].at]
      BY <1>2, <2>1
    <3> QED BY <3>1, <3>4, <3>5
  <2>2. CASE f.grid
    <3>0. n + 1 \in 2..Len(c) /\ n + 1 \in 1..Len(c) /\ n < Len(P) /\ c[n+1] = P[n+1]
      BY <1>0, <2>2
    <3>1. f.ends[c[n+1].at] <= k
      BY <3>0 DEF Reached
    <3>2. \E i \in 1..Len(f.blocks) : CutFor(f, c[n+1], i)
      BY <3>0 DEF Begun
    <3>3. c[n+1].at \in 1..Len(f.ends)
      BY <3>2 DEF CutFor
    <3>4. f.ends[c[n+1].at] \in Nat
      BY <3>3, FileTypes
    <3>5. by = f.ends[c[n+1].at]
      BY <2>2, <3>0
    <3> QED BY <3>1, <3>4, <3>5
  <2> QED BY <2>1, <2>2
<1> HIDE DEF by, P
<1>5. CASE \E i \in audio : i <= by /\ f.blocks[i].ms >= P[n].ms
  <2>1. PICK i \in audio : i <= by /\ f.blocks[i].ms >= P[n].ms
    BY <1>5
  <2>2. i \in 1..k /\ f.blocks[i].t = "a" /\ f.blocks[i].ms >= c[n].ms
    BY <1>1, <1>2, <1>4, <2>1
  <2> QED BY <2>2 DEF Kept
<1>6. CASE \A i \in audio : i <= by
  <2> HIDE DEF Kept
  <2>1. ASSUME NEW i \in 1..Len(f.blocks), f.blocks[i].t = "a" PROVE i <= k
    <3>1. i \in audio
      BY <1>1, <2>1
    <3>2. i <= by
      BY <1>6, <3>1
    <3> QED BY <1>4, <3>2
  <2> QED BY <2>1 DEF Kept
<1> QED BY <1>3, <1>5, <1>6

LEMMA SeenOnce ==
    ASSUME NEW f \in Files, NEW c, Begun(f, c), NEW k \in 0..Len(f.blocks), NEW w \in k..Len(f.blocks), Reached(f, c, k),
           NEW n \in 2..Len(c), "a" \in f.tracks => Kept(f, c[n].ms, w)
    PROVE  SeenBy(f, w, c[n].ms)
<1>1. Len(f.blocks) \in Nat /\ f.tracks \subseteq {"v", "a"}
  BY FileTypes
<1> SUFFICES ASSUME NEW t \in f.tracks
             PROVE  \/ \E i \in 1..w : f.blocks[i].t = t /\ f.blocks[i].ms >= c[n].ms
                    \/ \A i \in 1..Len(f.blocks) : f.blocks[i].t = t => i <= w
  BY DEF SeenBy
<1>2. CASE t = "v"
  <2>1. PICK i \in 1..Len(f.blocks) : CutFor(f, c[n], i)
    BY DEF Begun
  <2>2. f.blocks[i].t = "v" /\ f.blocks[i].ms = c[n].ms /\ i <= f.ends[c[n].at] /\ c[n].at \in 1..Len(f.ends)
    BY <2>1 DEF CutFor
  <2>3. f.ends[c[n].at] <= k
    BY DEF Reached
  <2>4. f.ends[c[n].at] \in Nat
    BY <2>2, FileTypes
  <2>5. i \in 1..w
    BY <1>1, <2>2, <2>3, <2>4
  <2>6. c[n].ms \in Nat
    BY DEF Begun
  <2> QED BY <1>2, <2>2, <2>5, <2>6
<1>3. CASE t = "a"
  BY <1>3 DEF Kept
<1> QED BY <1>1, <1>2, <1>3

LEMMA KeptLater ==
    ASSUME NEW f \in Files, NEW ms, NEW k \in 0..Len(f.blocks), NEW w \in k..Len(f.blocks), Kept(f, ms, k)
    PROVE  Kept(f, ms, w)
<1>1. Len(f.blocks) \in Nat
  BY FileTypes
<1>2. CASE \E i \in 1..k : f.blocks[i].t = "a" /\ f.blocks[i].ms >= ms
  <2>1. PICK i \in 1..k : f.blocks[i].t = "a" /\ f.blocks[i].ms >= ms
    BY <1>2
  <2>2. i \in 1..w
    BY <1>1
  <2> QED BY <2>1, <2>2 DEF Kept
<1>3. CASE \A i \in 1..Len(f.blocks) : f.blocks[i].t = "a" => i <= k
  <2>1. \A i \in 1..Len(f.blocks) : f.blocks[i].t = "a" => i <= w
    BY <1>1, <1>3
  <2> QED BY <2>1 DEF Kept
<1> QED BY <1>2, <1>3 DEF Kept

\* The audio heard by block R holds a time at or past ms.
LEMMA KeptHeard ==
    ASSUME NEW f \in Files, NEW ms \in Nat, NEW R \in 0..Len(f.blocks), NEW i \in 1..Len(Heard("a", f, R)),
           Heard("a", f, R)[i] >= ms
    PROVE  Kept(f, ms, R)
<1>1. HeardOf("a", f, R, Heard("a", f, R))
  BY HeardAre
<1>2. PICK j \in 1..R : f.blocks[j].t = "a" /\ f.blocks[j].ms = Heard("a", f, R)[i]
  BY <1>1 DEF HeardOf
<1> QED BY <1>2 DEF Kept

\* The audio kept by block R, none of it heard at or past ms: all of it is heard.
LEMMA KeptUnheard ==
    ASSUME NEW f \in Files, NEW ms \in Nat, NEW R \in 0..Len(f.blocks), Kept(f, ms, R),
           FirstAt(Heard("a", f, R), ms) > Len(Heard("a", f, R))
    PROVE  Heard("a", f, R) = TimesOf("a", f.blocks)
<1> DEFINE H == Heard("a", f, R)
<1>1. HeardOf("a", f, R, H) /\ H \in Seq(Nat) /\ Len(H) \in Nat
  <2>1. H \in Seq(Nat)
    BY HeardSteps
  <2>2. HeardOf("a", f, R, H)
    BY HeardAre
  <2> QED BY <2>1, <2>2
<1> HIDE DEF H
<1>2. ASSUME NEW i \in 1..R, f.blocks[i].t = "a", f.blocks[i].ms >= ms PROVE FALSE
  <2>1. PICK j \in 1..Len(H) : H[j] = f.blocks[i].ms
    BY <1>1, <1>2 DEF HeardOf
  <2>2. FirstIs(H, ms, FirstAt(H, ms))
    BY <1>1, FirstAtFirst
  <2>3. j < FirstAt(H, ms)
    <3>1. FirstAt(H, ms) > Len(H) /\ FirstAt(H, ms) \in 1..Len(H)+1
      BY <2>2 DEF FirstIs, H
    <3> QED BY <1>1, <3>1
  <2>4. H[j] < ms /\ H[j] \in Nat
    BY <1>1, <2>2, <2>3 DEF FirstIs
  <2> QED BY <1>2, <2>1, <2>4
<1>3. \A i \in 1..Len(f.blocks) : f.blocks[i].t = "a" => i <= R
  BY <1>2 DEF Kept
<1> QED BY <1>3, HeardAll

\* A window whose frames spill past its end is not settled on the frame after it alone.
Spilled(D, y) ==
  LET to == FirstAt(D, y)
  IN to <= Len(D) /\ to # 1 /\ ~(gridColdEnd(SubSeq(D, 1, to - 1)) <= gridIndex(D[to]))

LEMMA SpillKept ==
    ASSUME NEW f \in Files, NEW c, Begun(f, c), NEW m \in 1..Len(c), m < Len(c), NEW R \in 0..Len(f.blocks), NEW D \in Seq(Nat),
           Echo(D, Heard("a", f, R), FirstAt(Heard("a", f, R), c[m].ms)), Kept(f, c[m+1].ms, R),
           Spilling(c, TimesOf("a", f.blocks), m)
    PROVE  Spilled(D, c[m+1].ms)
<1> DEFINE H == Heard("a", f, R)
           T == TimesOf("a", f.blocks)
           x == c[m].ms
           y == c[m+1].ms
           a == FirstAt(H, x)
           b == FirstAt(H, y)
           to == FirstAt(D, y)
           w == SubSeq(H, a, b - 1)
<1>0. /\ Sorted(c) /\ m + 1 \in 1..Len(c) /\ Len(c) \in Nat /\ x \in Nat /\ y \in Nat /\ x <= y
  <2>1. Sorted(c) /\ Len(c) \in Nat
    BY BegunSorted DEF Begun
  <2>2. m + 1 \in 1..Len(c)
    BY <2>1
  <2>3. x \in Nat /\ y \in Nat
    BY <2>1, <2>2 DEF Sorted
  <2>4. x < y
    <3>1. Rise(c)
      BY <2>1 DEF Sorted
    <3> QED BY <2>2, <3>1 DEF Rise
  <2> QED BY <2>1, <2>2, <2>3, <2>4
<1>1. H \in Seq(Nat) /\ T \in Seq(Nat) /\ Begins(H, T) /\ Len(H) \in Nat
  <2>1. H \in Seq(Nat)
    BY HeardSteps
  <2>2. T \in Seq(Nat) /\ T = Heard("a", f, Len(f.blocks))
    BY TrackTimes
  <2>3. Len(f.blocks) \in R..Len(f.blocks)
    BY FileTypes
  <2>4. Begins(Heard("a", f, R), Heard("a", f, Len(f.blocks)))
    BY <2>3, HeardGrows
  <2>5. Begins(H, T)
    BY <2>2, <2>4
  <2>6. Len(H) \in Nat
    BY <2>1
  <2> QED BY <2>1, <2>2, <2>5, <2>6
<1>2. Echo(D, H, a) /\ Kept(f, y, R)
  OBVIOUS
<1>3. FullWindow(c, T, m) # <<>> /\ FullNext(c, T, m) # -1 /\ gridColdEnd(FullWindow(c, T, m)) > gridIndex(FullNext(c, T, m))
  BY DEF Spilling
<1>4. /\ FullWindow(c, T, m) = SubSeq(T, FirstAt(T, x), FirstAt(T, y) - 1)
      /\ FullNext(c, T, m) = IF FirstAt(T, y) <= Len(T) THEN T[FirstAt(T, y)] ELSE -1
  <2>1. Windowed(c, T, m)
    BY <1>0, <1>1, WindowIs
  <2>2. From(c, T, m) = FirstAt(T, x) /\ From(c, T, m + 1) = FirstAt(T, y)
    BY <1>0 DEF From
  <2> QED BY <2>1, <2>2 DEF Windowed
<1> HIDE DEF H, T, x, y
<1>5. WindowHeard(D, H, x, y)
  BY <1>0, <1>1, <1>2, EchoWindow
<1>6. b <= Len(H)
  <2> SUFFICES ASSUME ~(b <= Len(H)) PROVE FALSE
    OBVIOUS
  <2>1. b > Len(H)
    <3>1. b \in 1..Len(H)+1
      BY <1>1, FirstAtIs
    <3> QED BY <1>1, <3>1
  <2>2. H = T
    BY <1>0, <1>2, <2>1, KeptUnheard DEF H, T
  <2>3. ~(FirstAt(T, y) <= Len(T))
    BY <2>2
  <2> QED BY <1>3, <1>4, <2>3
<1>7. FirstAt(T, y) = b /\ FirstAt(T, x) = a /\ a <= b /\ a \in Nat \ {0} /\ b \in Nat \ {0}
  <2>1. FirstAt(T, y) = b
    BY <1>0, <1>1, <1>6, FirstAtBegins
  <2>2. a <= b
    BY <1>0, <1>1, FirstAtLater
  <2>3. a \in 1..Len(H)+1 /\ b \in 1..Len(H)+1
    BY <1>1, FirstAtIs
  <2>4. a <= Len(H)
    BY <1>1, <1>6, <2>2, <2>3
  <2>5. FirstAt(T, x) = a
    BY <1>0, <1>1, <2>4, FirstAtBegins
  <2> QED BY <1>1, <2>1, <2>2, <2>3, <2>5
<1>8. FullWindow(c, T, m) = w /\ FullNext(c, T, m) = H[b]
  <2>1. SubSeq(H, a, b - 1) = SubSeq(T, a, b - 1)
    <3>1. b - 1 \in Nat /\ b - 1 <= Len(H)
      BY <1>1, <1>6, <1>7
    <3> QED BY <1>1, <1>7, <3>1, SliceSame, ZenonT(30)
  <2>2. b \in 1..Len(H) /\ b <= Len(T) /\ H[b] = T[b]
    <3>1. b \in 1..Len(H) /\ Len(H) <= Len(T) /\ Len(T) \in Nat
      BY <1>1, <1>6, <1>7 DEF Begins
    <3> QED BY <1>1, <3>1, SMTT(30) DEF Begins
  <2> QED BY <1>4, <1>7, <2>1, <2>2
<1>9. to <= Len(D) /\ D[to] = H[b] /\ (to = 1 => w = <<>>)
      /\ (w # <<>> => gridColdEnd(w) <= gridColdEnd(SubSeq(D, 1, to - 1)))
  <2>1. to \in 1..Len(D)+1 /\ Len(D) \in Nat
    BY FirstAtIs
  <2>2. ~(to > Len(D))
    BY <1>1, <1>5, <1>6, <1>7 DEF WindowHeard
  <2> QED BY <1>5, <2>1, <2>2 DEF WindowHeard
<1>10. to # 1
  BY <1>3, <1>8, <1>9
<1>11. ~(gridColdEnd(SubSeq(D, 1, to - 1)) <= gridIndex(D[to]))
  <2>0. to \in 1..Len(D)+1 /\ Len(D) \in Nat
    BY FirstAtIs
  <2>1. w \in Seq(Nat) /\ gridColdEnd(w) \in Nat
    <3>1. Slice(H, a, b - 1, w)
      <4>1. b - 1 \in Nat /\ b - 1 <= Len(H)
        BY <1>1, <1>6, <1>7
      <4> QED BY <1>1, <1>7, <4>1, SliceIs
    <3>2. w \in Seq(Nat) /\ w # <<>>
      BY <1>3, <1>8, <3>1 DEF Slice
    <3> QED BY <3>2, GridOpenType
  <2>2. gridColdEnd(SubSeq(D, 1, to - 1)) \in Nat
    <3>1. to - 1 \in Nat /\ to - 1 <= Len(D) /\ ~(to - 1 < 1)
      BY <1>9, <1>10, <2>0
    <3>2. Slice(D, 1, to - 1, SubSeq(D, 1, to - 1)) /\ (SubSeq(D, 1, to - 1) = <<>> <=> to - 1 < 1)
      BY <3>1, SliceIs
    <3>3. SubSeq(D, 1, to - 1) \in Seq(Nat) /\ SubSeq(D, 1, to - 1) # <<>>
      BY <3>1, <3>2 DEF Slice
    <3> QED BY <3>3, GridOpenType
  <2>3. gridIndex(D[to]) \in Nat
    <3>1. D[to] \in Nat
      BY <1>9, <2>0
    <3> QED BY <3>1, GridIndexNat
  <2>4. gridColdEnd(w) > gridIndex(D[to]) /\ gridColdEnd(w) <= gridColdEnd(SubSeq(D, 1, to - 1))
    BY <1>3, <1>8, <1>9
  <2> DEFINE u == gridColdEnd(SubSeq(D, 1, to - 1))
             v == gridColdEnd(w)
             z == gridIndex(D[to])
  <2> HIDE DEF u, v, z
  <2> SUFFICES ~(u <= z)
    BY DEF u, z
  <2>5. u \in Nat /\ v \in Nat /\ z \in Nat /\ v > z /\ v <= u
    BY <2>1, <2>2, <2>3, <2>4 DEF u, v, z
  <2> QED BY <2>5
<1> USE DEF y
<1> QED BY <1>9, <1>10, <1>11 DEF Spilled

LEMMA SettledNew ==
    ASSUME file \in Files, Interleaved(file), NEW p \in Plans, Begun(file, p.cuts),
           NEW k \in 0..Len(file.blocks), NEW w \in k..Len(file.blocks), Reached(file, p.cuts, k),
           p.gridWin = 0 \/ p.gridWin < Len(p.cuts), Keeps(file, w, p.gridPts, OpensAt(p.cuts, p.gridWin), k),
           NEW m \in p.gridWin+1..Len(p.cuts), m < Len(p.cuts), gridSettled(p, m)
    PROVE  SettledBy(file, w, p.cuts, m)
<1> DEFINE c == p.cuts
           T == TimesOf("a", file.blocks)
           D == dropGridWindows(p, m - 1)
           H(R) == Heard("a", file, R)
           y == c[m+1].ms
           to == FirstAt(D, y)
<1>0. /\ Len(c) \in Nat /\ p.gridWin \in Nat /\ m \in 1..Len(c) /\ m - 1 \in p.gridWin..Len(c) /\ m + 1 \in 2..Len(c)
      /\ m + 1 \in 1..Len(c) /\ Len(file.blocks) \in Nat /\ k \in Nat /\ m - 1 < Len(c)
  <2>1. c \in Seq(Cut) /\ p.gridWin \in Nat
    BY DEF Plans
  <2>2. Len(file.blocks) \in Nat
    BY FileTypes
  <2> QED BY <2>1, <2>2
<1>1. Rise(c) /\ c[1].ms = 0 /\ \A i \in 1..Len(c) : c[i].ms \in Nat
  <2>1. c # <<>>
    BY <1>0
  <2> QED BY <2>1 DEF Begun
<1>2. y \in Nat
  BY <1>0, <1>1
<1>3. D \in Seq(Nat)
  BY DropType
<1>4. PICK R \in k..w : Echo(D, H(R), FirstAt(H(R), c[m].ms))
  <2>1. OpensAt(c, m - 1) = c[m].ms
    BY <1>0, <1>1 DEF OpensAt
  <2>2. w \in 0..Len(file.blocks)
    BY <1>0
  <2>3. Keeps(file, w, p.gridPts, OpensAt(p.cuts, p.gridWin), k)
    OBVIOUS
  <2>4. Keeps(file, w, dropGridWindows(p, m - 1), OpensAt(p.cuts, m - 1), k)
    BY <1>0, <1>1, <2>2, <2>3, FramesLeft
  <2> QED BY <2>1, <2>4 DEF Keeps
<1>5. R \in 0..Len(file.blocks) /\ w \in R..Len(file.blocks) /\ R \in k..Len(file.blocks)
  BY <1>0
<1>6. H(R) \in Seq(Nat)
  BY <1>5, HeardSteps
<1>7. ASSUME NEW n \in 2..Len(c), file.grid => n + 1 <= Len(c) PROVE Kept(file, c[n].ms, R)
  <2>1. Kept(file, c[n].ms, k)
    BY <1>7, CutKept
  <2> QED BY <1>5, <2>1, KeptLater
<1>8. ASSUME NEW n \in 2..Len(c), Kept(file, c[n].ms, R) PROVE SeenBy(file, w, c[n].ms)
  <2>1. Kept(file, c[n].ms, w)
    BY <1>5, <1>8, KeptLater
  <2> QED BY <2>1, SeenOnce
<1>9. ASSUME NEW ms \in Nat, NEW j \in 1..Len(D), D[j] >= ms PROVE Kept(file, ms, R)
  <2>1. PICK e : Echoes(D, H(R), FirstAt(H(R), c[m].ms), e)
    BY <1>4 DEF Echo
  <2>2. PICK i \in 1..Len(H(R)) : D[j] = H(R)[i]
    BY <2>1 DEF Echoes
  <2>3. Heard("a", file, R)[i] >= ms
    BY <1>9, <2>2
  <2> QED BY <1>5, <2>3, KeptHeard
<1>t. /\ to \in 1..Len(D)+1 /\ Len(D) \in Nat /\ (to <= Len(D) => D[to] >= y)
  BY <1>3, FirstAtIs
<1>s. file.grid => IF to > Len(D) THEN m + 2 <= Len(c)
                   ELSE \/ to = 1
                        \/ gridColdEnd(SubSeq(D, 1, to - 1)) <= gridIndex(D[to])
                        \/ /\ m + 2 <= Len(c)
                           /\ \/ FirstAt(SubSeq(D, to, Len(D)), c[m+2].ms) <= Len(D) - to + 1
                              \/ m + 3 <= Len(c)
  BY DEF gridSettled
<1>10. Kept(file, y, R)
  <2>1. CASE file.grid /\ to <= Len(D)
    <3>1. to \in 1..Len(D) /\ D[to] >= y
      BY <1>t, <2>1
    <3> QED BY <1>2, <1>9, <3>1
  <2>2. CASE ~(file.grid /\ to <= Len(D))
    <3>1. file.grid => m + 1 + 1 <= Len(c)
      <4>1. file.grid => to > Len(D)
        BY <1>t, <2>2
      <4> QED BY <1>0, <1>s, <4>1
    <3> QED BY <1>0, <1>7, <3>1
  <2> QED BY <2>1, <2>2
<1>11. SeenBy(file, w, c[m+1].ms)
  BY <1>0, <1>8, <1>10
<1>12. ASSUME file.grid, Spilling(c, T, m) PROVE m + 2 <= Len(c) /\ SeenBy(file, w, c[m+2].ms)
  <2>1. Spilled(D, y)
    BY <1>0, <1>3, <1>4, <1>5, <1>10, <1>12, SpillKept
  <2>2. to <= Len(D) /\ to # 1 /\ ~(gridColdEnd(SubSeq(D, 1, to - 1)) <= gridIndex(D[to]))
    BY <2>1 DEF Spilled
  <2>3. m + 2 <= Len(c) /\ (FirstAt(SubSeq(D, to, Len(D)), c[m+2].ms) <= Len(D) - to + 1 \/ m + 3 <= Len(c))
    <3>1. ~(to > Len(D))
      BY <1>t, <2>2
    <3> QED BY <1>12, <1>s, <2>2, <3>1
  <2>4. m + 2 \in 2..Len(c) /\ m + 2 \in 1..Len(c) /\ c[m+2].ms \in Nat
    BY <1>0, <1>1, <2>3
  <2>5. Kept(file, c[m+2].ms, R)
    <3>1. CASE m + 3 <= Len(c)
      <4>1. m + 2 + 1 <= Len(c)
        BY <1>0, <3>1
      <4> QED BY <1>7, <2>4, <4>1
    <3>2. CASE FirstAt(SubSeq(D, to, Len(D)), c[m+2].ms) <= Len(D) - to + 1
      <4> DEFINE u == SubSeq(D, to, Len(D))
                 j == FirstAt(u, c[m+2].ms)
      <4>1. Slice(D, to, Len(D), u)
        BY <1>3, <1>t, SliceIs
      <4>2. u \in Seq(Nat) /\ Len(u) = Len(D) - to + 1 /\ \A i \in 1..Len(u) : to + i - 1 \in to..Len(D) /\ u[i] = D[to + i - 1]
        BY <1>t, <2>2, <4>1 DEF Slice
      <4> HIDE DEF u
      <4>3. j \in 1..Len(u)+1 /\ (j <= Len(u) => u[j] >= c[m+2].ms) /\ Len(u) \in Nat
        BY <4>2, FirstAtIs
      <4>4. j <= Len(u)
        BY <3>2, <4>2 DEF u
      <4> HIDE DEF j
      <4>5. j \in 1..Len(u) /\ u[j] >= c[m+2].ms
        BY <4>3, <4>4
      <4>6. to + j - 1 \in 1..Len(D) /\ D[to + j - 1] >= c[m+2].ms
        <5>1. to + j - 1 \in to..Len(D) /\ u[j] = D[to + j - 1]
          BY <4>2, <4>5
        <5>2. to + j - 1 \in 1..Len(D)
          BY <1>t, <4>5, <5>1
        <5> QED BY <4>5, <5>1, <5>2
      <4> QED BY <1>9, <2>4, <4>6
    <3> QED BY <2>3, <3>1, <3>2
  <2> QED BY <1>8, <2>3, <2>4, <2>5
<1> QED BY <1>11, <1>12 DEF SettledBy

LEMMA SeenStays ==
    ASSUME NEW f, NEW w \in Nat, NEW v \in Nat, w <= v, Len(f.blocks) \in Nat, NEW ms, SeenBy(f, w, ms) PROVE SeenBy(f, v, ms)
<1> SUFFICES ASSUME NEW t \in f.tracks
             PROVE  \/ \E i \in 1..v : f.blocks[i].t = t /\ f.blocks[i].ms >= ms
                    \/ \A i \in 1..Len(f.blocks) : f.blocks[i].t = t => i <= v
  BY DEF SeenBy
<1>1. CASE \E i \in 1..w : f.blocks[i].t = t /\ f.blocks[i].ms >= ms
  <2>1. PICK i \in 1..w : f.blocks[i].t = t /\ f.blocks[i].ms >= ms
    BY <1>1
  <2>2. i \in 1..v
    OBVIOUS
  <2> QED BY <2>1, <2>2
<1>2. CASE \A i \in 1..Len(f.blocks) : f.blocks[i].t = t => i <= w
  <2>1. \A i \in 1..Len(f.blocks) : f.blocks[i].t = t => i <= v
    BY <1>2
  <2> QED BY <2>1
<1> QED BY <1>1, <1>2 DEF SeenBy

LEMMA SettledStays ==
    ASSUME NEW f \in Files, NEW w \in Nat, NEW v \in Nat, w <= v, NEW c, NEW e, More(c, e),
           NEW n \in 1..Len(c), SettledBy(f, w, c, n)
    PROVE  SettledBy(f, v, e, n)
<1> DEFINE T == TimesOf("a", f.blocks)
<1>0. c \in Seq(Cut) /\ e \in Seq(Cut) /\ Len(c) \in Nat /\ Len(e) \in Nat /\ Len(c) <= Len(e) /\ \A i \in 1..Len(c) : c[i] = e[i]
  BY DEF More, Sorted
<1>1. T \in Seq(Nat)
  BY TrackTimes
<1>2. n < Len(c) /\ SeenBy(f, w, c[n+1].ms)
  BY DEF SettledBy
<1>3. FullWindow(c, T, n) = FullWindow(e, T, n) /\ FullNext(c, T, n) = FullNext(e, T, n)
  BY <1>1, <1>2, WindowSame
<1>4. Spilling(e, T, n) => Spilling(c, T, n)
  BY <1>3 DEF Spilling
<1>5. n + 1 \in 1..Len(c) /\ c[n+1] = e[n+1] /\ n < Len(e)
  BY <1>0, <1>2
<1>l. Len(f.blocks) \in Nat
  BY FileTypes
<1>6. SeenBy(f, v, e[n+1].ms)
  BY <1>2, <1>5, <1>l, SeenStays
<1>7. ASSUME f.grid, Spilling(e, T, n) PROVE n + 2 <= Len(e) /\ SeenBy(f, v, e[n+2].ms)
  <2>1. n + 2 <= Len(c) /\ SeenBy(f, w, c[n+2].ms)
    BY <1>4, <1>7 DEF SettledBy
  <2>2. n + 2 \in 1..Len(c) /\ c[n+2] = e[n+2] /\ n + 2 <= Len(e)
    BY <1>0, <2>1
  <2> QED BY <1>l, <2>1, <2>2, SeenStays
<1> QED BY <1>5, <1>6, <1>7 DEF SettledBy

\* A step loses no cut and no published window, but for the failure of the first scan.
PlanGrows ==
  /\ More(plan.cuts, plan'.cuts) /\ plan'.gridWin \in Nat /\ plan.gridWin <= plan'.gridWin /\ plan'.gridWin <= Len(plan'.cuts)
  /\ (plan.done => plan'.done) /\ (opened => opened')
Onward == file' = file /\ written' \in written..Len(file.blocks) /\ (PlanGrows \/ Dropped)

LEMMA GoesOn == ASSUME WalkInv, CutsInv, [Next]_vars PROVE Onward
<1>1. WalkInv' /\ CutsInv'
  BY WalkStep, CutsStep
<1>0. /\ file \in Files /\ written \in 0..Len(file.blocks) /\ plan \in Plans /\ plan.gridWin \in Nat /\ plan.gridWin <= Len(plan.cuts)
      /\ plan.cuts \in Seq(Cut) /\ Len(file.blocks) \in Nat /\ plan.cursor \in Nat /\ Len(plan.cuts) \in Nat
  BY FileTypes DEF WalkInv, Plans
<1>2. plan' \in Plans /\ plan'.gridWin \in Nat /\ plan'.gridWin <= Len(plan'.cuts)
  BY <1>1 DEF WalkInv, Plans
<1>3. file' = file /\ written' \in written..Len(file.blocks)
  <2>1. CASE Quiet
    BY <2>1 DEF Quiet
  <2>2. CASE Apart
    BY <1>0, <2>2 DEF Apart
  <2> QED BY <2>1, <2>2, Steps DEF BeginMoved, BlockMoved, ClusterMoved, FailMoved, FinalMoved, RestMoved
<1>4. Begun(file, plan.cuts) /\ Begun(file, plan'.cuts)
  <2>1. Begun(file, plan.cuts)
    BY PlanBegun
  <2>2. (WalkInv /\ CutsInv => Begun(file, plan.cuts))'
    BY PlanBegun, PTL
  <2> QED BY <1>1, <1>3, <2>1, <2>2
<1>5. Len(plan.cuts) <= Len(plan'.cuts) => More(plan.cuts, plan'.cuts)
  <2> SUFFICES ASSUME Len(plan.cuts) <= Len(plan'.cuts) PROVE More(plan.cuts, plan'.cuts)
    OBVIOUS
  <2>1. Sorted(plan.cuts) /\ Sorted(plan'.cuts)
    BY <1>4, BegunSorted
  <2>2. ASSUME NEW i \in 1..Len(plan.cuts) PROVE plan.cuts[i] = plan'.cuts[i]
    <3>1. i \in 1..Len(plan'.cuts)
      BY <1>0, <1>2 DEF Plans
    <3> QED BY <1>4, <3>1 DEF Begun
  <2> QED BY <2>1, <2>2 DEF More
<1>6. CutsLonger \/ Dropped
  BY CutsLast
<1>7. Dropped \/ (plan.gridWin <= plan'.gridWin /\ (plan.done => plan'.done))
  <2>1. CASE Quiet
    BY <1>0, <2>1 DEF Quiet
  <2>2. CASE BeginMoved
    BY <1>0, <2>2 DEF BeginMoved
  <2>3. CASE \E b : BlockMoved(b)
    <3>1. PICK b : BlockMoved(b)
      BY <2>3
    <3>2. b \in Blocks /\ plan.cursor + 1 \in Nat
      BY <1>0, <3>1 DEF BlockMoved
    <3>3. CASE scan'.locked
      <4>1. plan' = foldBlock(plan, b, plan.cursor + 1)
        BY <3>1, <3>3 DEF BlockMoved
      <4>2. BlockFolded(plan, b, plan.cursor + 1, plan')
        BY <1>0, <3>2, <4>1, FoldBlock
      <4> QED BY <1>0, <4>2 DEF BlockFolded
    <3>4. CASE ~scan'.locked
      BY <1>0, <3>1, <3>4 DEF BlockMoved
    <3> QED BY <3>3, <3>4
  <2>4. CASE \E p, q : ClusterMoved(p, q)
    <3>1. PICK p, q : ClusterMoved(p, q)
      BY <2>4
    <3>2. /\ p \in Plans /\ p.gridWin = plan.gridWin /\ p.gridWin <= Len(p.cuts) /\ p.done = plan.done /\ q = updateSegCount(p)
          /\ plan'.gridWin = q.gridWin /\ plan'.done = q.done
      BY <3>1 DEF ClusterMoved
    <3>3. q.gridWin \in p.gridWin..Len(p.cuts) /\ q.done = p.done
      BY <3>2, UpdateSegCount
    <3> QED BY <1>0, <3>2, <3>3
  <2>5. CASE FailMoved
    BY <1>0, <2>5 DEF FailMoved, Dropped
  <2>6. CASE FinalMoved
    BY <1>0, <2>6 DEF FinalMoved
  <2>7. CASE RestMoved
    BY <1>0, <2>7 DEF RestMoved
  <2> QED BY <2>1, <2>2, <2>3, <2>4, <2>5, <2>6, <2>7, Steps
<1>8. Dropped \/ PlanGrows
  BY <1>2, <1>5, <1>6, <1>7 DEF PlanGrows, CutsLonger
<1> QED BY <1>3, <1>8 DEF Onward

SettledInv == Even => \A n \in 1..plan.gridWin : SettledBy(file, written, plan.cuts, n)

LEMMA SettledInit == Init => SettledInv
<1> SUFFICES ASSUME Init PROVE SettledInv
  OBVIOUS
<1>1. plan.gridWin = 0
  BY DEF Init, NewPlan
<1> QED BY <1>1 DEF SettledInv

\* The windows a scan publishes are settled.
LEMMA SettledCluster ==
    ASSUME WalkInv, CutsInv, AtInv, GridInv, [Next]_vars, Even, NEW p, NEW q, ClusterMoved(p, q),
           NEW n \in p.gridWin+1..plan'.gridWin
    PROVE  SettledBy(file, written, plan'.cuts, n)
<1> DEFINE k == Base + scan.at
<1>0. FoldedOut(p) /\ file \in Files /\ written \in 0..Len(file.blocks) /\ Len(file.blocks) \in Nat /\ Interleaved(file)
  BY ClusterFolded, FileTypes DEF WalkInv, Even
<1>1. /\ p \in Plans /\ plan' \in Plans /\ (p.gridWin = 0 \/ p.gridWin < Len(p.cuts)) /\ plan'.cuts = p.cuts
      /\ plan'.gridWin \in p.gridWin..Len(p.cuts) /\ Drops(p, plan') /\ (plan.done => plan'.gridWin = p.gridWin)
      /\ (~plan.done => Keeps(file, written, p.gridPts, OpensAt(p.cuts, p.gridWin), k)) /\ Begun(file, p.cuts)
      /\ k = file.ends[plan.cursor + 1] /\ k \in 0..Len(file.blocks) /\ k <= written
  BY <1>0 DEF FoldedOut
<1>2. p.gridWin \in Nat /\ plan'.gridWin \in Nat /\ p.cuts \in Seq(Cut) /\ Len(p.cuts) \in Nat
  BY <1>1 DEF Plans
<1>3. ~plan.done
  <2>1. p.gridWin # plan'.gridWin
    BY <1>2
  <2> QED BY <1>1, <2>1
<1>4. n < Len(p.cuts) /\ gridSettled(p, n) /\ n \in p.gridWin+1..Len(p.cuts)
  BY <1>1, <1>2 DEF Drops
<1>5. AtMost(p.cuts, plan.cursor + 1)
  <2>1. p.cuts = (IF scan.locked THEN plan.cuts ELSE recordKeyframes(plan.cuts, scan.keys, plan.cursor + 1))
    BY DEF ClusterMoved
  <2>2. AtMost(plan.cuts, plan.cursor + 1)
    BY DEF AtInv
  <2>3. plan.cuts \in Seq(Cut) /\ scan.keys \in Seq(Nat) /\ plan.cursor + 1 \in Nat
    BY DEF WalkInv, Plans, Scans
  <2> DEFINE at == plan.cursor + 1
  <2>4. AtMost(plan.cuts, at)
    BY <2>2
  <2> HIDE DEF at
  <2>5. at \in Nat /\ at <= at
    BY <2>3 DEF at
  <2>6. AtMost(recordKeyframes(plan.cuts, scan.keys, at), at)
    BY <2>3, <2>4, <2>5, AtMostKept
  <2> QED BY <2>1, <2>2, <2>6 DEF at
<1>6. Reached(file, p.cuts, k)
  <2> SUFFICES ASSUME NEW i \in 2..Len(p.cuts) PROVE file.ends[p.cuts[i].at] <= k
    BY DEF Reached
  <2>1. PICK j \in 1..Len(file.blocks) : CutFor(file, p.cuts[i], j)
    BY <1>1 DEF Begun
  <2>2. p.cuts[i].at \in 1..Len(file.ends)
    BY <2>1 DEF CutFor
  <2>3. p.cuts[i].at <= plan.cursor + 1
    BY <1>2, <1>5 DEF AtMost
  <2>4. plan.cursor + 1 \in 1..Len(file.ends)
    BY ClusterFacts DEF ClusterMoved
  <2>5. file.ends[p.cuts[i].at] <= file.ends[plan.cursor + 1]
    BY <1>0, <2>2, <2>3, <2>4, FileTypes
  <2> QED BY <1>1, <2>5
<1>7. written \in k..Len(file.blocks)
  BY <1>0, <1>1
<1>8. Keeps(file, written, p.gridPts, OpensAt(p.cuts, p.gridWin), k)
  BY <1>1, <1>3
<1> HIDE DEF k
<1> QED BY <1>0, <1>1, <1>4, <1>6, <1>7, <1>8, SettledNew

LEMMA SettledStep == WalkInv /\ CutsInv /\ AtInv /\ GridInv /\ SettledInv /\ [Next]_vars => SettledInv'
<1> SUFFICES ASSUME WalkInv, CutsInv, AtInv, GridInv, SettledInv, [Next]_vars, Even' PROVE \A n \in 1..plan'.gridWin : SettledBy(file', written', plan'.cuts, n)
  BY DEF SettledInv
<1>0. /\ file \in Files /\ written \in 0..Len(file.blocks) /\ plan \in Plans /\ plan.gridWin \in Nat /\ plan.gridWin <= Len(plan.cuts)
      /\ plan.cuts \in Seq(Cut) /\ Len(file.blocks) \in Nat /\ plan.cursor \in Nat /\ Len(plan.cuts) \in Nat
  BY FileTypes DEF WalkInv, Plans
<1>1. Onward
  BY GoesOn
<1>2. file' = file /\ written' \in Nat /\ written <= written'
  BY <1>0, <1>1 DEF Onward
<1>3. Even
  BY <1>2 DEF Even
<1>4. CASE Dropped
  <2>1. plan'.gridWin = 0
    BY <1>4 DEF Dropped, NewPlan
  <2> QED BY <2>1
<1>5. CASE PlanGrows
  <2>1. More(plan.cuts, plan'.cuts) /\ plan'.gridWin \in Nat /\ plan.gridWin <= plan'.gridWin
    BY <1>5 DEF PlanGrows
  <2>2. ASSUME NEW n \in 1..plan.gridWin PROVE SettledBy(file', written', plan'.cuts, n)
    <3>1. SettledBy(file, written, plan.cuts, n) /\ n \in 1..Len(plan.cuts)
      BY <1>0, <1>3 DEF SettledInv
    <3>2. written \in Nat
      BY <1>0
    <3>3. SettledBy(file, written', plan'.cuts, n)
      BY <1>0, <1>2, <2>1, <3>1, <3>2, SettledStays
    <3> QED BY <1>2, <3>3
  <2>3. ASSUME NEW n \in 1..plan'.gridWin, plan'.gridWin = plan.gridWin PROVE SettledBy(file', written', plan'.cuts, n)
    BY <2>2, <2>3
  <2>4. CASE \E p, q : ClusterMoved(p, q)
    <3>1. PICK p, q : ClusterMoved(p, q)
      BY <2>4
    <3>2. p.gridWin = plan.gridWin /\ written' = written
      BY <3>1 DEF ClusterMoved, Apart
    <3>3. ASSUME NEW n \in 1..plan'.gridWin PROVE SettledBy(file', written', plan'.cuts, n)
      <4>1. CASE n <= plan.gridWin
        <5>1. n \in 1..plan.gridWin
          BY <1>0, <2>1, <4>1
        <5> QED BY <2>2, <5>1
      <4>2. CASE ~(n <= plan.gridWin)
        <5>1. n \in p.gridWin+1..plan'.gridWin
          BY <1>0, <2>1, <3>2, <4>2
        <5>2. SettledBy(file, written, plan'.cuts, n)
          BY <1>3, <3>1, <5>1, SettledCluster
        <5> QED BY <1>2, <3>2, <5>2
      <4> QED BY <4>1, <4>2
    <3> QED BY <3>3
  <2>5. CASE Quiet
    BY <2>3, <2>5 DEF Quiet
  <2>6. CASE BeginMoved
    BY <2>3, <2>6 DEF BeginMoved
  <2>7. CASE \E b : BlockMoved(b)
    <3>1. PICK b : BlockMoved(b)
      BY <2>7
    <3>2. b \in Blocks /\ plan.cursor + 1 \in Nat
      BY <1>0, <3>1 DEF BlockMoved
    <3>3. CASE scan'.locked
      <4>1. plan' = foldBlock(plan, b, plan.cursor + 1)
        BY <3>1, <3>3 DEF BlockMoved
      <4>2. BlockFolded(plan, b, plan.cursor + 1, plan')
        BY <1>0, <3>2, <4>1, FoldBlock
      <4>3. plan'.gridWin = plan.gridWin
        BY <4>2 DEF BlockFolded
      <4> QED BY <2>3, <4>3
    <3>4. CASE ~scan'.locked
      <4>1. plan' = plan
        BY <3>1, <3>4 DEF BlockMoved
      <4> QED BY <2>3, <4>1
    <3> QED BY <3>3, <3>4
  <2>8. CASE FailMoved
    <3>1. plan' = plan \/ plan' = NewPlan
      BY <2>8 DEF FailMoved
    <3>2. CASE plan' = plan
      BY <2>3, <3>2
    <3>3. CASE plan' = NewPlan
      <4>1. plan'.gridWin = 0
        BY <3>3 DEF NewPlan
      <4> QED BY <4>1
    <3> QED BY <3>1, <3>2, <3>3
  <2>9. CASE FinalMoved
    BY <2>3, <2>9 DEF FinalMoved
  <2>10. CASE RestMoved
    BY <2>3, <2>10 DEF RestMoved
  <2> QED BY <2>4, <2>5, <2>6, <2>7, <2>8, <2>9, <2>10, Steps
<1> QED BY <1>1, <1>4, <1>5 DEF Onward

-----------------------------------------------------------------------------
(* What the requests are given and what they learn.                          *)

Audio(f) == TimesOf("a", f.blocks)
KnownIn(p, n) == n \in 1..Len(p.cuts) /\ (n <= p.gridWin \/ p.done)
Gridded(f, c, n) == f.grid /\ FullWindow(c, Audio(f), n) # <<>>

\* A start was learned of its own window, or of the one before, as where it ends.
StartKnown(f, p, s, m) ==
  \/ KnownIn(p, m) /\ Gridded(f, p.cuts, m) /\ s[m] = FullOpen(p.cuts, Audio(f), m)
  \/ m > 1 /\ KnownIn(p, m - 1) /\ Gridded(f, p.cuts, m - 1) /\ s[m] = FullEnd(p.cuts, Audio(f), m - 1)
StartsKnown(f, p, s) == \A m \in 1..Len(PlannedCuts(f)) : s[m] >= 0 => StartKnown(f, p, s, m)

\* As far as a request went, its segment is the full pass's.
Passing(q, pass) ==
  /\ q.pc \in {"open", "end", "answered"} => q.seg.frames = pass.frames /\ q.seg.next = pass.next
  /\ q.pc = "open" => q.seg.open = -1 /\ q.seg.end = -1
  /\ q.pc = "end" => q.seg.open = pass.open /\ q.seg.end = -1
  /\ q.pc = "answered" => q.seg = pass
ReqFinal(f, p, q) ==
  q.pc # "idle" => /\ KnownIn(p, q.n) /\ (IF q.closed THEN p.done ELSE q.n <= p.gridWin)
                   /\ Passing(q, FullPass(f, p.cuts, q.n))

AnswersInv ==
  /\ ~opened => \A m \in 1..Len(PlannedCuts(file)) : starts[m] = -1
  /\ Even => /\ EndsKnown(ended) /\ StartsKnown(file, plan, starts)
             /\ \A r \in Requests : ReqFinal(file, plan, req[r])

\* What stays of a window as cuts are added.
Stays(f, c, e, n) ==
  /\ FullWindow(c, Audio(f), n) = FullWindow(e, Audio(f), n) /\ FullOpen(c, Audio(f), n) = FullOpen(e, Audio(f), n)
  /\ Gridded(f, c, n) => FullEnd(c, Audio(f), n) = FullEnd(e, Audio(f), n)
  /\ FullPass(f, c, n) = FullPass(f, e, n)

LEMMA SettledPass ==
    ASSUME NEW f \in Files, NEW w, NEW c, NEW e, More(c, e), NEW n \in 1..Len(c), SettledBy(f, w, c, n)
    PROVE  Stays(f, c, e, n)
<1>1. n < Len(c) /\ (f.grid /\ Spilling(c, Audio(f), n) => n + 2 <= Len(c))
  BY DEF SettledBy, Audio
<1>2. Audio(f) \in Seq(Nat)
  BY TrackTimes DEF Audio
<1>3. FullWindow(c, Audio(f), n) = FullWindow(e, Audio(f), n) /\ FullOpen(c, Audio(f), n) = FullOpen(e, Audio(f), n)
  BY <1>1, <1>2, WindowSame
<1>4. Gridded(f, c, n) => FullEnd(c, Audio(f), n) = FullEnd(e, Audio(f), n)
  BY <1>1, <1>2, EndSame DEF Gridded
<1>5. FullPass(f, c, n) = FullPass(f, e, n)
  BY <1>1, PassSame DEF Audio
<1> QED BY <1>3, <1>4, <1>5 DEF Stays

LEMMA DoneRests == ASSUME WalkInv, ListInv, plan.done, [Next]_vars PROVE plan' = plan
<1>1. scan.pc = "idle"
  BY DEF ListInv
<1>2. CASE Quiet
  BY <1>2 DEF Quiet
<1>3. ~BeginMoved
  BY DEF BeginMoved
<1>4. ~(\E b : BlockMoved(b)) /\ ~(\E p, q : ClusterMoved(p, q))
  BY <1>1 DEF BlockMoved, ClusterMoved, Walking
<1>5. ~FailMoved /\ ~FinalMoved /\ ~RestMoved
  BY <1>1 DEF FailMoved, FinalMoved, RestMoved
<1> QED BY <1>2, <1>3, <1>4, <1>5, Steps

\* The plan grows under what was answered and learned.
LEMMA KnownStays ==
    ASSUME file \in Files, plan \in Plans, plan' \in Plans, SettledInv, Even, PlanGrows, plan.done => plan' = plan, NEW n, KnownIn(plan, n)
    PROVE  KnownIn(plan', n) /\ Stays(file, plan.cuts, plan'.cuts, n) /\ (n <= plan.gridWin => n <= plan'.gridWin)
<1>0. /\ n \in 1..Len(plan.cuts) /\ (n <= plan.gridWin \/ plan.done) /\ plan.gridWin \in Nat /\ plan'.gridWin \in Nat
      /\ Len(plan.cuts) \in Nat /\ Len(plan'.cuts) \in Nat
  BY DEF KnownIn, Plans
<1>1. More(plan.cuts, plan'.cuts) /\ plan.gridWin <= plan'.gridWin /\ (plan.done => plan'.done) /\ Len(plan.cuts) <= Len(plan'.cuts)
  BY DEF PlanGrows, More
<1>2. n \in 1..Len(plan'.cuts) /\ (n <= plan.gridWin => n <= plan'.gridWin)
  BY <1>0, <1>1
<1>3. KnownIn(plan', n)
  BY <1>0, <1>1, <1>2 DEF KnownIn
<1>4. Stays(file, plan.cuts, plan'.cuts, n)
  <2>1. CASE plan.done
    BY <2>1 DEF Stays
  <2>2. CASE n <= plan.gridWin
    <3>1. n \in 1..plan.gridWin
      BY <1>0, <2>2
    <3>2. SettledBy(file, written, plan.cuts, n)
      BY <3>1 DEF SettledInv
    <3> QED BY <1>0, <1>1, <3>2, SettledPass
  <2> QED BY <1>0, <2>1, <2>2
<1> QED BY <1>2, <1>3, <1>4

LEMMA AnswersInit == Init => AnswersInv
<1> SUFFICES ASSUME Init PROVE AnswersInv
  OBVIOUS
<1>1. /\ file \in Files /\ starts = [n \in DOMAIN Finished[file].cuts |-> -1] /\ ended = [t \in file.tracks |-> -1]
      /\ req = [r \in Requests |-> NoReq]
  BY DEF Init
<1>2. Finished[file].cuts = PlannedCuts(file)
  BY <1>1 DEF Finished
<1>3. DOMAIN PlannedCuts(file) = 1..Len(PlannedCuts(file))
  <2>1. PlannedCuts(file) \in Seq(Cut)
    BY <1>1, FoundStep, FileTypes
  <2> QED BY <2>1
<1>4. \A m \in 1..Len(PlannedCuts(file)) : starts[m] = -1 /\ ~(starts[m] >= 0)
  BY <1>1, <1>2, <1>3
<1>5. EndsKnown(ended)
  <2>1. \A t \in file.tracks : ended[t] = -1
    BY <1>1
  <2>2. \A t \in file.tracks : ~(ended[t] >= 0)
    BY <2>1
  <2> QED BY <2>2 DEF EndsKnown
<1>6. \A r \in Requests : ReqFinal(file, plan, req[r])
  <2>1. \A r \in Requests : req[r].pc = "idle"
    BY <1>1 DEF NoReq
  <2> QED BY <2>1 DEF ReqFinal
<1> QED BY <1>4, <1>5, <1>6 DEF AnswersInv, StartsKnown

\* A step of the writer or of a scan.
LEMMA AnswersKept ==
    ASSUME WalkInv, CutsInv, ListInv, ReqInv, SettledInv, AnswersInv, [Next]_vars, UNCHANGED <<starts, ended, req>>
    PROVE  AnswersInv'
<1>0. /\ file \in Files /\ plan \in Plans /\ plan' \in Plans /\ Len(PlannedCuts(file)) \in Nat
      /\ req \in [Requests -> ReqRecords] /\ (\A r \in Requests : req[r].pc # "idle" => opened)
  <2>1. WalkInv'
    BY WalkStep
  <2>2. Len(PlannedCuts(file)) \in Nat
    BY ReqFacts
  <2> QED BY <2>1, <2>2 DEF WalkInv, ReqInv, ReqOK
<1>1. Onward
  BY GoesOn
<1>2. file' = file /\ starts' = starts /\ ended' = ended /\ req' = req
  BY <1>1 DEF Onward
<1>3. plan.done => plan' = plan
  BY DoneRests
<1>4. CASE Dropped
  <2>1. ~opened /\ ~opened'
    BY <1>4 DEF Dropped
  <2>2. \A m \in 1..Len(PlannedCuts(file)) : starts[m] = -1 /\ ~(starts[m] >= 0)
    BY <2>1 DEF AnswersInv
  <2>3. \A r \in Requests : req[r].pc = "idle"
    BY <1>0, <2>1
  <2>4. Even' => EndsKnown(ended)'
    <3>1. Even' => Even
      BY <1>2 DEF Even
    <3>2. Even => EndsKnown(ended)
      BY DEF AnswersInv
    <3>3. EndsKnown(ended)' <=> EndsKnown(ended)
      BY <1>2 DEF EndsKnown
    <3> QED BY <3>1, <3>2, <3>3
  <2>5. StartsKnown(file, plan', starts)
    BY <2>2 DEF StartsKnown
  <2>6. \A r \in Requests : ReqFinal(file, plan', req[r])
    BY <2>3 DEF ReqFinal
  <2> QED BY <1>2, <2>2, <2>4, <2>5, <2>6 DEF AnswersInv
<1>5. CASE PlanGrows
  <2>1. opened => opened'
    BY <1>5 DEF PlanGrows
  <2>2. ~opened' => \A m \in 1..Len(PlannedCuts(file)) : starts[m] = -1
    BY <2>1 DEF AnswersInv
  <2>3. ASSUME Even' PROVE EndsKnown(ended)' /\ StartsKnown(file, plan', starts) /\ \A r \in Requests : ReqFinal(file, plan', req[r])
    <3>0. Even
      BY <1>2, <2>3 DEF Even
    <3>1. EndsKnown(ended) /\ StartsKnown(file, plan, starts) /\ \A r \in Requests : ReqFinal(file, plan, req[r])
      BY <3>0 DEF AnswersInv
    <3>2. EndsKnown(ended)'
      BY <1>2, <3>1 DEF EndsKnown
    <3>3. ASSUME NEW n, KnownIn(plan, n)
          PROVE  KnownIn(plan', n) /\ Stays(file, plan.cuts, plan'.cuts, n) /\ (n <= plan.gridWin => n <= plan'.gridWin)
      BY <1>0, <1>3, <1>5, <3>0, <3>3, KnownStays
    <3>4. ASSUME NEW m \in 1..Len(PlannedCuts(file)), starts[m] >= 0 PROVE StartKnown(file, plan', starts, m)
      <4>1. StartKnown(file, plan, starts, m)
        BY <3>1, <3>4 DEF StartsKnown
      <4>2. CASE KnownIn(plan, m) /\ Gridded(file, plan.cuts, m) /\ starts[m] = FullOpen(plan.cuts, Audio(file), m)
        <5>1. KnownIn(plan', m) /\ Stays(file, plan.cuts, plan'.cuts, m)
          BY <3>3, <4>2
        <5> QED BY <4>2, <5>1 DEF StartKnown, Stays, Gridded
      <4>3. CASE m > 1 /\ KnownIn(plan, m - 1) /\ Gridded(file, plan.cuts, m - 1) /\ starts[m] = FullEnd(plan.cuts, Audio(file), m - 1)
        <5>1. KnownIn(plan', m - 1) /\ Stays(file, plan.cuts, plan'.cuts, m - 1)
          BY <3>3, <4>3
        <5> QED BY <4>3, <5>1 DEF StartKnown, Stays, Gridded
      <4> QED BY <4>1, <4>2, <4>3 DEF StartKnown
    <3>5. ASSUME NEW r \in Requests PROVE ReqFinal(file, plan', req[r])
      <4> SUFFICES ASSUME req[r].pc # "idle"
                   PROVE  /\ KnownIn(plan', req[r].n) /\ (IF req[r].closed THEN plan'.done ELSE req[r].n <= plan'.gridWin)
                          /\ Passing(req[r], FullPass(file, plan'.cuts, req[r].n))
        BY DEF ReqFinal
      <4>1. /\ KnownIn(plan, req[r].n) /\ (IF req[r].closed THEN plan.done ELSE req[r].n <= plan.gridWin)
            /\ Passing(req[r], FullPass(file, plan.cuts, req[r].n))
        BY <3>1 DEF ReqFinal
      <4>2. KnownIn(plan', req[r].n) /\ Stays(file, plan.cuts, plan'.cuts, req[r].n) /\ (req[r].n <= plan.gridWin => req[r].n <= plan'.gridWin)
        BY <3>3, <4>1
      <4>3. plan.done => plan'.done
        BY <1>5 DEF PlanGrows
      <4> QED BY <4>1, <4>2, <4>3 DEF Stays
    <3> QED BY <3>2, <3>4, <3>5 DEF StartsKnown
  <2> QED BY <1>2, <2>2, <2>3 DEF AnswersInv
<1> QED BY <1>1, <1>4, <1>5 DEF Onward

\* A window followed by one with frames ends where that one opens.
LEMMA EndNext ==
    ASSUME NEW c, NEW pts, NEW n \in Nat, n + 1 \in 1..Len(c), Len(c) \in Nat, FullWindow(c, pts, n + 1) # <<>>
    PROVE  FullEnd(c, pts, n) = FullOpen(c, pts, n + 1)
<1> DEFINE later == {m \in n+1..Len(c) : FullWindow(c, pts, m) # <<>>}
           first == CHOOSE m \in later : \A k \in later : m <= k
<1>1. n + 1 \in later
  OBVIOUS
<1>2. \A k \in later : k \in Int /\ n + 1 <= k
  OBVIOUS
<1>3. first = n + 1
  <2> HIDE DEF later
  <2>1. first \in later /\ \A k \in later : first <= k
    BY <1>1, <1>2
  <2>2. first <= n + 1 /\ n + 1 <= first /\ first \in Int
    BY <1>1, <1>2, <2>1
  <2> HIDE DEF first
  <2> QED BY <2>2
<1>4. FullEnd(c, pts, n) = IF later = {} THEN -1 ELSE FullOpen(c, pts, first)
  BY DEF FullEnd
<1> HIDE DEF later, first
<1> QED BY <1>1, <1>3, <1>4

\* What holds while a request is answered, of a file whose tracks keep up with each other.
Sound == WalkInv /\ CutsInv /\ ListInv /\ ReqInv /\ SettledInv /\ EndingInv /\ AnswersInv /\ Even

LEMMA SoundFacts ==
    ASSUME Sound
    PROVE  /\ file \in Files /\ written \in 0..Len(file.blocks) /\ Len(file.blocks) \in Nat /\ plan \in Plans
           /\ plan.cuts \in Seq(Cut) /\ Len(plan.cuts) \in Nat /\ Begun(file, plan.cuts) /\ Sorted(plan.cuts)
           /\ Audio(file) \in Seq(Nat) /\ EndsInside(file) /\ EndsKnown(ended) /\ StartsKnown(file, plan, starts)
           /\ Learned(starts, ended) /\ (file.grid => "a" \in file.tracks) /\ plan.gridWin \in Nat
           /\ (\A r \in Requests : ReqFinal(file, plan, req[r]))
           /\ Len(PlannedCuts(file)) \in Nat /\ Len(plan.cuts) <= Len(PlannedCuts(file))
<1>1. WalkInv /\ CutsInv /\ ReqInv /\ AnswersInv /\ Even
  BY DEF Sound
<1>2. Begun(file, plan.cuts)
  BY <1>1, PlanBegun
<1>3. Sorted(plan.cuts)
  BY <1>2, BegunSorted
<1>4. Audio(file) \in Seq(Nat) /\ Len(file.blocks) \in Nat
  BY <1>1, TrackTimes, FileTypes DEF Audio, WalkInv
<1>5. EndsInside(file) /\ EndsKnown(ended) /\ StartsKnown(file, plan, starts) /\ \A r \in Requests : ReqFinal(file, plan, req[r])
  BY <1>1 DEF AnswersInv, Even
<1>6. plan \in Plans /\ plan.gridWin \in Nat
  BY <1>1 DEF WalkInv, Plans
<1> QED BY <1>1, <1>2, <1>3, <1>4, <1>5, <1>6, ReqFacts

LEMMA ReadyKnown == ASSUME Sound, NEW n, KnownIn(plan, n) PROVE Ready(n)
<1>0. n \in 1..Len(plan.cuts) /\ (n <= plan.gridWin \/ plan.done) /\ plan.gridWin \in Nat /\ Len(plan.cuts) \in Nat
  BY SoundFacts DEF KnownIn
<1>1. CASE plan.done
  <2>1. written = Len(file.blocks) /\ Len(file.blocks) \in Nat
    BY <1>1, SoundFacts DEF Sound, EndingInv
  <2>2. \A t, ms : Crossed(t, ms)
    <3>1. \A i \in 1..Len(file.blocks) : i <= written
      BY <2>1
    <3> QED BY <3>1 DEF Crossed
  <2> QED BY <2>1, <2>2 DEF Ready, Seen
<1>2. CASE n <= plan.gridWin
  <2>1. n \in 1..plan.gridWin
    BY <1>0, <1>2
  <2>2. SettledBy(file, written, plan.cuts, n)
    BY <2>1 DEF Sound, SettledInv
  <2>3. n < Len(plan.cuts) /\ SeenBy(file, written, plan.cuts[n+1].ms)
    BY <2>2 DEF SettledBy
  <2>4. Seen(plan.cuts[n+1].ms)
    BY <2>3 DEF Seen, SeenBy, Crossed
  <2> QED BY <1>0, <2>3, <2>4 DEF Ready
<1> QED BY <1>0, <1>1, <1>2

LEMMA ReadyNext ==
    ASSUME Sound, NEW n, KnownIn(plan, n), file.grid, Spilling(plan.cuts, Audio(file), n)
    PROVE  n + 1 \in 1..Len(plan.cuts) /\ Ready(n + 1)
<1>0. n \in 1..Len(plan.cuts) /\ (n <= plan.gridWin \/ plan.done) /\ plan.gridWin \in Nat /\ Len(plan.cuts) \in Nat
  BY SoundFacts DEF KnownIn
<1>e. EndsAt(plan.cuts, Audio(file), n) /\ FullNext(plan.cuts, Audio(file), n) # -1
  <2>1. FullWindow(plan.cuts, Audio(file), n) # <<>> /\ FullNext(plan.cuts, Audio(file), n) # -1
    BY DEF Spilling
  <2> QED BY <1>0, <2>1, SoundFacts, EndIs
<1>1. n < Len(plan.cuts)
  BY <1>e DEF EndsAt
<1>2. n + 1 \in 1..Len(plan.cuts)
  BY <1>0, <1>1
<1>3. CASE plan.done
  <2>1. KnownIn(plan, n + 1)
    BY <1>2, <1>3 DEF KnownIn
  <2> QED BY <1>2, <2>1, ReadyKnown
<1>4. CASE n <= plan.gridWin
  <2>1. n \in 1..plan.gridWin
    BY <1>0, <1>4
  <2>2. SettledBy(file, written, plan.cuts, n)
    BY <2>1 DEF Sound, SettledInv
  <2>3. n + 2 <= Len(plan.cuts) /\ SeenBy(file, written, plan.cuts[n+2].ms)
    BY <2>2 DEF SettledBy, Audio
  <2>4. Seen(plan.cuts[n+2].ms)
    BY <2>3 DEF Seen, SeenBy, Crossed
  <2>5. n + 1 + 1 = n + 2 /\ n + 1 < Len(plan.cuts)
    BY <1>0, <2>3
  <2>6. Seen(plan.cuts[n+1+1].ms)
    BY <2>4, <2>5
  <2> QED BY <1>0, <1>2, <2>5, <2>6 DEF Ready
<1> QED BY <1>0, <1>3, <1>4

LEMMA WalkOf ==
    ASSUME Sound, NEW n \in 1..Len(plan.cuts), Ready(n)
    PROVE  Right(n, walkWindow(n)) /\ walkWindow(n).ended \in [file.tracks -> Nat \union {-1}]
<1>1. ended \in [file.tracks -> Nat \union {-1}]
  BY SoundFacts DEF Learned
<1>2. Right(n, walkWindow(n))
  BY <1>1, SoundFacts, WalkRight
<1>3. WindowTyped(n, walkWindow(n))
  BY <1>1, SoundFacts, WindowType
<1> QED BY <1>2, <1>3 DEF WindowTyped

\* The segment of a request, its stage given.
LEMMA PassTaken ==
    ASSUME Sound, NEW r \in Requests, req[r].pc # "idle", NEW q, q.n = req[r].n, q.closed = req[r].closed, q.pc # "idle",
           Passing(q, FullPass(file, plan.cuts, q.n))
    PROVE  ReqFinal(file, plan, q)
<1>1. ReqFinal(file, plan, req[r])
  BY SoundFacts
<1> QED BY <1>1 DEF ReqFinal

Answers(s, e, q) ==
  EndsKnown(e) /\ StartsKnown(file, plan, s) /\ \A r \in Requests : ReqFinal(file, plan, q[r])

LEMMA OneAnswers ==
    ASSUME Sound, NEW r \in Requests, NEW q, ReqFinal(file, plan, q), req' = [req EXCEPT ![r] = q]
    PROVE  \A s \in Requests : ReqFinal(file, plan, req'[s])
<1>1. req \in [Requests -> ReqRecords] /\ \A s \in Requests : ReqFinal(file, plan, req[s])
  BY SoundFacts DEF Sound, ReqInv
<1> TAKE s \in Requests
<1>2. req'[s] = IF s = r THEN q ELSE req[s]
  BY <1>1
<1> QED BY <1>1, <1>2

\* A request's record after a step of its own.
LEMMA SteppedTo ==
    ASSUME Sound, NEW r \in Requests, req[r].pc # "idle", NEW seg, NEW pc, pc # "idle", Step(r, seg, pc),
           NEW q, q = [req[r] EXCEPT !.seg = seg, !.pc = pc], Passing(q, FullPass(file, plan.cuts, q.n))
    PROVE  \A s \in Requests : ReqFinal(file, plan, req'[s])
<1>1. req[r] \in ReqRecords /\ req \in [Requests -> ReqRecords]
  BY DEF Sound, ReqInv
<1>2. req' = [req EXCEPT ![r] = q]
  BY <1>1 DEF Step
<1>3. q.n = req[r].n /\ q.closed = req[r].closed /\ q.pc = pc
  BY <1>1 DEF ReqRecords
<1>4. ReqFinal(file, plan, q)
  BY <1>3, PassTaken
<1> QED BY <1>2, <1>4, OneAnswers

LEMMA AskAnswers ==
    ASSUME Sound, NEW r \in Requests, Ask(r) PROVE Answers(starts', ended', req')
<1>1. PICK n \in 1..plan.published :
        req' = [req EXCEPT ![r] = [pc |-> "walk", n |-> n, closed |-> plan.done, seg |-> None]]
  BY DEF Ask
<1> DEFINE q == [pc |-> "walk", n |-> n, closed |-> plan.done, seg |-> None]
<1>2. starts' = starts /\ ended' = ended
  BY DEF Ask, learned
<1>3. q.pc = "walk" /\ q.n = n /\ q.closed = plan.done /\ req' = [req EXCEPT ![r] = q]
  BY <1>1
<1> HIDE DEF q
<1>4. plan.published <= Len(plan.cuts) /\ (~plan.done => plan.published <= plan.gridWin) /\ plan.published \in Nat
  BY SoundFacts DEF Sound, ListInv, Plans
<1>5. n \in 1..Len(plan.cuts) /\ (n <= plan.gridWin \/ plan.done)
  BY <1>4, SoundFacts
<1>6. ReqFinal(file, plan, q)
  BY <1>3, <1>5 DEF ReqFinal, KnownIn, Passing
<1>7. \A s \in Requests : ReqFinal(file, plan, req'[s])
  BY <1>3, <1>6, OneAnswers
<1> QED BY <1>2, <1>7, SoundFacts DEF Answers

LEMMA GiveUpAnswers ==
    ASSUME Sound, NEW r \in Requests, GiveUp(r) PROVE Answers(starts', ended', req')
<1>1. req' = [req EXCEPT ![r] = NoReq] /\ starts' = starts /\ ended' = ended
  BY DEF GiveUp, learned
<1>2. ReqFinal(file, plan, NoReq)
  BY DEF ReqFinal, NoReq
<1>3. \A s \in Requests : ReqFinal(file, plan, req'[s])
  BY <1>1, <1>2, OneAnswers
<1> QED BY <1>1, <1>3, SoundFacts DEF Answers

\* A request's window, and the full pass's.
LEMMA PassFacts ==
    ASSUME Sound, NEW r \in Requests, req[r].pc # "idle"
    PROVE  LET n == req[r].n
               pass == FullPass(file, plan.cuts, n)
           IN /\ KnownIn(plan, n) /\ n \in 1..Len(plan.cuts) /\ Passing(req[r], pass)
              /\ pass.frames = [t \in file.tracks |-> FullWindow(plan.cuts, TimesOf(t, file.blocks), n)]
              /\ pass.next = [t \in file.tracks |-> FullNext(plan.cuts, TimesOf(t, file.blocks), n)]
              /\ pass.open = (IF Gridded(file, plan.cuts, n) THEN FullOpen(plan.cuts, Audio(file), n) ELSE -1)
              /\ pass.end = (IF Gridded(file, plan.cuts, n) THEN FullEnd(plan.cuts, Audio(file), n) ELSE -1)
              /\ pass = [frames |-> pass.frames, next |-> pass.next, open |-> pass.open, end |-> pass.end]
<1> DEFINE n == req[r].n
           pass == FullPass(file, plan.cuts, n)
<1>1. KnownIn(plan, n) /\ Passing(req[r], pass)
  BY SoundFacts DEF ReqFinal
<1>2. pass = PassOf(file, plan.cuts, n)
  BY SoundFacts, PassIs
<1>3. n \in 1..Len(plan.cuts)
  BY <1>1 DEF KnownIn
<1> HIDE DEF n, pass
<1>4. /\ pass.frames = [t \in file.tracks |-> FullWindow(plan.cuts, TimesOf(t, file.blocks), n)]
      /\ pass.next = [t \in file.tracks |-> FullNext(plan.cuts, TimesOf(t, file.blocks), n)]
      /\ pass.open = (IF Gridded(file, plan.cuts, n) THEN FullOpen(plan.cuts, Audio(file), n) ELSE -1)
      /\ pass.end = (IF Gridded(file, plan.cuts, n) THEN FullEnd(plan.cuts, Audio(file), n) ELSE -1)
      /\ pass = [frames |-> pass.frames, next |-> pass.next, open |-> pass.open, end |-> pass.end]
  BY <1>2 DEF PassOf, Gridded, Audio
<1> QED BY <1>1, <1>3, <1>4 DEF n, pass

LEMMA WalkAnswers ==
    ASSUME Sound, NEW r \in Requests, WalkWindow(r) PROVE Answers(starts', ended', req')
<1> DEFINE n == req[r].n
           w == walkWindow(n)
           seg == [frames |-> w.frames, next |-> w.next, open |-> -1, end |-> -1]
           pc == IF file.grid /\ w.frames["a"] # <<>> THEN "open" ELSE "answered"
           pass == FullPass(file, plan.cuts, n)
           q == [req[r] EXCEPT !.seg = seg, !.pc = pc]
<1>1. req[r].pc = "walk" /\ ended' = w.ended /\ Step(r, seg, pc) /\ starts' = starts
  BY DEF WalkWindow
<1>2. /\ KnownIn(plan, n) /\ n \in 1..Len(plan.cuts)
      /\ pass.frames = [t \in file.tracks |-> FullWindow(plan.cuts, TimesOf(t, file.blocks), n)]
      /\ pass.next = [t \in file.tracks |-> FullNext(plan.cuts, TimesOf(t, file.blocks), n)]
      /\ pass.open = (IF Gridded(file, plan.cuts, n) THEN FullOpen(plan.cuts, Audio(file), n) ELSE -1)
      /\ pass.end = (IF Gridded(file, plan.cuts, n) THEN FullEnd(plan.cuts, Audio(file), n) ELSE -1)
      /\ pass = [frames |-> pass.frames, next |-> pass.next, open |-> pass.open, end |-> pass.end]
  BY <1>1, PassFacts
<1>3. Right(n, w)
  <2>1. Ready(n)
    BY <1>2, ReadyKnown
  <2> QED BY <1>2, <2>1, WalkOf
<1>4. req[r] \in ReqRecords /\ (file.grid => "a" \in file.tracks)
  BY SoundFacts DEF Sound, ReqInv
<1>5. q.n = n /\ q.seg = seg /\ q.pc = pc
  BY <1>4 DEF ReqRecords
<1> HIDE DEF w, n, pass
<1>6. w.frames = pass.frames /\ w.next = pass.next /\ EndsKnown(w.ended)
  BY <1>2, <1>3 DEF Right
<1>7. seg.frames = pass.frames /\ seg.next = pass.next /\ seg.open = -1 /\ seg.end = -1
  BY <1>6
<1>8. pc = "answered" => seg = pass
  <2> SUFFICES ASSUME pc = "answered" PROVE seg = pass
    OBVIOUS
  <2>1. ~(file.grid /\ w.frames["a"] # <<>>)
    OBVIOUS
  <2>2. ~Gridded(file, plan.cuts, n)
    <3> SUFFICES ASSUME Gridded(file, plan.cuts, n) PROVE FALSE
      OBVIOUS
    <3>1. file.grid /\ FullWindow(plan.cuts, TimesOf("a", file.blocks), n) # <<>>
      BY DEF Gridded, Audio
    <3>2. w.frames["a"] = FullWindow(plan.cuts, TimesOf("a", file.blocks), n)
      BY <1>2, <1>4, <1>6, <3>1
    <3> QED BY <2>1, <3>1, <3>2
  <2>3. pass.open = -1 /\ pass.end = -1
    BY <1>2, <2>2
  <2>4. pass = [frames |-> pass.frames, next |-> pass.next, open |-> -1, end |-> -1]
    BY <1>2, <2>3
  <2> QED BY <1>6, <2>4
<1>9. pc \in {"open", "answered"}
  OBVIOUS
<1> HIDE DEF seg, pc
<1>10. Passing(q, pass)
  BY <1>5, <1>7, <1>8, <1>9 DEF Passing
<1>11. \A s \in Requests : ReqFinal(file, plan, req'[s])
  <2>1. Passing(q, FullPass(file, plan.cuts, q.n))
    BY <1>5, <1>10 DEF pass
  <2>2. req[r].pc # "idle" /\ pc # "idle"
    BY <1>1, <1>9
  <2> HIDE DEF q
  <2>3. q = [req[r] EXCEPT !.seg = seg, !.pc = pc]
    BY DEF q
  <2> QED BY <1>1, <2>1, <2>2, <2>3, SteppedTo
<1> QED BY <1>1, <1>6, <1>11, SoundFacts DEF Answers

\* What a request learns leaves the rest of what was learned.
LEMMA LearnedKnown ==
    ASSUME Sound, NEW m \in 1..Len(plan.cuts), NEW k, starts[m] < 0, NEW s, s = learnGridStart(starts, m, k),
           StartKnown(file, plan, s, m)
    PROVE  s[m] = k /\ StartsKnown(file, plan, s)
<1>1. starts \in [1..Len(PlannedCuts(file)) -> Nat \union {-1}] /\ StartsKnown(file, plan, starts)
      /\ m \in 1..Len(PlannedCuts(file)) /\ m <= Len(plan.cuts)
  BY SoundFacts DEF Learned
<1>2. s = [starts EXCEPT ![m] = k]
  BY <1>1 DEF learnGridStart
<1>3. s[m] = k
  BY <1>1, <1>2
<1>4. ASSUME NEW i \in 1..Len(PlannedCuts(file)), s[i] >= 0 PROVE StartKnown(file, plan, s, i)
  <2>1. CASE i = m
    BY <2>1
  <2>2. CASE i # m
    <3>1. s[i] = starts[i]
      BY <1>1, <1>2, <2>2
    <3>2. StartKnown(file, plan, starts, i)
      BY <1>1, <1>4, <3>1 DEF StartsKnown
    <3> QED BY <3>1, <3>2 DEF StartKnown
  <2> QED BY <2>1, <2>2
<1> QED BY <1>3, <1>4 DEF StartsKnown

LEMMA LearnedAs ==
    ASSUME Sound, NEW m \in 1..Len(plan.cuts), NEW k, starts[m] < 0
    PROVE  learnGridStart(starts, m, k)[m] = k
<1>1. starts \in [1..Len(PlannedCuts(file)) -> Nat \union {-1}] /\ m \in 1..Len(PlannedCuts(file)) /\ m <= Len(plan.cuts)
  BY SoundFacts DEF Learned
<1> QED BY <1>1 DEF learnGridStart

LEMMA OpenAnswers ==
    ASSUME Sound, NEW r \in Requests, GridOpens(r) PROVE Answers(starts', ended', req')
<1> DEFINE n == req[r].n
           c == plan.cuts
           T == Audio(file)
           seg == req[r].seg
           pts == seg.frames["a"]
           before == n > 1 /\ gridJitter(pts)
           w == walkWindow(n - 1)
           prevEnd == IF before /\ w.frames["a"] # <<>> THEN gridColdEnd(w.frames["a"]) ELSE -1
           to == [seg EXCEPT !.open = starts'[n]]
           pass == FullPass(file, plan.cuts, n)
           q == [req[r] EXCEPT !.seg = to, !.pc = "end"]
<1>1. /\ req[r].pc = "open" /\ Step(r, to, "end")
      /\ IF starts[n] >= 0 THEN UNCHANGED learned
         ELSE /\ starts' = learnGridStart(starts, n, gridOpen(pts, prevEnd))
              /\ ended' = IF before THEN w.ended ELSE ended
  BY DEF GridOpens
<1>2. /\ KnownIn(plan, n) /\ n \in 1..Len(c) /\ Passing(req[r], pass)
      /\ pass.frames = [t \in file.tracks |-> FullWindow(plan.cuts, TimesOf(t, file.blocks), n)]
      /\ pass.open = (IF Gridded(file, plan.cuts, n) THEN FullOpen(plan.cuts, Audio(file), n) ELSE -1)
  BY <1>1, PassFacts
<1>3. seg.frames = pass.frames /\ seg.next = pass.next /\ seg.open = -1 /\ seg.end = -1
  BY <1>1, <1>2 DEF Passing
<1>4. /\ req[r] \in ReqRecords /\ (file.grid => "a" \in file.tracks) /\ file.grid /\ pts # <<>> /\ seg \in Segments
  BY <1>1, SoundFacts DEF Sound, ReqInv, ReqOK
<1>5. pts = FullWindow(c, T, n) /\ Gridded(file, c, n) /\ pass.open = FullOpen(c, T, n) /\ pts \in Seq(Nat)
  <2>1. pts = FullWindow(c, T, n)
    BY <1>2, <1>3, <1>4 DEF Audio
  <2>2. Gridded(file, c, n)
    BY <1>4, <2>1 DEF Gridded
  <2>3. Windowed(c, T, n)
    BY <1>2, SoundFacts, WindowIs
  <2> QED BY <1>2, <2>1, <2>2, <2>3 DEF Windowed
<1>6. n \in Nat /\ n \in 1..Len(PlannedCuts(file)) /\ starts[n] \in Nat \union {-1}
  BY <1>2, SoundFacts DEF Learned
<1> DEFINE bw == IF n = 1 THEN <<>> ELSE FullWindow(c, T, n - 1)
<1>7. FullOpen(c, T, n) = gridOpen(pts, IF bw = <<>> THEN -1 ELSE gridColdEnd(bw))
  BY <1>5 DEF FullOpen
<1>8. before => Right(n - 1, w) /\ n - 1 \in 1..Len(c)
  <2> SUFFICES ASSUME n > 1 PROVE Right(n - 1, w) /\ n - 1 \in 1..Len(c)
    OBVIOUS
  <2>1. n - 1 \in 1..Len(c) /\ (n <= plan.gridWin => n - 1 <= plan.gridWin)
    BY <1>2, <1>6, SoundFacts
  <2>2. KnownIn(plan, n - 1)
    BY <1>2, <2>1 DEF KnownIn
  <2>3. Ready(n - 1)
    BY <2>2, ReadyKnown
  <2> QED BY <2>1, <2>3, WalkOf
<1> HIDE DEF w, T, pass, c
<1>9. gridOpen(pts, prevEnd) = FullOpen(c, T, n)
  <2>1. CASE before
    <3>1. w.frames = [t \in file.tracks |-> FullWindow(c, TimesOf(t, file.blocks), n - 1)]
      BY <1>8, <2>1 DEF Right, c
    <3>2. w.frames["a"] = FullWindow(c, T, n - 1)
      BY <1>4, <3>1 DEF T, Audio
    <3>3. bw = FullWindow(c, T, n - 1)
      BY <1>6, <2>1
    <3>4. prevEnd = IF bw = <<>> THEN -1 ELSE gridColdEnd(bw)
      BY <2>1, <3>2, <3>3
    <3> QED BY <1>7, <3>4
  <2>2. CASE ~before
    <3>1. prevEnd = -1
      BY <2>2
    <3>2. CASE n = 1
      <4>1. bw = <<>>
        BY <3>2
      <4> QED BY <1>7, <3>1, <4>1
    <3>3. CASE n # 1
      <4>1. ~gridJitter(pts)
        <5>1. n > 1
          BY <1>2, <1>6, <3>3
        <5> QED BY <2>2, <5>1
      <4>2. \A e : gridOpen(pts, e) = gridIndex(pts[1])
        BY <4>1 DEF gridOpen
      <4> QED BY <1>7, <4>2
    <3> QED BY <3>2, <3>3
  <2> QED BY <2>1, <2>2
<1> HIDE DEF prevEnd, bw, before
<1>10. starts'[n] = pass.open /\ StartsKnown(file, plan, starts') /\ EndsKnown(ended')
  <2>1. CASE starts[n] >= 0
    <3>1. starts' = starts /\ ended' = ended /\ StartsKnown(file, plan, starts) /\ EndsKnown(ended)
      BY <1>1, <2>1, SoundFacts DEF learned
    <3>2. StartKnown(file, plan, starts, n)
      BY <1>6, <2>1, <3>1 DEF StartsKnown
    <3>3. starts[n] = FullOpen(c, T, n)
      <4>1. CASE KnownIn(plan, n) /\ Gridded(file, plan.cuts, n) /\ starts[n] = FullOpen(plan.cuts, Audio(file), n)
        BY <4>1 DEF c, T
      <4>2. CASE n > 1 /\ starts[n] = FullEnd(plan.cuts, Audio(file), n - 1)
        <5> DEFINE m == n - 1
        <5>1. m \in Nat /\ m + 1 = n
          BY <1>6, <4>2
        <5>2. FullWindow(c, T, n) # <<>> /\ n \in 1..Len(c) /\ Len(c) \in Nat
          BY <1>2, <1>4, <1>5, SoundFacts DEF c
        <5> HIDE DEF m
        <5>3. FullEnd(c, T, m) = FullOpen(c, T, m + 1)
          BY <5>1, <5>2, EndNext
        <5> QED BY <4>2, <5>1, <5>3 DEF m, c, T
      <4> QED BY <3>2, <4>1, <4>2 DEF StartKnown
    <3> QED BY <1>5, <3>1, <3>3
  <2>2. CASE ~(starts[n] >= 0)
    <3>1. /\ starts' = learnGridStart(starts, n, gridOpen(pts, prevEnd))
          /\ ended' = IF before THEN w.ended ELSE ended
      BY <1>1, <2>2 DEF prevEnd, before, w
    <3>2. starts[n] < 0
      BY <1>6, <2>2
    <3>3. starts'[n] = FullOpen(c, T, n)
      BY <1>2, <1>9, <3>1, <3>2, LearnedAs DEF c
    <3>4. StartKnown(file, plan, starts', n)
      BY <1>2, <1>5, <3>3 DEF StartKnown, c, T
    <3>5. StartsKnown(file, plan, starts')
      BY <1>2, <3>1, <3>2, <3>4, LearnedKnown DEF c
    <3>6. EndsKnown(ended')
      BY <1>8, <3>1, SoundFacts DEF Right
    <3> QED BY <1>5, <3>3, <3>5, <3>6
  <2> QED BY <2>1, <2>2
<1>11. to.frames = pass.frames /\ to.next = pass.next /\ to.open = pass.open /\ to.end = -1
  BY <1>3, <1>4, <1>10 DEF Segments
<1>12. q.n = n /\ q.seg = to /\ q.pc = "end"
  BY <1>4 DEF ReqRecords
<1> HIDE DEF to
<1>13. Passing(q, pass)
  BY <1>11, <1>12 DEF Passing
<1>14. \A s \in Requests : ReqFinal(file, plan, req'[s])
  <2>1. Passing(q, FullPass(file, plan.cuts, q.n))
    BY <1>12, <1>13 DEF pass
  <2>2. req[r].pc # "idle" /\ Step(r, to, "end")
    BY <1>1 DEF to
  <2> HIDE DEF q
  <2>3. q = [req[r] EXCEPT !.seg = to, !.pc = "end"]
    BY DEF q
  <2> QED BY <2>1, <2>2, <2>3, SteppedTo
<1> QED BY <1>10, <1>14 DEF Answers

LEMMA StartEither ==
    ASSUME NEW f, NEW p, NEW s, NEW m, StartKnown(f, p, s, m)
    PROVE  \/ Gridded(f, p.cuts, m) /\ s[m] = FullOpen(p.cuts, Audio(f), m)
           \/ s[m] = FullEnd(p.cuts, Audio(f), m - 1)
BY Zenon DEF StartKnown

LEMMA StartFollows ==
    ASSUME NEW f, NEW p, NEW s, NEW m, m > 1, KnownIn(p, m - 1), Gridded(f, p.cuts, m - 1), s[m] = FullEnd(p.cuts, Audio(f), m - 1)
    PROVE  StartKnown(f, p, s, m)
BY Zenon DEF StartKnown

LEMMA EndAnswers ==
    ASSUME Sound, NEW r \in Requests, GridEnds(r) PROVE Answers(starts', ended', req')
<1> DEFINE n == req[r].n
           c == plan.cuts
           T == Audio(file)
           seg == req[r].seg
           next == seg.next["a"]
           cold == gridColdEnd(seg.frames["a"])
           skips == n + 2 <= Len(plan.cuts) /\ next >= plan.cuts[n+2].ms
           after == cold > gridIndex(next)
           w == walkWindow(n + 1)
           end == IF after /\ w.frames["a"] # <<>> THEN gridOpen(w.frames["a"], cold) ELSE gridIndex(next)
           To(e) == [seg EXCEPT !.end = e]
           pass == FullPass(file, plan.cuts, n)
           W == FullWindow(c, T, n)
           over == FullEnd(c, T, n)
<1>1. /\ req[r].pc = "end"
      /\ \/ next < 0 /\ Step(r, seg, "answered") /\ UNCHANGED learned
         \/ next >= 0 /\ starts[n+1] >= 0 /\ Step(r, To(starts[n+1]), "answered") /\ UNCHANGED learned
         \/ next >= 0 /\ starts[n+1] < 0 /\ skips /\ Step(r, To(gridIndex(next)), "answered") /\ UNCHANGED learned
         \/ /\ next >= 0 /\ starts[n+1] < 0 /\ ~skips /\ Step(r, To(end), "answered")
            /\ starts' = learnGridStart(starts, n + 1, end)
            /\ ended' = IF after THEN w.ended ELSE ended
  BY DEF GridEnds
<1>2. /\ KnownIn(plan, n) /\ n \in 1..Len(c) /\ Passing(req[r], pass)
      /\ pass.frames = [t \in file.tracks |-> FullWindow(plan.cuts, TimesOf(t, file.blocks), n)]
      /\ pass.next = [t \in file.tracks |-> FullNext(plan.cuts, TimesOf(t, file.blocks), n)]
      /\ pass.end = (IF Gridded(file, plan.cuts, n) THEN FullEnd(plan.cuts, Audio(file), n) ELSE -1)
      /\ pass = [frames |-> pass.frames, next |-> pass.next, open |-> pass.open, end |-> pass.end]
  BY <1>1, PassFacts
<1>3. seg.frames = pass.frames /\ seg.next = pass.next /\ seg.open = pass.open /\ seg.end = -1
  BY <1>1, <1>2 DEF Passing
<1>4. /\ req[r] \in ReqRecords /\ (file.grid => "a" \in file.tracks) /\ file.grid /\ seg.frames["a"] # <<>> /\ seg \in Segments
  BY <1>1, SoundFacts DEF Sound, ReqInv, ReqOK
<1>5. seg.frames["a"] = W /\ next = FullNext(c, T, n) /\ Gridded(file, c, n) /\ pass.end = over /\ W # <<>> /\ file.grid
  <2>1. seg.frames["a"] = W /\ next = FullNext(c, T, n)
    BY <1>2, <1>3, <1>4 DEF Audio
  <2>2. Gridded(file, c, n)
    BY <1>4, <2>1 DEF Gridded
  <2> QED BY <1>2, <1>4, <2>1, <2>2
<1>6. EndsAt(c, T, n)
  BY <1>2, <1>5, SoundFacts, EndIs
<1>7. n \in Nat /\ Len(c) \in Nat /\ next \in Nat \union {-1}
  <2>1. next \in Nat \union {-1}
    BY <1>4 DEF Segments
  <2> QED BY <1>2, <2>1, SoundFacts
<1>8. /\ next = -1 => over = -1
      /\ next # -1 => /\ next \in Nat /\ n < Len(c) /\ (skips => over = gridIndex(next))
                      /\ (~skips => FullWindow(c, T, n + 1) # <<>> /\ over = gridOpen(FullWindow(c, T, n + 1), cold))
                      /\ (cold <= gridIndex(next) => over = gridIndex(next))
  BY <1>5, <1>6 DEF EndsAt
<1>9. next # -1 => n + 1 \in 1..Len(c) /\ n + 1 \in 1..Len(PlannedCuts(file)) /\ starts[n+1] \in Nat \union {-1}
  <2> SUFFICES ASSUME next # -1 PROVE n + 1 \in 1..Len(c) /\ n + 1 \in 1..Len(PlannedCuts(file)) /\ starts[n+1] \in Nat \union {-1}
    OBVIOUS
  <2>1. n + 1 \in 1..Len(c)
    BY <1>7, <1>8
  <2>2. n + 1 \in 1..Len(PlannedCuts(file))
    BY <2>1, SoundFacts
  <2> QED BY <2>1, <2>2, SoundFacts DEF Learned
<1>w. next # -1 /\ after => Right(n + 1, w)
  <2> SUFFICES ASSUME next # -1, after PROVE Right(n + 1, w)
    OBVIOUS
  <2>1. Spilling(c, T, n)
    BY <1>5 DEF Spilling
  <2>2. n + 1 \in 1..Len(c) /\ Ready(n + 1)
    BY <1>2, <1>5, <2>1, ReadyNext
  <2> QED BY <2>2, WalkOf
<1>t. ASSUME NEW e, e = pass.end, Step(r, To(e), "answered")
      PROVE  \A s \in Requests : ReqFinal(file, plan, req'[s])
  <2> DEFINE to == To(e)
             q == [req[r] EXCEPT !.seg = to, !.pc = "answered"]
  <2>1. to = pass
    <3>1. to = [frames |-> seg.frames, next |-> seg.next, open |-> seg.open, end |-> e]
      <4>1. seg = [frames |-> seg.frames, next |-> seg.next, open |-> seg.open, end |-> seg.end]
        BY <1>4 DEF Segments
      <4> HIDE DEF seg
      <4>2. [seg EXCEPT !.end = e] = [frames |-> seg.frames, next |-> seg.next, open |-> seg.open, end |-> e]
        BY <4>1
      <4> QED BY <4>2
    <3> HIDE DEF to, pass, seg
    <3> QED BY <1>2, <1>3, <1>t, <3>1
  <2>2. q.n = n /\ q.seg = to /\ q.pc = "answered"
    BY <1>4 DEF ReqRecords
  <2>3. Step(r, to, "answered") /\ req[r].pc # "idle"
    BY <1>1, <1>t
  <2> HIDE DEF to
  <2>4. Passing(q, FullPass(file, plan.cuts, q.n))
    BY <2>1, <2>2 DEF Passing
  <2> HIDE DEF q
  <2>5. q = [req[r] EXCEPT !.seg = to, !.pc = "answered"]
    BY DEF q
  <2> QED BY <2>3, <2>4, <2>5, SteppedTo
<1>k. StartsKnown(file, plan, starts) /\ EndsKnown(ended)
  BY SoundFacts
<1>10. CASE next < 0 /\ Step(r, seg, "answered") /\ UNCHANGED learned
  <2>1. pass.end = -1
    BY <1>5, <1>7, <1>8, <1>10
  <2>2. To(-1) = seg
    BY <1>3, <1>4 DEF Segments
  <2>3. \A s \in Requests : ReqFinal(file, plan, req'[s])
    <3>1. Step(r, To(-1), "answered")
      BY <1>10, <2>2
    <3> HIDE DEF To, pass
    <3> QED BY <1>t, <2>1, <3>1
  <2> QED BY <1>k, <1>10, <2>3 DEF Answers, learned
<1>11. CASE next >= 0 /\ starts[n+1] >= 0 /\ Step(r, To(starts[n+1]), "answered") /\ UNCHANGED learned
  <2>0. next # -1
    BY <1>7, <1>11
  <2>1. StartKnown(file, plan, starts, n + 1)
    BY <1>k, <1>9, <1>11, <2>0 DEF StartsKnown
  <2>2. starts[n+1] = over
    <3> DEFINE m == n + 1
    <3>1. m - 1 = n
      BY <1>7
    <3>2. StartKnown(file, plan, starts, m)
      BY <2>1
    <3>3. FullWindow(c, T, m) # <<>> => over = FullOpen(c, T, m)
      BY <1>7, <1>9, <2>0, EndNext
    <3>4. starts[m] = over
      <4> DEFINE A == Audio(file)
                 d == plan.cuts
                 x == FullEnd(d, A, n)
      <4>1. FullWindow(d, A, m) # <<>> => x = FullOpen(d, A, m)
        BY <3>3
      <4>2. over = x
        OBVIOUS
      <4>a. Gridded(file, d, m) => FullWindow(d, A, m) # <<>>
        BY DEF Gridded
      <4> HIDE DEF m, n, over
      <4>3. (Gridded(file, d, m) /\ starts[m] = FullOpen(d, A, m)) \/ starts[m] = FullEnd(d, A, m - 1)
        BY <3>2, StartEither
      <4>4. FullEnd(d, A, m - 1) = x
        BY <3>1
      <4> HIDE DEF A, d, x
      <4> QED BY <4>1, <4>2, <4>a, <4>3, <4>4
    <3> QED BY <3>4
  <2>3. \A s \in Requests : ReqFinal(file, plan, req'[s])
    <3>1. starts[n+1] = pass.end
      BY <1>5, <2>2
    <3> HIDE DEF To, pass
    <3> QED BY <1>t, <1>11, <3>1
  <2> QED BY <1>k, <1>11, <2>3 DEF Answers, learned
<1>12. CASE next >= 0 /\ starts[n+1] < 0 /\ skips /\ Step(r, To(gridIndex(next)), "answered") /\ UNCHANGED learned
  <2>0. next # -1
    BY <1>7, <1>12
  <2>1. gridIndex(next) = pass.end
    BY <1>5, <1>8, <1>12, <2>0
  <2>3. \A s \in Requests : ReqFinal(file, plan, req'[s])
    <3> HIDE DEF To, pass
    <3> QED BY <1>t, <1>12, <2>1
  <2> QED BY <1>k, <1>12, <2>3 DEF Answers, learned
<1>13. CASE /\ next >= 0 /\ starts[n+1] < 0 /\ ~skips /\ Step(r, To(end), "answered")
            /\ starts' = learnGridStart(starts, n + 1, end)
            /\ ended' = IF after THEN w.ended ELSE ended
  <2>0. next # -1
    BY <1>7, <1>13
  <2>1. end = over
    <3>1. CASE after
      <4>1. w.frames = [t \in file.tracks |-> FullWindow(c, TimesOf(t, file.blocks), n + 1)]
        BY <1>w, <2>0, <3>1 DEF Right
      <4> HIDE DEF w
      <4>2. w.frames["a"] = FullWindow(c, T, n + 1)
        BY <1>4, <4>1 DEF Audio
      <4>3. FullWindow(c, T, n + 1) # <<>> /\ over = gridOpen(FullWindow(c, T, n + 1), cold)
        BY <1>8, <1>13, <2>0
      <4> QED BY <3>1, <4>2, <4>3
    <3>2. CASE ~after
      <4>1. cold \in Nat /\ gridIndex(next) \in Nat
        <5>1. gridColdEnd(seg.frames["a"]) \in Nat
          <6>1. Windowed(c, T, n)
            BY <1>2, SoundFacts, WindowIs
          <6>2. W \in Seq(Nat)
            BY <6>1 DEF Windowed
          <6>3. seg.frames["a"] \in Seq(Nat) /\ seg.frames["a"] # <<>>
            BY <1>4, <1>5, <6>2
          <6> QED BY <6>3, GridOpenType
        <5>2. next \in Nat
          BY <1>8, <2>0
        <5> QED BY <5>1, <5>2, GridIndexNat
      <4>2. cold <= gridIndex(next)
        <5> DEFINE x == cold
                   y == gridIndex(next)
        <5>1. x \in Nat /\ y \in Nat /\ ~(x > y)
          BY <3>2, <4>1
        <5> HIDE DEF x, y
        <5>2. x <= y
          BY <5>1
        <5> QED BY <5>2 DEF x, y
      <4>3. over = gridIndex(next)
        BY <1>8, <2>0, <4>2
      <4> QED BY <3>2, <4>3
    <3> QED BY <3>1, <3>2
  <2> HIDE DEF end
  <2>2. starts'[n+1] = end
    BY <1>9, <1>13, <2>0, LearnedAs
  <2>3. StartKnown(file, plan, starts', n + 1)
    <3> DEFINE m == n + 1
    <3>1. m > 1 /\ m - 1 = n
      BY <1>2, <1>7
    <3>2. KnownIn(plan, n) /\ Gridded(file, plan.cuts, n) /\ starts'[m] = FullEnd(plan.cuts, Audio(file), n)
      BY <1>2, <1>5, <2>1, <2>2
    <3> HIDE DEF n, m
    <3>3. m > 1 /\ KnownIn(plan, m - 1) /\ Gridded(file, plan.cuts, m - 1) /\ starts'[m] = FullEnd(plan.cuts, Audio(file), m - 1)
      BY <3>1, <3>2
    <3>4. StartKnown(file, plan, starts', m)
      BY <3>3, StartFollows
    <3> QED BY <3>4 DEF m
  <2>4. StartsKnown(file, plan, starts')
    BY <1>9, <1>13, <2>0, <2>3, LearnedKnown
  <2>5. EndsKnown(ended')
    BY <1>k, <1>w, <1>13, <2>0 DEF Right
  <2>6. \A s \in Requests : ReqFinal(file, plan, req'[s])
    <3>1. end = pass.end
      BY <1>5, <2>1
    <3> HIDE DEF To, pass
    <3> QED BY <1>t, <1>13, <3>1
  <2> QED BY <2>4, <2>5, <2>6 DEF Answers
<1> QED BY <1>1, <1>10, <1>11, <1>12, <1>13

\* A step of a request, once its answers are shown.
LEMMA AnswersQuiet ==
    ASSUME Quiet, opened, Sound => Answers(starts', ended', req'),
           WalkInv, CutsInv, ListInv, ReqInv, SettledInv, EndingInv, AnswersInv
    PROVE  AnswersInv'
<1>1. file' = file /\ opened' = opened /\ plan' = plan
  BY DEF Quiet
<1>2. (~opened => \A m \in 1..Len(PlannedCuts(file)) : starts[m] = -1)'
  BY <1>1
<1>3. ASSUME Even' PROVE EndsKnown(ended)' /\ StartsKnown(file, plan, starts)' /\ \A r \in Requests : ReqFinal(file, plan, req[r])'
  <2>1. Even
    BY <1>1, <1>3 DEF Even
  <2>2. Answers(starts', ended', req')
    BY <2>1 DEF Sound
  <2>3. EndsKnown(ended)'
    BY <1>1, <2>2 DEF Answers, EndsKnown
  <2>4. StartsKnown(file, plan, starts)'
    BY <1>1, <2>2 DEF Answers
  <2>5. \A r \in Requests : ReqFinal(file, plan, req[r])'
    BY <1>1, <2>2 DEF Answers
  <2> QED BY <2>3, <2>4, <2>5
<1> QED BY <1>2, <1>3 DEF AnswersInv

\* Whatever requests do, and whatever the scans do meanwhile, each segment is the full pass's.
LEMMA AnswersStep ==
    WalkInv /\ CutsInv /\ ListInv /\ ReqInv /\ SettledInv /\ EndingInv /\ AnswersInv /\ [Next]_vars => AnswersInv'
<1> SUFFICES ASSUME WalkInv, CutsInv, ListInv, ReqInv, SettledInv, EndingInv, AnswersInv, [Next]_vars PROVE AnswersInv'
  OBVIOUS
<1>1. CASE UNCHANGED <<starts, ended, req>>
  BY <1>1, AnswersKept
<1>2. CASE (\E r \in Requests : Ask(r) \/ Serve(r)) \/ UNCHANGED vars
  <2>1. Quiet
    BY <1>2, RequestMoves
  <2>2. CASE UNCHANGED vars
    BY <1>1, <2>2 DEF vars, learned
  <2>3. ASSUME NEW r \in Requests, Ask(r) PROVE AnswersInv'
    <3>1. opened
      BY <2>3 DEF Ask
    <3>2. Sound => Answers(starts', ended', req')
      BY <2>3, AskAnswers
    <3> QED BY <2>1, <3>1, <3>2, AnswersQuiet
  <2>4. ASSUME NEW r \in Requests, Serve(r) PROVE AnswersInv'
    <3>1. GiveUp(r) \/ WalkWindow(r) \/ GridOpens(r) \/ GridEnds(r)
      BY <2>4 DEF Serve
    <3>2. req[r].pc # "idle"
      BY <3>1 DEF GiveUp, WalkWindow, GridOpens, GridEnds
    <3>3. opened
      BY <3>2 DEF ReqInv, ReqOK
    <3>4. Sound => Answers(starts', ended', req')
      BY <3>1, GiveUpAnswers, WalkAnswers, OpenAnswers, EndAnswers
    <3> QED BY <2>1, <3>3, <3>4, AnswersQuiet
  <2> QED BY <1>2, <2>2, <2>3, <2>4
<1>3. CASE Write
  BY <1>1, <1>3, WriteMoves DEF Quiet, Write, learned
<1>4. CASE Refresh \/ Complete
  BY <1>1, <1>4, BeginMoves DEF BeginMoved, Apart
<1>5. CASE Scanning
  <2>1. Apart
    BY <1>5, BlockMoves, ClusterMoves, FinalMoves, RestMoves, FailMoves
       DEF Scanning, BlockMoved, ClusterMoved, FinalMoved, RestMoved, FailMoved
  <2> QED BY <1>1, <2>1 DEF Apart
<1> QED BY <1>2, <1>3, <1>4, <1>5 DEF Next

\* Everything the answers rest on, kept together.
FinalsInv == BoundsInv /\ EndingInv /\ AtInv /\ GridInv /\ SettledInv /\ AnswersInv

LEMMA FinalsInvariant == Spec => []FinalsInv
<1>1. Init => FinalsInv
  <2>1. Init => BoundsInv
    BY WalkInit, CutsInit, ListInit, ReqInit, CountInit DEF BoundsInv
  <2> QED BY <2>1, EndingInit, AtInit, GridInit, SettledInit, AnswersInit DEF FinalsInv
<1>2. FinalsInv /\ [Next]_vars => FinalsInv'
  <2> SUFFICES ASSUME FinalsInv, [Next]_vars PROVE FinalsInv'
    OBVIOUS
  <2>1. WalkInv /\ CutsInv /\ ListInv /\ ReqInv /\ CountInv /\ EndingInv /\ AtInv /\ GridInv /\ SettledInv /\ AnswersInv
    BY DEF FinalsInv, BoundsInv
  <2>2. BoundsInv'
    BY <2>1, WalkStep, CutsStep, ListStep, ReqStep, CountStep DEF BoundsInv
  <2>3. EndingInv' /\ AtInv' /\ GridInv' /\ SettledInv' /\ AnswersInv'
    BY <2>1, EndingStep, AtStep, GridStep, SettledStep, AnswersStep
  <2> QED BY <2>2, <2>3 DEF FinalsInv
<1> QED BY <1>1, <1>2, PTL DEF Spec

\* An answer that is the full pass's over the cuts found so far is the full pass's over the cuts it is held to.
LEMMA FinalsPublished == FinalsInv => PublishedIsFinal
<1> SUFFICES ASSUME FinalsInv, Finished[file].even, NEW r \in Requests, req[r].pc = "answered" PROVE IsFinal(r)
  BY DEF PublishedIsFinal, IsFinal
<1> DEFINE n == req[r].n
           c == plan.cuts
           P == PlannedCuts(file)
           k == IF req[r].closed THEN Len(c) ELSE Len(P)
<1>1. WalkInv /\ CutsInv /\ ListInv /\ ReqInv /\ EndingInv /\ SettledInv /\ AnswersInv
  BY DEF FinalsInv, BoundsInv
<1>2. /\ Finished[file].cuts = P /\ Finished[file].even = Even
      /\ Finished[file].full = [j \in 1..Len(P) |-> [m \in 1..j |-> FullPass(file, SubSeq(P, 1, j), m)]]
  <2>1. file \in Files
    BY <1>1 DEF WalkInv
  <2> QED BY <2>1 DEF Finished, Even
<1>3. Sound
  BY <1>1, <1>2 DEF Sound
<1>4. /\ file \in Files /\ written \in 0..Len(file.blocks) /\ c \in Seq(Cut) /\ Len(c) \in Nat /\ Begun(file, c) /\ Sorted(c)
      /\ Len(P) \in Nat /\ Len(c) <= Len(P) /\ plan.gridWin \in Nat
  BY <1>3, SoundFacts
<1>5. /\ KnownIn(plan, n) /\ n \in 1..Len(c) /\ (IF req[r].closed THEN plan.done ELSE n <= plan.gridWin)
      /\ Passing(req[r], FullPass(file, c, n))
  BY <1>3, SoundFacts DEF ReqFinal, KnownIn
<1>6. req[r].seg = FullPass(file, c, n)
  BY <1>5 DEF Passing
<1>7. P \in Seq(Cut) /\ (\A i \in 1..Len(c) : c[i] = P[i])
  BY <1>4 DEF Begun
<1>8. CASE req[r].closed
  <2>1. SubSeq(P, 1, Len(c)) = c
    <3>1. SubSeq(P, 1, Len(c)) \in Seq(Cut) /\ Len(SubSeq(P, 1, Len(c))) = Len(c)
          /\ \A i \in 1..Len(c) : SubSeq(P, 1, Len(c))[i] = c[i]
      BY <1>4, <1>7
    <3> DEFINE s == SubSeq(P, 1, Len(c))
               d == c
    <3>2. s \in Seq(Cut) /\ d \in Seq(Cut) /\ Len(s) = Len(d) /\ Len(d) \in Nat /\ \A i \in 1..Len(d) : s[i] = d[i]
      BY <1>4, <3>1
    <3> HIDE DEF s, d
    <3>3. s = d
      BY <3>2
    <3> QED BY <3>3 DEF s, d
  <2>2. Len(c) \in 1..Len(P)
    BY <1>4, <1>5
  <2>3. Finished[file].full[Len(c)][n] = FullPass(file, SubSeq(P, 1, Len(c)), n)
    BY <1>2, <1>5, <2>2
  <2> QED BY <1>6, <1>8, <2>1, <2>3 DEF IsFinal
<1>9. CASE ~req[r].closed
  <2>1. SettledBy(file, written, c, n)
    <3>1. n \in 1..plan.gridWin /\ Even
      BY <1>3, <1>4, <1>5, <1>9 DEF Sound
    <3> QED BY <1>1, <3>1 DEF SettledInv
  <2>2. IsPrefix(P, P)
    BY <1>7 DEF IsPrefix
  <2>3. Sorted(P)
    BY <1>4, <1>7, <2>2, BegunPlanned, BegunSorted
  <2>4. More(c, P)
    BY <1>4, <1>7, <2>3 DEF More
  <2>5. FullPass(file, c, n) = FullPass(file, P, n)
    BY <1>4, <1>5, <2>1, <2>4, SettledPass DEF Stays
  <2>6. SubSeq(P, 1, Len(P)) = P
    BY <1>7
  <2>7. Len(P) \in 1..Len(P) /\ n \in 1..Len(P)
    BY <1>4, <1>5
  <2>8. Finished[file].full[Len(P)][n] = FullPass(file, SubSeq(P, 1, Len(P)), n)
    BY <1>2, <2>7
  <2> QED BY <1>2, <1>6, <1>9, <2>5, <2>6, <2>8 DEF IsFinal
<1> QED BY <1>8, <1>9

\* A published segment is final: of every file whose tracks keep up with each other, however much of it is written
\* when the segment is asked for, whatever requests came before and whatever they learned, and whatever the scans'
\* failures, the answer holds the frames, the opening and the end the full pass over the finished file gives it.
THEOREM SegmentsAreFinal == Spec => []PublishedIsFinal
<1>1. Spec => []FinalsInv
  BY FinalsInvariant
<1>2. FinalsInv => PublishedIsFinal
  BY FinalsPublished
<1> QED BY <1>1, <1>2, PTL

=============================================================================
