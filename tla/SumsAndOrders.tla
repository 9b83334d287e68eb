--------------------------- MODULE SumsAndOrders ---------------------------
(***************************************************************************)
(* What the sums of the community modules return: SumFunctionOnSet(f, S),  *)
(* for a function f and a finite set S, element by element; and what stays *)
(* of a sequence without repetition when an element is appended, removed,  *)
(* or the first go. The models count bytes with the one and keep ages with *)
(* the other. Nothing here is about a program.                             *)
(*                                                                         *)
(* A fold takes the elements of S in the order CHOOSE gives them; that the *)
(* order does not matter is proved from the well-foundedness of the strict *)
(* subsets of a finite set: a smallest set the lemma fails on does not     *)
(* exist.                                                                  *)
(***************************************************************************)
EXTENDS Integers, SequencesExt, FiniteSetTheorems, SequenceTheorems, WellFoundedInduction, TLAPS

First(s) == CHOOSE x \in s : TRUE

\* The fold's own recursion, over the subsets of S.
Iterates(f, S, g) ==
    g = [s \in SUBSET S |-> IF s = {} THEN 0 ELSE f[First(s)] + g[s \ {First(s)}]]

LEMMA FirstIn == ASSUME NEW s, s # {} PROVE First(s) \in s
  BY DEF First

\* Among sets of subsets of a finite set there is one with no smaller member.
LEMMA Smallest ==
    ASSUME NEW S, IsFiniteSet(S), NEW B, B \subseteq SUBSET S, B # {}
    PROVE  \E s \in B : IsFiniteSet(s) /\ \A t \in SUBSET s : t # s => t \notin B
<1>1. IsWellFoundedOn(StrictSubsetOrdering(S), FiniteSubsetsOf(S))
  BY FS_StrictSubsetOrderingWellFounded
<1>2. B \subseteq FiniteSubsetsOf(S)
  BY FS_Subset DEF FiniteSubsetsOf
<1>3. PICK s \in B : \A y \in B : ~ (<<y, s>> \in StrictSubsetOrdering(S))
  BY <1>1, <1>2, WFMin
<1>4. ASSUME NEW t \in SUBSET s, t # s PROVE t \notin B
  BY <1>3, <1>4 DEF StrictSubsetOrdering
<1> QED BY <1>2, <1>3, <1>4 DEF FiniteSubsetsOf

\* Two runs of the recursion agree where both are defined.
LEMMA IterUnique ==
    ASSUME NEW f, NEW S, IsFiniteSet(S), NEW T \in SUBSET S,
           NEW g, NEW h, Iterates(f, S, g), Iterates(f, T, h)
    PROVE  g[T] = h[T]
<1> DEFINE B == {s \in SUBSET T : g[s] # h[s]}
<1>1. SUFFICES ASSUME B # {} PROVE FALSE
  OBVIOUS
<1>2. IsFiniteSet(T)
  BY FS_Subset
<1>3. PICK s \in B : \A t \in SUBSET s : t # s => t \notin B
  <2>1. B \subseteq SUBSET T
    OBVIOUS
  <2> HIDE DEF B
  <2> QED BY <1>1, <1>2, <2>1, Smallest
<1> HIDE DEF B
<1>4. s \in SUBSET T /\ s \in SUBSET S /\ g[s] # h[s]
  BY <1>3 DEF B
<1>5. /\ g[s] = IF s = {} THEN 0 ELSE f[First(s)] + g[s \ {First(s)}]
      /\ h[s] = IF s = {} THEN 0 ELSE f[First(s)] + h[s \ {First(s)}]
  BY <1>4 DEF Iterates
<1>6. s # {}
  BY <1>4, <1>5
<1>7. s \ {First(s)} \notin B
  BY <1>3, <1>6, FirstIn
<1>8. g[s \ {First(s)}] = h[s \ {First(s)}]
  BY <1>4, <1>7 DEF B
<1> QED BY <1>4, <1>5, <1>8

\* The recursion has a solution.
LEMMA IterExists ==
    ASSUME NEW f, NEW S, IsFiniteSet(S)
    PROVE  \E g : Iterates(f, S, g)
<1> DEFINE B == {s \in SUBSET S : ~ \E g : Iterates(f, s, g)}
           G(t) == CHOOSE g : Iterates(f, t, g)
<1>1. SUFFICES ASSUME B # {} PROVE FALSE
  OBVIOUS
<1>2. PICK s \in B : IsFiniteSet(s) /\ \A t \in SUBSET s : t # s => t \notin B
  <2>1. B \subseteq SUBSET S
    OBVIOUS
  <2> HIDE DEF B
  <2> QED BY <1>1, <2>1, Smallest
<1> DEFINE h == [t \in SUBSET s |-> IF t = s /\ s # {} THEN f[First(s)] + G(s \ {First(s)})[s \ {First(s)}]
                                    ELSE IF t = {} THEN 0 ELSE G(t)[t]]
<1>3. ASSUME NEW t \in SUBSET s, t # s PROVE Iterates(f, t, G(t)) /\ IsFiniteSet(t)
  <2>1. \E g : Iterates(f, t, g)
    BY <1>2, <1>3
  <2> QED BY <1>2, <2>1, FS_Subset
<1> HIDE DEF G
<1>4. ASSUME NEW t \in SUBSET s, t # {}
      PROVE  h[t] = f[First(t)] + h[t \ {First(t)}]
  <2> DEFINE u == t \ {First(t)}
  <2>1. First(t) \in t /\ u \in SUBSET s /\ u # s
    BY <1>4, FirstIn
  <2>2. Iterates(f, u, G(u)) /\ IsFiniteSet(u)
    BY <1>3, <2>1
  <2>3. h[u] = G(u)[u]
    <3>1. CASE u = {}
      <4>1. G(u)[u] = IF u = {} THEN 0 ELSE f[First(u)] + G(u)[u \ {First(u)}]
        <5> HIDE DEF u
        <5> QED BY <2>2 DEF Iterates
      <4> QED BY <2>1, <3>1, <4>1
    <3>2. CASE u # {}
      BY <2>1, <3>2
    <3> QED BY <3>1, <3>2
  <2>4. CASE t = s
    BY <1>4, <2>3, <2>4
  <2>5. CASE t # s
    <3>1. Iterates(f, t, G(t)) /\ IsFiniteSet(t)
      BY <1>3, <2>5
    <3>2. G(t)[t] = f[First(t)] + G(t)[u]
      BY <1>4, <3>1 DEF Iterates
    <3>3. G(t)[u] = G(u)[u]
      <4>1. u \in SUBSET t
        BY DEF u
      <4> HIDE DEF u
      <4> QED BY <2>2, <3>1, <4>1, IterUnique
    <3> QED BY <1>4, <2>3, <2>5, <3>2, <3>3
  <2> QED BY <2>4, <2>5
<1>5. h[{}] = 0
  OBVIOUS
<1>6. Iterates(f, s, h)
  <2>1. h = [t \in SUBSET s |-> h[t]]
    OBVIOUS
  <2>2. \A t \in SUBSET s : h[t] = IF t = {} THEN 0 ELSE f[First(t)] + h[t \ {First(t)}]
    BY <1>4, <1>5
  <2> HIDE DEF h
  <2> QED BY <2>1, <2>2 DEF Iterates
<1> QED BY <1>2, <1>6

LEMMA SumIter ==
    ASSUME NEW f, NEW S
    PROVE  SumFunctionOnSet(f, S) = (CHOOSE g : Iterates(f, S, g))[S]
  BY Zenon DEF SumFunctionOnSet, FoldFunctionOnSet, MapThenFoldSet, Iterates, First

LEMMA SumIs ==
    ASSUME NEW f, NEW S, IsFiniteSet(S), NEW g, Iterates(f, S, g), NEW T \in SUBSET S
    PROVE  SumFunctionOnSet(f, T) = g[T]
<1>1. IsFiniteSet(T)
  BY FS_Subset
<1>2. Iterates(f, T, CHOOSE h : Iterates(f, T, h))
  BY <1>1, IterExists
<1> QED BY <1>2, SumIter, IterUnique

-----------------------------------------------------------------------------
(* What a sum is.                                                          *)

\* The sum over no element is zero.
THEOREM SumEmpty == ASSUME NEW f PROVE SumFunctionOnSet(f, {}) = 0
<1>1. PICK g : Iterates(f, {}, g)
  BY IterExists, FS_EmptySet
<1>2. g[{}] = 0
  BY <1>1 DEF Iterates
<1> QED BY <1>1, <1>2, SumIs, FS_EmptySet

LEMMA SumFirst ==
    ASSUME NEW f, NEW S, IsFiniteSet(S), S # {}
    PROVE  SumFunctionOnSet(f, S) = f[First(S)] + SumFunctionOnSet(f, S \ {First(S)})
<1>1. PICK g : Iterates(f, S, g)
  BY IterExists
<1>2. g[S] = f[First(S)] + g[S \ {First(S)}]
  BY <1>1 DEF Iterates
<1> QED BY <1>1, <1>2, SumIs

\* A sum of integers is an integer.
THEOREM SumInt ==
    ASSUME NEW f, NEW S, IsFiniteSet(S), \A x \in S : f[x] \in Int
    PROVE  SumFunctionOnSet(f, S) \in Int
<1> DEFINE B == {s \in SUBSET S : SumFunctionOnSet(f, s) \notin Int}
<1>1. SUFFICES ASSUME B # {} PROVE FALSE
  OBVIOUS
<1>2. PICK s \in B : IsFiniteSet(s) /\ \A t \in SUBSET s : t # s => t \notin B
  <2>1. B \subseteq SUBSET S
    OBVIOUS
  <2> HIDE DEF B
  <2> QED BY <1>1, <2>1, Smallest
<1>3. s # {}
  <2>1. SumFunctionOnSet(f, {}) = 0
    BY SumEmpty
  <2> QED BY <1>2, <2>1
<1>4. First(s) \in s
  BY <1>3, FirstIn
<1>5. SumFunctionOnSet(f, s \ {First(s)}) \in Int
  BY <1>2, <1>4
<1>6. SumFunctionOnSet(f, s) \in Int
  BY <1>2, <1>3, <1>4, <1>5, SumFirst
<1> QED BY <1>2, <1>6

\* The order of the elements does not matter: any one can be taken first.
THEOREM SumRemove ==
    ASSUME NEW f, NEW S, IsFiniteSet(S), \A x \in S : f[x] \in Int, NEW x \in S
    PROVE  SumFunctionOnSet(f, S) = f[x] + SumFunctionOnSet(f, S \ {x})
<1> DEFINE Fails(s) == \E y \in s : SumFunctionOnSet(f, s) # f[y] + SumFunctionOnSet(f, s \ {y})
           B == {s \in SUBSET S : Fails(s)}
<1>1. SUFFICES ASSUME B # {} PROVE FALSE
  OBVIOUS
<1>2. PICK s \in B : IsFiniteSet(s) /\ \A t \in SUBSET s : t # s => t \notin B
  <2>1. B \subseteq SUBSET S
    OBVIOUS
  <2> HIDE DEF B
  <2> QED BY <1>1, <2>1, Smallest
<1>3. PICK y \in s : SumFunctionOnSet(f, s) # f[y] + SumFunctionOnSet(f, s \ {y})
  BY <1>2
<1> DEFINE c == First(s)
           u == (s \ {c}) \ {y}
<1>4. c \in s /\ c \in S /\ y \in S
  BY <1>2, FirstIn
<1>5. SumFunctionOnSet(f, s) = f[c] + SumFunctionOnSet(f, s \ {c})
  BY <1>2, <1>4, SumFirst
<1>6. c # y
  BY <1>3, <1>5
<1>7. SumFunctionOnSet(f, s \ {c}) = f[y] + SumFunctionOnSet(f, u)
  <2>1. s \ {c} \notin B
    BY <1>2, <1>4
  <2>2. ~ Fails(s \ {c})
    BY <1>2, <2>1
  <2> QED BY <1>6, <2>2
<1>8. SumFunctionOnSet(f, s \ {y}) = f[c] + SumFunctionOnSet(f, u)
  <2>1. s \ {y} \notin B
    BY <1>2, <1>3
  <2>2. ~ Fails(s \ {y})
    BY <1>2, <2>1
  <2>3. u = (s \ {y}) \ {c}
    OBVIOUS
  <2> QED BY <1>4, <1>6, <2>2, <2>3
<1>9. SumFunctionOnSet(f, u) \in Int
  <2>1. IsFiniteSet(u) /\ \A z \in u : f[z] \in Int
    BY <1>2, FS_Subset
  <2> QED BY <2>1, SumInt
<1> HIDE DEF u, c
<1> QED BY <1>3, <1>4, <1>5, <1>7, <1>8, <1>9


\* A sum depends on the values it adds only.
THEOREM SumSame ==
    ASSUME NEW f, NEW g, NEW S, IsFiniteSet(S), \A x \in S : f[x] = g[x]
    PROVE  SumFunctionOnSet(f, S) = SumFunctionOnSet(g, S)
<1> DEFINE B == {s \in SUBSET S : SumFunctionOnSet(f, s) # SumFunctionOnSet(g, s)}
<1>1. SUFFICES ASSUME B # {} PROVE FALSE
  OBVIOUS
<1>2. PICK s \in B : IsFiniteSet(s) /\ \A t \in SUBSET s : t # s => t \notin B
  <2>1. B \subseteq SUBSET S
    OBVIOUS
  <2> HIDE DEF B
  <2> QED BY <1>1, <2>1, Smallest
<1>3. s # {}
  <2>1. SumFunctionOnSet(f, {}) = 0 /\ SumFunctionOnSet(g, {}) = 0
    BY SumEmpty
  <2> QED BY <1>2, <2>1
<1>4. First(s) \in s
  BY <1>3, FirstIn
<1>5. SumFunctionOnSet(f, s \ {First(s)}) = SumFunctionOnSet(g, s \ {First(s)})
  BY <1>2, <1>4
<1>6. /\ SumFunctionOnSet(f, s) = f[First(s)] + SumFunctionOnSet(f, s \ {First(s)})
      /\ SumFunctionOnSet(g, s) = g[First(s)] + SumFunctionOnSet(g, s \ {First(s)})
  BY <1>2, <1>3, SumFirst
<1>7. f[First(s)] = g[First(s)]
  BY <1>2, <1>4
<1> QED BY <1>2, <1>5, <1>6, <1>7

\* One value changes: the sum changes by as much.
THEOREM SumChange ==
    ASSUME NEW f, NEW g, NEW S, IsFiniteSet(S), NEW x \in S,
           \A y \in S : f[y] \in Int /\ g[y] \in Int,
           \A y \in S \ {x} : f[y] = g[y]
    PROVE  SumFunctionOnSet(g, S) = SumFunctionOnSet(f, S) - f[x] + g[x]
<1>1. IsFiniteSet(S \ {x})
  BY FS_RemoveElement
<1>2. /\ SumFunctionOnSet(f, S) = f[x] + SumFunctionOnSet(f, S \ {x})
      /\ SumFunctionOnSet(g, S) = g[x] + SumFunctionOnSet(g, S \ {x})
  BY SumRemove
<1>3. SumFunctionOnSet(f, S \ {x}) = SumFunctionOnSet(g, S \ {x})
  BY <1>1, SumSame
<1>4. SumFunctionOnSet(f, S \ {x}) \in Int
  BY <1>1, SumInt
<1>5. f[x] \in Int /\ g[x] \in Int
  OBVIOUS
<1> QED BY <1>2, <1>3, <1>4, <1>5

\* The sum of a part and of the rest is the sum of the whole.
THEOREM SumSplit ==
    ASSUME NEW f, NEW S, IsFiniteSet(S), \A x \in S : f[x] \in Int, NEW T \in SUBSET S
    PROVE  SumFunctionOnSet(f, S) = SumFunctionOnSet(f, T) + SumFunctionOnSet(f, S \ T)
<1> DEFINE Splits(s) == SumFunctionOnSet(f, S) = SumFunctionOnSet(f, s) + SumFunctionOnSet(f, S \ s)
           B == {s \in SUBSET S : ~ Splits(s)}
<1>1. SUFFICES ASSUME B # {} PROVE FALSE
  OBVIOUS
<1>2. PICK s \in B : IsFiniteSet(s) /\ \A t \in SUBSET s : t # s => t \notin B
  <2>1. B \subseteq SUBSET S
    OBVIOUS
  <2> HIDE DEF B
  <2> QED BY <1>1, <2>1, Smallest
<1>3. ~ Splits(s) /\ s \in SUBSET S
  BY <1>2
<1>4. s # {}
  <2>1. SumFunctionOnSet(f, {}) = 0 /\ SumFunctionOnSet(f, S) \in Int /\ S \ {} = S
    BY SumEmpty, SumInt
  <2>2. Splits({})
    BY <2>1
  <2> QED BY <1>3, <2>2
<1>5. PICK x : x \in s
  BY <1>4
<1> DEFINE u == s \ {x}
<1>6. Splits(u)
  BY <1>2, <1>5
<1>7. IsFiniteSet(u) /\ IsFiniteSet(S \ s) /\ IsFiniteSet(S \ u)
  BY <1>2, FS_Subset
<1>8. SumFunctionOnSet(f, s) = f[x] + SumFunctionOnSet(f, u)
  BY <1>2, <1>5, SumRemove
<1>9. SumFunctionOnSet(f, S \ u) = f[x] + SumFunctionOnSet(f, S \ s)
  <2>1. (S \ u) \ {x} = S \ s /\ x \in S \ u
    BY <1>3, <1>5
  <2>2. \A y \in S \ u : f[y] \in Int
    OBVIOUS
  <2> HIDE DEF u
  <2>3. SumFunctionOnSet(f, S \ u) = f[x] + SumFunctionOnSet(f, (S \ u) \ {x})
    BY <1>7, <2>1, <2>2, SumRemove
  <2> QED BY <2>1, <2>3
<1>10. SumFunctionOnSet(f, u) \in Int /\ SumFunctionOnSet(f, S \ s) \in Int /\ f[x] \in Int
  <2>1. (\A y \in u : f[y] \in Int) /\ (\A y \in S \ s : f[y] \in Int)
    BY <1>3
  <2> HIDE DEF u
  <2> QED BY <1>3, <1>5, <1>7, <2>1, SumInt
<1> HIDE DEF u
<1> QED BY <1>3, <1>6, <1>8, <1>9, <1>10

\* A sum of natural numbers is one, and is zero only when they all are.
THEOREM SumNat ==
    ASSUME NEW f, NEW S, IsFiniteSet(S), \A x \in S : f[x] \in Nat
    PROVE  /\ SumFunctionOnSet(f, S) \in Nat
           /\ \A x \in S : f[x] <= SumFunctionOnSet(f, S)
           /\ (\A x \in S : f[x] = 0) => SumFunctionOnSet(f, S) = 0
<1> DEFINE Wrong(s) == ~ (SumFunctionOnSet(f, s) \in Nat
                          /\ ((\A x \in s : f[x] = 0) => SumFunctionOnSet(f, s) = 0))
           B == {s \in SUBSET S : Wrong(s)}
<1>1. \A s \in SUBSET S : ~ Wrong(s)
  <2>1. SUFFICES ASSUME B # {} PROVE FALSE
    OBVIOUS
  <2>2. PICK s \in B : IsFiniteSet(s) /\ \A t \in SUBSET s : t # s => t \notin B
    <3>1. B \subseteq SUBSET S
      OBVIOUS
    <3> HIDE DEF B
    <3> QED BY <2>1, <3>1, Smallest
  <2>3. Wrong(s) /\ s \in SUBSET S
    BY <2>2
  <2>4. s # {}
    <3>1. SumFunctionOnSet(f, {}) = 0
      BY SumEmpty
    <3> QED BY <2>3, <3>1
  <2>5. First(s) \in s /\ f[First(s)] \in Nat
    BY <2>3, <2>4, FirstIn
  <2>6. ~ Wrong(s \ {First(s)})
    BY <2>2, <2>5
  <2>7. SumFunctionOnSet(f, s) = f[First(s)] + SumFunctionOnSet(f, s \ {First(s)})
    BY <2>2, <2>4, SumFirst
  <2> QED BY <2>3, <2>5, <2>6, <2>7
<1>2. ASSUME NEW x \in S PROVE f[x] <= SumFunctionOnSet(f, S)
  <2>1. SumFunctionOnSet(f, S) = f[x] + SumFunctionOnSet(f, S \ {x})
    BY SumRemove
  <2>2. SumFunctionOnSet(f, S \ {x}) \in Nat /\ f[x] \in Nat
    BY <1>1
  <2> QED BY <2>1, <2>2
<1>3. ~ Wrong(S)
  BY <1>1
<1> QED BY <1>2, <1>3

\* Fewer elements sum to no more.
THEOREM SumSubset ==
    ASSUME NEW f, NEW S, IsFiniteSet(S), \A x \in S : f[x] \in Nat, NEW T \in SUBSET S
    PROVE  SumFunctionOnSet(f, T) <= SumFunctionOnSet(f, S)
<1>1. SumFunctionOnSet(f, S) = SumFunctionOnSet(f, T) + SumFunctionOnSet(f, S \ T)
  BY SumSplit
<1>2. SumFunctionOnSet(f, T) \in Nat /\ SumFunctionOnSet(f, S \ T) \in Nat
  <2>1. IsFiniteSet(T) /\ IsFiniteSet(S \ T)
    BY FS_Subset
  <2> QED BY <2>1, SumNat
<1> QED BY <1>1, <1>2

\* Where some elements count for nothing any more, theirs is missing.
THEOREM SumWithout ==
    ASSUME NEW f, NEW g, NEW S, IsFiniteSet(S), NEW T \in SUBSET S,
           \A x \in S : f[x] \in Int /\ g[x] = IF x \in T THEN 0 ELSE f[x]
    PROVE  /\ SumFunctionOnSet(g, S) = SumFunctionOnSet(f, S) - SumFunctionOnSet(f, T)
           /\ SumFunctionOnSet(f, S) \in Int /\ SumFunctionOnSet(f, T) \in Int
<1>1. IsFiniteSet(T) /\ IsFiniteSet(S \ T)
  BY FS_Subset
<1>2. \A x \in S : f[x] \in Int /\ g[x] \in Int
  OBVIOUS
<1>3. /\ SumFunctionOnSet(f, S) = SumFunctionOnSet(f, T) + SumFunctionOnSet(f, S \ T)
      /\ SumFunctionOnSet(g, S) = SumFunctionOnSet(g, T) + SumFunctionOnSet(g, S \ T)
  BY <1>2, SumSplit
<1>4. SumFunctionOnSet(g, T) = 0
  <2>1. \A x \in T : g[x] = 0 /\ g[x] \in Nat
    OBVIOUS
  <2> QED BY <1>1, <2>1, SumNat
<1>5. SumFunctionOnSet(g, S \ T) = SumFunctionOnSet(f, S \ T)
  <2>1. \A x \in S \ T : g[x] = f[x]
    OBVIOUS
  <2> QED BY <1>1, <2>1, SumSame
<1>6. SumFunctionOnSet(f, T) \in Int /\ SumFunctionOnSet(f, S \ T) \in Int
  <2>1. (\A x \in T : f[x] \in Int) /\ (\A x \in S \ T : f[x] \in Int)
    OBVIOUS
  <2> QED BY <1>1, <2>1, SumInt
<1> QED BY <1>3, <1>4, <1>5, <1>6

\* The sum of one.
THEOREM SumOne == ASSUME NEW f, NEW x, f[x] \in Int PROVE SumFunctionOnSet(f, {x}) = f[x]
<1>1. IsFiniteSet({x}) /\ {x} \ {x} = {} /\ \A y \in {x} : f[y] \in Int
  BY FS_Singleton
<1>2. SumFunctionOnSet(f, {x}) = f[x] + SumFunctionOnSet(f, {x} \ {x})
  BY <1>1, SumRemove
<1> QED BY <1>1, <1>2, SumEmpty

\* A sum of sums.
THEOREM SumPlus ==
    ASSUME NEW f, NEW g, NEW h, NEW S, IsFiniteSet(S),
           \A x \in S : f[x] \in Int /\ g[x] \in Int /\ h[x] = f[x] + g[x]
    PROVE  SumFunctionOnSet(h, S) = SumFunctionOnSet(f, S) + SumFunctionOnSet(g, S)
<1> DEFINE Adds(s) == SumFunctionOnSet(h, s) = SumFunctionOnSet(f, s) + SumFunctionOnSet(g, s)
           B == {s \in SUBSET S : ~ Adds(s)}
<1>1. SUFFICES ASSUME B # {} PROVE FALSE
  OBVIOUS
<1>2. PICK s \in B : IsFiniteSet(s) /\ \A t \in SUBSET s : t # s => t \notin B
  <2>1. B \subseteq SUBSET S
    OBVIOUS
  <2> HIDE DEF B
  <2> QED BY <1>1, <2>1, Smallest
<1>3. ~ Adds(s) /\ s \in SUBSET S
  BY <1>2
<1>4. s # {}
  <2>1. SumFunctionOnSet(f, {}) = 0 /\ SumFunctionOnSet(g, {}) = 0 /\ SumFunctionOnSet(h, {}) = 0
    BY SumEmpty
  <2>2. Adds({})
    BY <2>1
  <2> QED BY <1>3, <2>2
<1> DEFINE x == First(s)
           u == s \ {x}
<1>5. x \in s /\ f[x] \in Int /\ g[x] \in Int /\ h[x] = f[x] + g[x]
  BY <1>3, <1>4, FirstIn
<1>6. Adds(u)
  BY <1>2, <1>5
<1>7. /\ SumFunctionOnSet(f, s) = f[x] + SumFunctionOnSet(f, u)
      /\ SumFunctionOnSet(g, s) = g[x] + SumFunctionOnSet(g, u)
      /\ SumFunctionOnSet(h, s) = h[x] + SumFunctionOnSet(h, u)
  BY <1>2, <1>4, SumFirst
<1>8. SumFunctionOnSet(f, u) \in Int /\ SumFunctionOnSet(g, u) \in Int
  <2>1. IsFiniteSet(u) /\ \A y \in u : f[y] \in Int /\ g[y] \in Int
    BY <1>2, <1>3, FS_Subset
  <2> HIDE DEF u
  <2> QED BY <2>1, SumInt
<1> HIDE DEF u, x
<1> QED BY <1>3, <1>5, <1>6, <1>7, <1>8

\* A sum over the values of an injection is the sum over where it is defined.
THEOREM SumImage ==
    ASSUME NEW h, NEW g, NEW w, NEW R, NEW T, IsFiniteSet(R), IsFiniteSet(T),
           \A n \in T : w[n] \in R /\ g[n] = h[w[n]],
           \A m, n \in T : w[m] = w[n] => m = n,
           \A r \in R : h[r] \in Int
    PROVE  SumFunctionOnSet(g, T) = SumFunctionOnSet(h, {w[n] : n \in T})
<1> DEFINE Image(s) == {w[n] : n \in s}
           Equal(s) == SumFunctionOnSet(g, s) = SumFunctionOnSet(h, Image(s))
           B == {s \in SUBSET T : ~ Equal(s)}
<1>1. SUFFICES ASSUME B # {} PROVE FALSE
  OBVIOUS
<1>2. PICK s \in B : IsFiniteSet(s) /\ \A t \in SUBSET s : t # s => t \notin B
  <2>1. B \subseteq SUBSET T
    OBVIOUS
  <2> HIDE DEF B
  <2> QED BY <1>1, <2>1, Smallest
<1>3. ~ Equal(s) /\ s \in SUBSET T
  BY <1>2
<1>4. s # {}
  <2>1. SumFunctionOnSet(g, {}) = 0 /\ SumFunctionOnSet(h, {}) = 0
    BY SumEmpty
  <2>2. Image({}) = {}
    OBVIOUS
  <2>3. Equal({})
    BY <2>1, <2>2
  <2> QED BY <1>3, <2>3
<1> DEFINE c == First(s)
<1>5. c \in s /\ c \in T
  BY <1>3, <1>4, FirstIn
<1>6. Equal(s \ {c})
  BY <1>2, <1>5
<1>7. SumFunctionOnSet(g, s) = g[c] + SumFunctionOnSet(g, s \ {c})
  BY <1>2, <1>4, SumFirst
<1> HIDE DEF c
<1>8. SumFunctionOnSet(h, Image(s)) = h[w[c]] + SumFunctionOnSet(h, Image(s \ {c}))
  <2>1. w[c] \in Image(s) /\ Image(s) \in SUBSET R
    BY <1>3, <1>5
  <2>2. Image(s) \ {w[c]} = Image(s \ {c})
    BY <1>3, <1>5
  <2>3. IsFiniteSet(Image(s)) /\ \A r \in Image(s) : h[r] \in Int
    BY <2>1, FS_Subset
  <2> HIDE DEF Image
  <2>4. SumFunctionOnSet(h, Image(s)) = h[w[c]] + SumFunctionOnSet(h, Image(s) \ {w[c]})
    BY <2>1, <2>3, SumRemove
  <2> QED BY <2>2, <2>4
<1>9. g[c] = h[w[c]]
  BY <1>5
<1> HIDE DEF Image
<1> QED BY <1>3, <1>6, <1>7, <1>8, <1>9

-----------------------------------------------------------------------------
(* Age orders: sequences without a repeated element.                       *)

\* The first of some indexes.
THEOREM LeastIndex ==
    ASSUME NEW N \in Nat, NEW T, T \subseteq 0 .. N, T # {}
    PROVE  \E m \in T : \A k \in 0 .. m - 1 : k \notin T
<1> DEFINE B == {0 .. i : i \in T}
<1>1. B \subseteq SUBSET (0 .. N) /\ B # {} /\ IsFiniteSet(0 .. N)
  <2>1. IsFiniteSet(0 .. N)
    BY FS_Interval
  <2>2. \A i \in T : i \in 0 .. N /\ 0 .. i \in SUBSET (0 .. N)
    OBVIOUS
  <2>3. \E i \in T : 0 .. i \in B
    OBVIOUS
  <2> QED BY <2>1, <2>2, <2>3
<1>2. PICK s \in B : \A t \in SUBSET s : t # s => t \notin B
  <2> HIDE DEF B
  <2> QED BY <1>1, Smallest
<1>3. PICK m \in T : s = 0 .. m
  BY <1>2
<1>4. ASSUME NEW k \in 0 .. m - 1 PROVE k \notin T
  <2>1. m \in Nat /\ k \in Nat /\ k < m
    BY <1>4
  <2>2. 0 .. k \in SUBSET s /\ 0 .. k # s
    <3>1. m \in s /\ m \notin 0 .. k
      BY <1>3, <2>1
    <3>2. \A i \in 0 .. k : i \in s
      BY <1>3, <2>1
    <3> QED BY <3>1, <3>2
  <2>3. 0 .. k \notin B
    BY <1>2, <2>2
  <2> QED BY <2>3
<1> QED BY <1>4

\* So a set of places in an order has a least one.
THEOREM MinIndex ==
    ASSUME NEW N \in Nat, NEW T, T \subseteq 1 .. N, T # {}
    PROVE  Min(T) \in T /\ \A i \in T : Min(T) <= i
<1>1. T \subseteq 0 .. N
  OBVIOUS
<1>2. PICK m \in T : \A k \in 0 .. m - 1 : k \notin T
  BY <1>1, LeastIndex
<1>3. \A i \in T : m <= i
  BY <1>2
<1> QED BY <1>3 DEF Min

\* A newcomer comes last.
THEOREM OrderAppend ==
    ASSUME NEW D, NEW s \in Seq(D), IsInjective(s), NEW e \in D, e \notin ToSet(s)
    PROVE  /\ Append(s, e) \in Seq(D) /\ IsInjective(Append(s, e))
           /\ ToSet(Append(s, e)) = ToSet(s) \cup {e}
<1> DEFINE t == Append(s, e)
<1>1. /\ t \in Seq(D) /\ Len(t) = Len(s) + 1 /\ t[Len(s) + 1] = e
      /\ \A i \in 1 .. Len(s) : t[i] = s[i]
  BY AppendProperties
<1>2. /\ DOMAIN s = 1 .. Len(s) /\ Len(s) \in Nat
      /\ DOMAIN t = 1 .. Len(s) + 1
  BY <1>1, LenProperties
<1> HIDE DEF t
<1>3. \A i \in DOMAIN s : s[i] # e
  BY DEF ToSet
<1>4. IsInjective(t)
  BY <1>1, <1>2, <1>3 DEF IsInjective
<1>5. ToSet(t) = ToSet(s) \cup {e}
  BY <1>1, <1>2 DEF ToSet
<1> QED BY <1>1, <1>4, <1>5 DEF t

\* The oldest go first: what is left and what went are the two parts of the order.
THEOREM OrderSplit ==
    ASSUME NEW D, NEW s \in Seq(D), IsInjective(s), NEW k \in 0 .. Len(s)
    PROVE  /\ SubSeq(s, k + 1, Len(s)) \in Seq(D) /\ IsInjective(SubSeq(s, k + 1, Len(s)))
           /\ ToSet(SubSeq(s, 1, k)) \subseteq ToSet(s)
           /\ ToSet(SubSeq(s, k + 1, Len(s))) = ToSet(s) \ ToSet(SubSeq(s, 1, k))
<1> DEFINE n == Len(s)
           t == SubSeq(s, k + 1, n)
           u == SubSeq(s, 1, k)
<1>1. n \in Nat /\ DOMAIN s = 1 .. n /\ k \in 0 .. n /\ \A i \in 1 .. n : s[i] \in D
  BY LenProperties, ElementOfSeq
<1>2. /\ t \in Seq(D) /\ Len(t) = n - k /\ \A i \in 1 .. n - k : t[i] = s[k + i]
  <2>1. \A i \in k + 1 .. n : s[i] \in D
    BY <1>1
  <2>2. k + 1 \in Int /\ n \in Int
    BY <1>1
  <2>3. /\ t \in Seq(D) /\ Len(t) = IF k + 1 <= n THEN n - (k + 1) + 1 ELSE 0
        /\ \A i \in 1 .. n - (k + 1) + 1 : t[i] = s[k + 1 + i - 1]
    BY <2>1, <2>2, SubSeqProperties
  <2>4. n - (k + 1) + 1 = n - k /\ \A i \in 1 .. n - k : k + 1 + i - 1 = k + i
    BY <1>1
  <2> HIDE DEF t
  <2>5. \A i \in 1 .. n - k : t[i] = s[k + i]
    BY <2>3, <2>4
  <2>6. n \in Nat /\ k \in 0 .. n
    BY <1>1
  <2> HIDE DEF n
  <2>7. Len(t) = n - k
    BY <2>3, <2>6
  <2> QED BY <2>3, <2>5, <2>7
<1>3. /\ u \in Seq(D) /\ Len(u) = k /\ \A i \in 1 .. k : u[i] = s[i]
  <2>1. \A i \in 1 .. k : s[i] \in D
    BY <1>1
  <2>2. /\ u \in Seq(D) /\ Len(u) = IF 1 <= k THEN k - 1 + 1 ELSE 0
        /\ \A i \in 1 .. k - 1 + 1 : u[i] = s[1 + i - 1]
    BY <1>1, <2>1, SubSeqProperties
  <2> QED BY <1>1, <2>2
<1>4. DOMAIN t = 1 .. n - k /\ DOMAIN u = 1 .. k
  BY <1>2, <1>3, LenProperties
<1>5. \A i, j \in 1 .. n : s[i] = s[j] => i = j
  BY <1>1 DEF IsInjective
<1>9. ToSet(s) = {s[i] : i \in 1 .. n}
  BY <1>1 DEF ToSet
<1> HIDE DEF n, t, u
<1>6. IsInjective(t)
  BY <1>1, <1>2, <1>4, <1>5 DEF IsInjective
<1>7. ToSet(u) = {s[i] : i \in 1 .. k}
  BY <1>1, <1>3, <1>4 DEF ToSet
<1>8. ToSet(t) = {s[i] : i \in k + 1 .. n}
  <2>1. \A i \in 1 .. n - k : k + i \in k + 1 .. n
    BY <1>1
  <2>2. \A i \in k + 1 .. n : i - k \in 1 .. n - k /\ k + (i - k) = i
    BY <1>1
  <2>3. ToSet(t) = {t[i] : i \in 1 .. n - k}
    BY <1>4 DEF ToSet
  <2>4. ASSUME NEW x \in ToSet(t) PROVE x \in {s[i] : i \in k + 1 .. n}
    BY <1>2, <2>1, <2>3
  <2>5. ASSUME NEW i \in k + 1 .. n PROVE s[i] \in ToSet(t)
    BY <1>2, <2>2, <2>3
  <2> QED BY <2>4, <2>5
<1>10. ToSet(u) \subseteq ToSet(s)
  BY <1>1, <1>7, <1>9
<1>11. ToSet(t) = ToSet(s) \ ToSet(u)
  BY <1>1, <1>5, <1>7, <1>8, <1>9
<1> QED BY <1>2, <1>6, <1>10, <1>11 DEF n, t, u

\* Whatever goes, what is left is of the same kind.
THEOREM RemoveType ==
    ASSUME NEW D, NEW s \in Seq(D), NEW e
    PROVE  RemoveFirst(s, e) \in Seq(D)
<1> DEFINE I == {i \in 1 .. Len(s) : s[i] = e}
           m == Min(I)
<1>1. Len(s) \in Nat /\ \A i \in 1 .. Len(s) : s[i] \in D
  BY LenProperties, ElementOfSeq
<1>2. CASE I = {}
  <2>1. RemoveFirst(s, e) = s
    BY <1>2 DEF RemoveFirst
  <2> QED BY <2>1
<1>3. CASE I # {}
  <2>1. SelectInSeq(s, LAMBDA v : v = e) = m
    BY <1>3 DEF SelectInSeq
  <2>2. RemoveFirst(s, e) = SubSeq(s, 1, m - 1) \o SubSeq(s, m + 1, Len(s))
    BY <1>3, <2>1 DEF RemoveFirst, RemoveAt
  <2>3. m \in 1 .. Len(s)
    BY <1>1, <1>3, MinIndex
  <2> HIDE DEF m
  <2>4. SubSeq(s, 1, m - 1) \in Seq(D)
    <3>1. m - 1 \in Int /\ \A i \in 1 .. m - 1 : s[i] \in D
      BY <1>1, <2>3
    <3> QED BY <3>1, SubSeqProperties
  <2>5. SubSeq(s, m + 1, Len(s)) \in Seq(D)
    <3>1. m + 1 \in Int /\ \A i \in m + 1 .. Len(s) : s[i] \in D
      BY <1>1, <2>3
    <3> QED BY <1>1, <3>1, SubSeqProperties
  <2> QED BY <2>2, <2>4, <2>5, ConcatProperties
<1> QED BY <1>2, <1>3

\* One goes, from wherever it is.
THEOREM OrderRemove ==
    ASSUME NEW D, NEW s \in Seq(D), IsInjective(s), NEW e \in ToSet(s)
    PROVE  /\ RemoveFirst(s, e) \in Seq(D) /\ IsInjective(RemoveFirst(s, e))
           /\ ToSet(RemoveFirst(s, e)) = ToSet(s) \ {e}
<1> DEFINE n == Len(s)
<1>1. n \in Nat /\ DOMAIN s = 1 .. n /\ \A i \in 1 .. n : s[i] \in D
  BY LenProperties, ElementOfSeq
<1>2. PICK k \in 1 .. n : s[k] = e
  BY <1>1 DEF ToSet
<1>3. \A i, j \in 1 .. n : s[i] = s[j] => i = j
  BY <1>1 DEF IsInjective
<1>4. SelectInSeq(s, LAMBDA v : v = e) = k
  <2>1. {i \in 1 .. n : s[i] = e} = {k}
    BY <1>2, <1>3
  <2>2. Min({k}) = k
    BY <1>2 DEF Min
  <2> QED BY <2>1, <2>2 DEF SelectInSeq
<1>5. RemoveFirst(s, e) = SubSeq(s, 1, k - 1) \o SubSeq(s, k + 1, n)
  BY <1>2, <1>4 DEF RemoveFirst, RemoveAt
<1> DEFINE t == SubSeq(s, 1, k - 1)
           u == SubSeq(s, k + 1, n)
           q == t \o u
<1>6. t \in Seq(D) /\ Len(t) = k - 1 /\ \A i \in 1 .. k - 1 : t[i] = s[i]
  <2>1. \A i \in 1 .. k - 1 : s[i] \in D
    BY <1>1
  <2>2. k - 1 \in Int
    BY <1>1
  <2>3. /\ t \in Seq(D) /\ Len(t) = IF 1 <= k - 1 THEN k - 1 - 1 + 1 ELSE 0
        /\ \A i \in 1 .. k - 1 - 1 + 1 : t[i] = s[1 + i - 1]
    BY <2>1, <2>2, SubSeqProperties
  <2> QED BY <1>1, <2>3
<1>7. u \in Seq(D) /\ Len(u) = n - k /\ \A i \in 1 .. n - k : u[i] = s[k + i]
  <2>1. \A i \in k + 1 .. n : s[i] \in D
    BY <1>1
  <2>2. k + 1 \in Int /\ n \in Int
    BY <1>1
  <2>3. /\ u \in Seq(D) /\ Len(u) = IF k + 1 <= n THEN n - (k + 1) + 1 ELSE 0
        /\ \A i \in 1 .. n - (k + 1) + 1 : u[i] = s[k + 1 + i - 1]
    BY <2>1, <2>2, SubSeqProperties
  <2>4. n - (k + 1) + 1 = n - k /\ \A i \in 1 .. n - k : k + 1 + i - 1 = k + i
    BY <1>1
  <2> HIDE DEF u
  <2>5. \A i \in 1 .. n - k : u[i] = s[k + i]
    BY <2>3, <2>4
  <2>6. n \in Nat /\ k \in 1 .. n
    BY <1>1
  <2> HIDE DEF n
  <2>7. Len(u) = n - k
    BY <2>3, <2>6
  <2> QED BY <2>3, <2>5, <2>7
<1> HIDE DEF t, u, n
<1>8. q \in Seq(D) /\ Len(q) = n - 1 /\ \A i \in 1 .. n - 1 : q[i] = IF i < k THEN s[i] ELSE s[i + 1]
  <2>1. /\ q \in Seq(D) /\ Len(q) = Len(t) + Len(u)
        /\ \A i \in 1 .. Len(t) + Len(u) : q[i] = IF i <= Len(t) THEN t[i] ELSE u[i - Len(t)]
    BY <1>6, <1>7, ConcatProperties
  <2>2. ASSUME NEW i \in 1 .. n - 1 PROVE q[i] = IF i < k THEN s[i] ELSE s[i + 1]
    <3>1. CASE i < k
      BY <1>1, <1>6, <1>7, <2>1, <3>1
    <3>2. CASE i >= k
      <4>1. q[i] = u[i - (k - 1)]
        BY <1>1, <1>6, <1>7, <2>1, <3>2
      <4>2. i - (k - 1) \in 1 .. n - k /\ k + (i - (k - 1)) = i + 1
        BY <1>1, <3>2
      <4> QED BY <1>1, <1>7, <3>2, <4>1, <4>2
    <3>3. i < k \/ i >= k
      BY <1>1
    <3> HIDE DEF q
    <3> QED BY <3>1, <3>2, <3>3
  <2> QED BY <1>1, <1>6, <1>7, <2>1, <2>2
<1>9. DOMAIN q = 1 .. n - 1
  BY <1>8, LenProperties
<1> HIDE DEF q
<1>10. IsInjective(q)
  BY <1>1, <1>3, <1>8, <1>9 DEF IsInjective
<1>11. ToSet(q) = ToSet(s) \ {e}
  <2>1. ToSet(q) = {q[i] : i \in 1 .. n - 1} /\ ToSet(s) = {s[i] : i \in 1 .. n}
    BY <1>1, <1>9 DEF ToSet, n
  <2>2. ASSUME NEW i \in 1 .. n - 1 PROVE q[i] \in ToSet(s) \ {e}
    BY <1>1, <1>2, <1>3, <1>8, <2>1
  <2>3. ASSUME NEW i \in 1 .. n, s[i] # e PROVE s[i] \in ToSet(q)
    <3>1. CASE i < k
      BY <1>1, <1>8, <2>1, <3>1
    <3>2. CASE i > k
      <4>1. i - 1 \in 1 .. n - 1 /\ ~ (i - 1 < k) /\ i - 1 + 1 = i
        BY <1>1, <3>2
      <4> QED BY <1>8, <2>1, <4>1
    <3> QED BY <1>1, <1>2, <2>3, <3>1, <3>2
  <2> QED BY <2>1, <2>2, <2>3
<1> QED BY <1>5, <1>8, <1>10, <1>11 DEF q, t, u

=============================================================================
