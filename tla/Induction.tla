------------------------------ MODULE Induction -----------------------------
(***************************************************************************)
(* Induction over the natural numbers as a statement about sets, and what  *)
(* a fold over a sequence computes.  The step of a fold is given as a      *)
(* function, so that the facts can be cited for any operator.              *)
(***************************************************************************)
EXTENDS SequencesExt, FiniteSetTheorems, WellFoundedInduction, TLAPS

\* Every set of numbers has a least element, because the finite sets 0 .. n
\* are well ordered by strict inclusion.
LEMMA LeastNatural ==
  ASSUME NEW T \in SUBSET Nat, T # {}
  PROVE  \E n \in T : \A m \in T : n <= m
<1> DEFINE R == StrictSubsetOrdering(Nat)
           Below == {0 .. n : n \in T}
<1>1. Below \subseteq FiniteSubsetsOf(Nat) /\ Below # {}
  <2>1. ASSUME NEW n \in T PROVE 0 .. n \in FiniteSubsetsOf(Nat)
    <3>1. IsFiniteSet(0 .. n)
      BY FS_Interval
    <3> QED BY <3>1 DEF FiniteSubsetsOf
  <2> QED BY <2>1
<1>2. PICK x \in Below : \A y \in Below : ~ (<<y, x>> \in R)
  <2> HIDE DEF R, Below
  <2>1. IsWellFoundedOn(StrictSubsetOrdering(Nat), FiniteSubsetsOf(Nat))
    BY FS_StrictSubsetOrderingWellFounded
  <2> QED BY <1>1, <2>1, WFMin DEF R
<1>3. PICK n \in T : x = 0 .. n
  BY <1>2
<1>4. ASSUME NEW m \in T, m < n PROVE FALSE
  <2>1. 0 .. m \subseteq 0 .. n /\ n \in 0 .. n /\ n \notin 0 .. m
    BY <1>4
  <2>2. <<0 .. m, 0 .. n>> \in R
    BY <2>1 DEF StrictSubsetOrdering
  <2> QED BY <1>2, <1>3, <2>2
<1> QED BY <1>4

\* Induction: a set that holds 0 and the successor of each of its elements.
LEMMA NatSetInduction ==
  ASSUME NEW T, 0 \in T, \A n \in Nat : n \in T => n + 1 \in T
  PROVE  Nat \subseteq T
<1> SUFFICES ASSUME Nat \ T # {} PROVE FALSE
  OBVIOUS
<1>1. PICK n \in Nat \ T : \A m \in Nat \ T : n <= m
  BY LeastNatural
<1>2. n - 1 \in Nat /\ n - 1 \in T
  BY <1>1
<1> QED BY <1>1, <1>2

\* The same up to a bound.
LEMMA BoundedInduction ==
  ASSUME NEW L \in Nat, NEW T, 0 \in T,
         \A n \in 0 .. L - 1 : n \in T => n + 1 \in T
  PROVE  0 .. L \subseteq T
<1> DEFINE U == {n \in Nat : n <= L => n \in T}
<1>1. 0 \in U
  OBVIOUS
<1>2. ASSUME NEW n \in Nat, n \in U PROVE n + 1 \in U
  BY <1>2
<1> HIDE DEF U
<1>3. Nat \subseteq U
  BY <1>1, <1>2, NatSetInduction
<1> QED BY <1>3 DEF U

-----------------------------------------------------------------------------
\* The largest of a set of numbers.
LEMMA MaxOf ==
  ASSUME NEW S \in SUBSET Nat, NEW m \in S, \A k \in S : k <= m
  PROVE  Max(S) = m
<1>1. \A k \in S : m >= k
  OBVIOUS
<1>2. \A x \in S : (\A y \in S : x >= y) => x = m
  BY <1>1
<1> QED BY <1>1, <1>2 DEF Max

\* A set of positions has a largest element.
LEMMA MaxIn ==
  ASSUME NEW L \in Nat, NEW S \in SUBSET (1 .. L), S # {}
  PROVE  Max(S) \in S
<1> DEFINE T == {L - k : k \in S}
<1>1. PICK n \in T : \A m \in T : n <= m
  <2>1. T \in SUBSET Nat
    <3> SUFFICES ASSUME NEW k \in S PROVE L - k \in Nat
      OBVIOUS
    <3> QED OBVIOUS
  <2>2. T # {}
    OBVIOUS
  <2> HIDE DEF T
  <2> QED BY <2>1, <2>2, LeastNatural
<1>2. PICK k \in S : n = L - k
  OBVIOUS
<1>3. \A j \in S : j <= k
  <2> SUFFICES ASSUME NEW j \in S PROVE j <= k
    OBVIOUS
  <2>1. L - j \in T
    OBVIOUS
  <2> HIDE DEF T
  <2> QED BY <1>1, <1>2, <2>1
<1>4. Max(S) = k
  BY <1>3, MaxOf
<1> QED BY <1>4

\* The step of a fold over L elements: its n-th element takes v to
\* step[n][v].
IsStep(step, L, V) == \A n \in 1 .. L, v \in V : step[n][v] \in V

\* What is computed on the way: run[n] after n elements.
IsRun(run, base, step, L, V) ==
  /\ run \in [0 .. L -> V]
  /\ run[0] = base
  /\ \A n \in 1 .. L : run[n] = step[n][run[n - 1]]

\* The recursion by which Folds.tla defines a fold: over the sets of
\* positions, each from the set without its last position.
IsFold(g, base, step, L, V) ==
  /\ g = [s \in SUBSET (1 .. L) |-> g[s]]
  /\ g[{}] = base
  /\ \A s \in (SUBSET (1 .. L)) \ {{}} :
       /\ Max(s) \in 1 .. L
       /\ g[s \ {Max(s)}] \in V => g[s] = step[Max(s)][g[s \ {Max(s)}]]

\* The recursion has a solution of which all values are in V.
LEMMA FoldExists ==
  ASSUME NEW V, NEW base \in V, NEW L \in Nat, NEW step, IsStep(step, L, V)
  PROVE  \E g : IsFold(g, base, step, L, V) /\ \A s \in SUBSET (1 .. L) : g[s] \in V
<1> DEFINE Good(g, n) == /\ g \in [SUBSET (1 .. n) -> V]
                         /\ \A s \in SUBSET (1 .. n) :
                              g[s] = IF s = {} THEN base
                                     ELSE step[Max(s)][g[s \ {Max(s)}]]
           T == {n \in 0 .. L : \E g : Good(g, n)}
<1>1. 0 \in T
  <2> DEFINE g0 == [s \in SUBSET (1 .. 0) |-> base]
  <2>1. Good(g0, 0)
    OBVIOUS
  <2>2. \E g : Good(g, 0)
    BY <2>1, Zenon
  <2> HIDE DEF Good
  <2> QED BY <2>2
<1>2. ASSUME NEW n \in 0 .. L - 1, n \in T PROVE n + 1 \in T
  <2>1. PICK g : Good(g, n)
    BY <1>2
  <2> DEFINE h == [s \in SUBSET (1 .. n + 1) |->
                     IF n + 1 \in s THEN step[n + 1][g[s \ {n + 1}]] ELSE g[s]]
  <2>2. ASSUME NEW s \in SUBSET (1 .. n + 1)
        PROVE  /\ s \ {n + 1} \in SUBSET (1 .. n)
               /\ n + 1 \notin s => s \in SUBSET (1 .. n)
    OBVIOUS
  <2>3. h \in [SUBSET (1 .. n + 1) -> V]
    <3> SUFFICES ASSUME NEW s \in SUBSET (1 .. n + 1) PROVE h[s] \in V
      OBVIOUS
    <3>1. CASE n + 1 \in s
      <4>1. g[s \ {n + 1}] \in V
        BY <2>1, <2>2
      <4> QED BY <3>1, <4>1 DEF IsStep
    <3>2. CASE n + 1 \notin s
      BY <2>1, <2>2, <3>2
    <3> QED BY <3>1, <3>2
  <2>4. ASSUME NEW s \in SUBSET (1 .. n + 1)
        PROVE  h[s] = IF s = {} THEN base ELSE step[Max(s)][h[s \ {Max(s)}]]
    <3>1. CASE n + 1 \in s
      <4>1. Max(s) = n + 1
        <5>1. \A k \in s : k <= n + 1
          OBVIOUS
        <5> QED BY <3>1, <5>1, MaxOf
      <4>2. h[s \ {n + 1}] = g[s \ {n + 1}]
        BY <2>2
      <4> QED BY <3>1, <4>1, <4>2
    <3>2. CASE n + 1 \notin s
      <4>1. h[s] = g[s]
        BY <3>2
      <4>2. g[s] = IF s = {} THEN base ELSE step[Max(s)][g[s \ {Max(s)}]]
        BY <2>1, <2>2, <3>2
      <4>3. h[s \ {Max(s)}] = g[s \ {Max(s)}]
        BY <3>2
      <4> QED BY <4>1, <4>2, <4>3
    <3> QED BY <3>1, <3>2
  <2>5. Good(h, n + 1)
    BY <2>3, <2>4
  <2>6. \E f : Good(f, n + 1)
    BY <2>5, Zenon
  <2> HIDE DEF Good
  <2> QED BY <2>6
<1>3. L \in T
  <2> HIDE DEF T
  <2> QED BY <1>1, <1>2, BoundedInduction
<1>4. PICK g : Good(g, L)
  BY <1>3
<1>5. g = [s \in SUBSET (1 .. L) |-> g[s]] /\ g[{}] = base
  BY <1>4
<1>6. \A s \in (SUBSET (1 .. L)) \ {{}} : Max(s) \in 1 .. L
  BY MaxIn
<1>7. IsFold(g, base, step, L, V)
  BY <1>4, <1>5, <1>6 DEF IsFold
<1> QED BY <1>4, <1>7

\* A solution on the beginnings 1 .. n of the sequence is a run.
LEMMA FoldRun ==
  ASSUME NEW V, NEW base \in V, NEW L \in Nat, NEW step, IsStep(step, L, V),
         NEW g, IsFold(g, base, step, L, V)
  PROVE  \E run : IsRun(run, base, step, L, V) /\ run[L] = g[1 .. L]
<1> DEFINE T == {n \in 0 .. L : g[1 .. n] \in V}
           run == [n \in 0 .. L |-> g[1 .. n]]
<1>1. ASSUME NEW n \in 1 .. L, g[1 .. n - 1] \in V
      PROVE  g[1 .. n] = step[n][g[1 .. n - 1]]
  <2>1. Max(1 .. n) = n
    BY MaxOf
  <2>2. (1 .. n) \ {n} = 1 .. n - 1
    OBVIOUS
  <2>3. 1 .. n \in SUBSET (1 .. L) /\ n \in 1 .. n
    OBVIOUS
  <2> QED BY <2>1, <2>2, <2>3, <1>1 DEF IsFold
<1>2. g[1 .. 0] = base
  BY 1 .. 0 = {} DEF IsFold
<1>3. ASSUME NEW n \in 0 .. L - 1, n \in T PROVE n + 1 \in T
  <2>1. g[1 .. n + 1] = step[n + 1][g[1 .. (n + 1) - 1]]
    BY <1>1, <1>3
  <2> QED BY <2>1, <1>3 DEF IsStep
<1>4. \A n \in 0 .. L : g[1 .. n] \in V
  <2>1. 0 \in T
    BY <1>2
  <2>2. 0 .. L \subseteq T
    <3> HIDE DEF T
    <3> QED BY <2>1, <1>3, BoundedInduction
  <2> QED BY <2>2
<1>5. IsRun(run, base, step, L, V)
  BY <1>1, <1>2, <1>4 DEF IsRun
<1>6. run[L] = g[1 .. L]
  OBVIOUS
<1> HIDE DEF run
<1> QED BY <1>5, <1>6

\* What holds at the start of a run and is kept by each step holds
\* throughout.
LEMMA RunInduction ==
  ASSUME NEW L \in Nat, NEW T, 0 \in T,
         \A n \in 1 .. L : n - 1 \in T => n \in T
  PROVE  \A n \in 0 .. L : n \in T
<1>1. \A n \in 0 .. L - 1 : n \in T => n + 1 \in T
  OBVIOUS
<1> QED BY <1>1, BoundedInduction

\* Every step has a run: recursion on the numbers up to L.
LEMMA RunExists ==
  ASSUME NEW V, NEW base \in V, NEW L \in Nat, NEW step, IsStep(step, L, V)
  PROVE  \E run : IsRun(run, base, step, L, V)
<1>1. PICK g : IsFold(g, base, step, L, V)
  BY FoldExists
<1> QED BY <1>1, FoldRun
-----------------------------------------------------------------------------
\* The positions up to k among a set of positions, and their number.
UpTo(P, k)  == {j \in P : j <= k}
Count(P, k) == Cardinality(UpTo(P, k))

\* Positions are numbered from 1.
LEMMA Counting ==
  ASSUME NEW P, \A i \in P : i \in Nat /\ i > 0
  PROVE  /\ Count(P, 0) = 0
         /\ \A k \in Nat : /\ Count(P, k) \in Nat
                           /\ Count(P, k + 1) = Count(P, k) + IF k + 1 \in P THEN 1 ELSE 0
<1>1. Count(P, 0) = 0
  <2>1. UpTo(P, 0) = {}
    BY DEF UpTo
  <2> QED BY <2>1, FS_EmptySet DEF Count
<1>2. ASSUME NEW k \in Nat
      PROVE  IsFiniteSet(UpTo(P, k)) /\ Cardinality(UpTo(P, k)) \in Nat
  <2>1. UpTo(P, k) \subseteq 1 .. k
    BY DEF UpTo
  <2>2. IsFiniteSet(1 .. k)
    BY FS_Interval
  <2> QED BY <2>1, <2>2, FS_Subset, FS_CardinalityType
<1>3. ASSUME NEW k \in Nat
      PROVE  Count(P, k + 1) = Count(P, k) + IF k + 1 \in P THEN 1 ELSE 0
  <2>1. \A j : j \in UpTo(P, k + 1) <=> j \in UpTo(P, k) \/ (j = k + 1 /\ k + 1 \in P)
    BY DEF UpTo
  <2>2. k + 1 \notin UpTo(P, k)
    BY DEF UpTo
  <2>3. CASE k + 1 \in P
    <3>1. UpTo(P, k + 1) = UpTo(P, k) \cup {k + 1}
      BY <2>1, <2>3
    <3> QED BY <1>2, <2>2, <2>3, <3>1, FS_AddElement DEF Count
  <2>4. CASE k + 1 \notin P
    <3>1. UpTo(P, k + 1) = UpTo(P, k)
      BY <2>1, <2>4
    <3> QED BY <1>2, <2>4, <3>1 DEF Count
  <2> QED BY <2>3, <2>4
<1> QED BY <1>1, <1>2, <1>3 DEF Count

\* The count of a set of positions grows with the position.
LEMMA CountingUp ==
  ASSUME NEW P, \A i \in P : i \in Nat /\ i > 0,
         NEW j \in Nat, NEW k \in Nat, j <= k
  PROVE  Count(P, j) <= Count(P, k)
<1> DEFINE T == {n \in Nat : Count(P, j) <= Count(P, j + n)}
<1>1. 0 \in T
  BY Counting
<1>2. ASSUME NEW n \in Nat, n \in T PROVE n + 1 \in T
  <2>1. j + n \in Nat /\ j + (n + 1) = (j + n) + 1
    OBVIOUS
  <2> QED BY <1>2, <2>1, Counting
<1>3. k - j \in T
  <2>1. k - j \in Nat
    OBVIOUS
  <2> HIDE DEF T
  <2> QED BY <1>1, <1>2, <2>1, NatSetInduction
<1>4. j + (k - j) = k
  OBVIOUS
<1> QED BY <1>3, <1>4

\* The first M of a set of positions: those before which there are fewer.
FirstOf(P, M) == {k \in P : Count(P, k - 1) < M}

\* Of the first M, the count is that of the set, up to M.
LEMMA CountingFirst ==
  ASSUME NEW P, \A i \in P : i \in Nat /\ i > 0, NEW M \in Nat
  PROVE  \A n \in Nat : Count(FirstOf(P, M), n) =
                          IF Count(P, n) <= M THEN Count(P, n) ELSE M
<1> DEFINE F == FirstOf(P, M)
           T == {k \in Nat : Count(F, k) = IF Count(P, k) <= M THEN Count(P, k) ELSE M}
<1>1. \A i \in F : i \in Nat /\ i > 0
  BY DEF FirstOf
<1>2. \A k \in Nat : k + 1 \in F <=> k + 1 \in P /\ Count(P, k) < M
  <2> TAKE k \in Nat
  <2>1. (k + 1) - 1 = k
    OBVIOUS
  <2> QED BY <2>1 DEF FirstOf
<1> HIDE DEF F
<1>3. 0 \in T
  BY <1>1, Counting
<1>4. ASSUME NEW k \in Nat, k \in T PROVE k + 1 \in T
  <2>1. /\ Count(P, k) \in Nat
        /\ Count(P, k + 1) = Count(P, k) + IF k + 1 \in P THEN 1 ELSE 0
    BY Counting
  <2>2. /\ Count(F, k) \in Nat
        /\ Count(F, k + 1) = Count(F, k) + IF k + 1 \in F THEN 1 ELSE 0
    BY <1>1, Counting
  <2> QED BY <1>2, <1>4, <2>1, <2>2
<1>5. Nat \subseteq T
  <2> HIDE DEF T
  <2> QED BY <1>3, <1>4, NatSetInduction
<1> QED BY <1>5 DEF F

\* Whether a position is among them shows in their own number.
AreFirst(F, P, M) ==
  /\ \A i \in F : i \in Nat /\ i > 0 /\ i \in P
  /\ Count(F, 0) = 0
  /\ \A k \in Nat : /\ Count(F, k) \in 0 .. M
                    /\ Count(P, k) < M <=> Count(F, k) < M
                    /\ k + 1 \in F <=> k + 1 \in P /\ Count(F, k) < M
                    /\ Count(F, k + 1) = Count(F, k) + IF k + 1 \in F THEN 1 ELSE 0
  /\ \A k \in F : Count(P, k) = Count(F, k)

\* The first M of a set are counted as AreFirst says.
LEMMA CountingTheFirst ==
  ASSUME NEW P, \A i \in P : i \in Nat /\ i > 0, NEW M \in Nat,
         NEW F, F = FirstOf(P, M)
  PROVE  AreFirst(F, P, M)
<1>1. \A i \in F : i \in Nat /\ i > 0 /\ i \in P
  BY DEF FirstOf
<1>2. \A k \in Nat : k + 1 \in F <=> k + 1 \in P /\ Count(P, k) < M
  <2> TAKE k \in Nat
  <2>1. (k + 1) - 1 = k
    OBVIOUS
  <2> QED BY <2>1 DEF FirstOf
<1>3. \A n \in Nat : Count(F, n) = IF Count(P, n) <= M THEN Count(P, n) ELSE M
  BY CountingFirst
<1>4. \A k \in F : Count(P, k - 1) < M
  BY DEF FirstOf
<1>5. Count(F, 0) = 0
  BY <1>1, Counting
<1>6. ASSUME NEW k \in Nat
      PROVE  /\ Count(F, k) \in 0 .. M
             /\ Count(P, k) < M <=> Count(F, k) < M
             /\ k + 1 \in F <=> k + 1 \in P /\ Count(F, k) < M
             /\ Count(F, k + 1) = Count(F, k) + IF k + 1 \in F THEN 1 ELSE 0
  <2>1. Count(P, k) \in Nat
    BY Counting
  <2>2. Count(F, k) = IF Count(P, k) <= M THEN Count(P, k) ELSE M
    BY <1>3
  <2>3. Count(F, k) \in 0 .. M /\ (Count(P, k) < M <=> Count(F, k) < M)
    BY <2>1, <2>2
  <2>4. Count(F, k + 1) = Count(F, k) + IF k + 1 \in F THEN 1 ELSE 0
    BY <1>1, Counting
  <2> QED BY <1>2, <2>3, <2>4
<1>7. ASSUME NEW k \in F PROVE Count(P, k) = Count(F, k)
  <2>1. k - 1 \in Nat /\ (k - 1) + 1 = k /\ k \in Nat /\ k \in P
    BY <1>1
  <2>2. Count(P, k - 1) < M /\ Count(P, k - 1) \in Nat
    BY <1>4, <2>1, Counting
  <2>3. Count(P, k) = Count(P, k - 1) + 1
    <3> DEFINE j == k - 1
    <3>1. j \in Nat /\ j + 1 = k
      BY <2>1
    <3> HIDE DEF j
    <3>2. Count(P, j + 1) = Count(P, j) + IF j + 1 \in P THEN 1 ELSE 0
      BY <3>1, Counting
    <3> QED BY <2>1, <3>1, <3>2 DEF j
  <2>4. Count(F, k) = IF Count(P, k) <= M THEN Count(P, k) ELSE M
    BY <1>3, <2>1
  <2> QED BY <2>2, <2>3, <2>4
<1> QED BY <1>1, <1>5, <1>6, <1>7 DEF AreFirst
=============================================================================
