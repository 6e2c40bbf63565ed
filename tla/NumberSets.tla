------------------------------ MODULE NumberSets ------------------------------
(***************************************************************************)
(* The least and the greatest member of a set of numbers, and folds over   *)
(* finite sets.                                                            *)
(***************************************************************************)
EXTENDS Integers, FiniteSetsExt, Functions, FiniteSetTheorems, WellFoundedInduction, TLAPS

\* A set of naturals has a least member.
LEMMA Smallest ==
    ASSUME NEW S \in SUBSET Nat, S # {}
    PROVE  Min(S) \in S /\ \A y \in S : Min(S) <= y
  <1>1. PICK n \in S : TRUE
    OBVIOUS
  <1> DEFINE Below(x) == {y \in S : y < x}
             F == {Below(x) : x \in {z \in S : z <= n}}
  <1>2. \A x \in S : x <= n => Below(x) \in F /\ Below(x) \in SUBSET (0..n)
    <2> SUFFICES ASSUME NEW x \in S, x <= n
                 PROVE  Below(x) \in F /\ Below(x) \in SUBSET (0..n)
      OBVIOUS
    <2>1. \A y \in S : y \in Nat /\ (y < x => y \in 0..n)
      OBVIOUS
    <2> QED BY <2>1
  <1>3. F \in SUBSET SUBSET (0..n) /\ F # {}
    <2>1. n \in Nat /\ n <= n
      OBVIOUS
    <2> QED BY <2>1, <1>2
  <1>4. FiniteSubsetsOf(0..n) = SUBSET (0..n)
    <2>1. IsFiniteSet(0..n)
      BY FS_Interval
    <2> QED BY <2>1, FS_FiniteSubsetsOfFinite
  <1>5. PICK b \in F : \A c \in F : <<c, b>> \notin StrictSubsetOrdering(0..n)
    <2>1. IsWellFoundedOn(StrictSubsetOrdering(0..n), FiniteSubsetsOf(0..n))
      BY FS_StrictSubsetOrderingWellFounded
    <2>2. F \subseteq FiniteSubsetsOf(0..n) /\ F # {}
      BY <1>3, <1>4
    <2> HIDE DEF F
    <2> QED BY <2>1, <2>2, WFMin
  <1>6. PICK x \in S : x <= n /\ b = Below(x)
    BY <1>5
  <1>7. ASSUME NEW y \in S, y < x
        PROVE  FALSE
    <2>1. y <= n
      BY <1>6, <1>7
    <2>2. Below(y) \in F /\ Below(y) \in SUBSET (0..n) /\ Below(x) \in SUBSET (0..n)
      BY <1>2, <1>6, <2>1
    <2>3. Below(y) \subseteq Below(x)
      <3>1. \A z \in S : z < y => z < x
        BY <1>7
      <3> QED BY <3>1
    <2>4. y \in Below(x) /\ y \notin Below(y)
      BY <1>7
    <2>5. <<Below(y), Below(x)>> \in StrictSubsetOrdering(0..n)
      <3> HIDE DEF Below
      <3> QED BY <2>2, <2>3, <2>4 DEF StrictSubsetOrdering
    <2> QED BY <1>5, <1>6, <2>2, <2>5
  <1>8. \A y \in S : x <= y
    BY <1>7
  <1> QED BY <1>8 DEF Min

\* A bounded set of naturals has a greatest member.
LEMMA Largest ==
    ASSUME NEW n \in Nat, NEW S \in SUBSET (0..n), S # {}
    PROVE  Max(S) \in S /\ \A y \in S : Max(S) >= y
  <1> DEFINE T == {n - y : y \in S}
  <1>1. T \in SUBSET Nat
    <2>1. \A y \in S : y \in 0..n
      OBVIOUS
    <2>2. \A y \in 0..n : n - y \in Nat
      OBVIOUS
    <2> QED BY <2>1, <2>2
  <1>2. T # {}
    OBVIOUS
  <1>3. Min(T) \in T /\ \A y \in T : Min(T) <= y
    BY <1>2, <1>1, Smallest
  <1>4. PICK x \in S : Min(T) = n - x
    BY <1>3
  <1>5. \A y \in S : x >= y
    BY <1>3, <1>4
  <1>6. \E z \in S : \A y \in S : z >= y
    BY <1>5
  <1> QED BY <1>6 DEF Max

\* The member that a fold takes next.
Pick(s) == CHOOSE x \in s : TRUE

\* What holds of the empty set, and of a set when it holds of the set without
\* the member taken, holds of every subset of a finite set.
LEMMA PickInduction ==
    ASSUME NEW S, IsFiniteSet(S), NEW Good, {} \in Good,
           \A s \in SUBSET S : s # {} /\ s \ {Pick(s)} \in Good => s \in Good
    PROVE  \A s \in SUBSET S : s \in Good
  <1> SUFFICES ASSUME NEW t \in SUBSET S, t \notin Good PROVE FALSE
    OBVIOUS
  <1> DEFINE Bad == {Cardinality(s) : s \in {u \in SUBSET S : u \notin Good}}
  <1>1. \A s \in SUBSET S : IsFiniteSet(s) /\ Cardinality(s) \in Nat
    BY FS_Subset, FS_CardinalityType
  <1>2. Bad \in SUBSET Nat /\ Bad # {}
    BY <1>1
  <1>3. Min(Bad) \in Bad /\ \A n \in Bad : Min(Bad) <= n
    <2> HIDE DEF Bad
    <2> QED BY <1>2, Smallest
  <1>4. PICK s \in SUBSET S : s \notin Good /\ Cardinality(s) = Min(Bad)
    BY <1>3
  <1> DEFINE rest == s \ {Pick(s)}
  <1>5. s # {}
    BY <1>4
  <1>6. Pick(s) \in s
    BY <1>5 DEF Pick
  <1>7. Cardinality(rest) = Cardinality(s) - 1 /\ rest \in SUBSET S
    <2>1. IsFiniteSet(s)
      BY <1>1
    <2> QED BY <1>6, <2>1, FS_RemoveElement
  <1>8. rest \notin Good
    BY <1>4, <1>5
  <1>9. Cardinality(rest) \in Bad
    BY <1>7, <1>8
  <1> HIDE DEF rest, Bad
  <1> QED BY <1>1, <1>3, <1>4, <1>7, <1>9

\* The values of a fold on the subsets of a set.
IsFold(g, S, V, base, G) ==
    /\ g \in [SUBSET S -> V]
    /\ \A s \in SUBSET S : g[s] = IF s = {} THEN base ELSE G[<<Pick(s), g[s \ {Pick(s)}]>>]

\* A fold over a finite set is the value of a function on its subsets.
LEMMA FoldExists ==
    ASSUME NEW S, IsFiniteSet(S), NEW V, NEW base \in V, NEW G \in [S \X V -> V]
    PROVE  \E g : IsFold(g, S, V, base, G)
  <1> DEFINE Sub(n) == {s \in SUBSET S : Cardinality(s) <= n}
             Folds(g, n) == \A s \in Sub(n) :
                 g[s] = IF s = {} THEN base ELSE G[<<Pick(s), g[s \ {Pick(s)}]>>]
             Bad == {n \in Nat : ~ \E g \in [Sub(n) -> V] : Folds(g, n)}
  <1>1. \A s \in SUBSET S : IsFiniteSet(s) /\ Cardinality(s) \in Nat /\ (Cardinality(s) = 0 <=> s = {})
    BY FS_Subset, FS_CardinalityType, FS_EmptySet
  <1>2. \A s \in SUBSET S : s # {} => /\ Pick(s) \in s /\ s \ {Pick(s)} \in SUBSET S
                                      /\ Cardinality(s \ {Pick(s)}) = Cardinality(s) - 1
    <2> SUFFICES ASSUME NEW s \in SUBSET S, s # {}
                 PROVE  Pick(s) \in s /\ Cardinality(s \ {Pick(s)}) = Cardinality(s) - 1
      OBVIOUS
    <2>1. Pick(s) \in s
      BY DEF Pick
    <2>2. IsFiniteSet(s)
      BY <1>1
    <2> QED BY <2>1, <2>2, FS_RemoveElement
  <1>3. Bad = {}
    <2> SUFFICES ASSUME Bad # {} PROVE FALSE
      OBVIOUS
    <2> DEFINE n == Min(Bad)
    <2>1. n \in Bad /\ \A m \in Bad : n <= m
      BY Smallest
    <2>2. CASE n = 0
      <3> DEFINE g == [s \in Sub(0) |-> base]
      <3>1. \A s \in Sub(0) : s = {}
        BY <1>1
      <3>2. g \in [Sub(0) -> V] /\ Folds(g, 0)
        BY <3>1
      <3> HIDE DEF g, Folds
      <3> QED BY <2>1, <2>2, <3>2
    <2>3. CASE n # 0
      <3>1. n \in Nat /\ n - 1 \in Nat /\ n - 1 \notin Bad
        <4>1. n \in Nat
          BY <2>1
        <4> HIDE DEF Bad, n
        <4> QED BY <4>1, <2>1, <2>3
      <3> HIDE DEF n
      <3>2. PICK g \in [Sub(n - 1) -> V] : Folds(g, n - 1)
        BY <3>1
      <3> DEFINE h == [s \in Sub(n) |-> IF s = {} THEN base ELSE G[<<Pick(s), g[s \ {Pick(s)}]>>]]
      <3>3. \A s \in Sub(n) : s # {} => /\ Pick(s) \in S /\ s \ {Pick(s)} \in Sub(n - 1)
                                        /\ s \ {Pick(s)} \in Sub(n)
        BY <1>1, <1>2, <3>1
      <3>4. h \in [Sub(n) -> V]
        BY <3>3
      <3>5. \A s \in Sub(n - 1) : s \in Sub(n) /\ h[s] = g[s]
        BY <1>1, <3>1, <3>2
      <3>6. Folds(h, n)
        BY <3>3, <3>5
      <3> HIDE DEF h, Folds
      <3> QED BY <2>1, <3>4, <3>6 DEF n
    <2> QED BY <2>2, <2>3
  <1>4. Cardinality(S) \in Nat
    BY FS_CardinalityType
  <1>5. Sub(Cardinality(S)) = SUBSET S
    BY FS_Subset
  <1>6. PICK g \in [SUBSET S -> V] : Folds(g, Cardinality(S))
    <2>1. Cardinality(S) \notin Bad
      BY <1>3
    <2>2. \E g \in [Sub(Cardinality(S)) -> V] : Folds(g, Cardinality(S))
      BY <1>4, <2>1
    <2> HIDE DEF Sub, Folds
    <2> QED BY <1>5, <2>2
  <1>7. IsFold(g, S, V, base, G)
    BY <1>5, <1>6 DEF IsFold
  <1> QED BY <1>7

\* A sum of natural numbers is one.
LEMMA SumIsNatural ==
    ASSUME NEW S, IsFiniteSet(S), NEW f \in [S -> Nat]
    PROVE  SumFunction(f) \in Nat
  <1> DEFINE G == [z \in S \X Nat |-> f[z[1]] + z[2]]
             iter == CHOOSE g : g = [s \in SUBSET S |-> IF s = {} THEN 0 ELSE f[Pick(s)] + g[s \ {Pick(s)}]]
  <1>1. G \in [S \X Nat -> Nat]
    OBVIOUS
  <1>2. PICK g : IsFold(g, S, Nat, 0, G)
    <2> HIDE DEF G
    <2> QED BY <1>1, FoldExists
  <1>3. \A s \in SUBSET S : g[s] = IF s = {} THEN 0 ELSE f[Pick(s)] + g[s \ {Pick(s)}]
    <2> SUFFICES ASSUME NEW s \in SUBSET S, s # {}
                 PROVE  G[<<Pick(s), g[s \ {Pick(s)}]>>] = f[Pick(s)] + g[s \ {Pick(s)}]
      <3> HIDE DEF G
      <3> QED BY <1>2 DEF IsFold
    <2>1. Pick(s) \in S /\ s \ {Pick(s)} \in SUBSET S
      BY DEF Pick
    <2>2. g[s \ {Pick(s)}] \in Nat
      <3> HIDE DEF G
      <3> QED BY <1>2, <2>1 DEF IsFold
    <2> QED BY <2>1, <2>2
  <1>4. g = [s \in SUBSET S |-> IF s = {} THEN 0 ELSE f[Pick(s)] + g[s \ {Pick(s)}]]
    <2> HIDE DEF G
    <2> QED BY <1>2, <1>3 DEF IsFold
  <1>5. iter = [s \in SUBSET S |-> IF s = {} THEN 0 ELSE f[Pick(s)] + iter[s \ {Pick(s)}]]
    BY <1>4
  <1>6. SumFunction(f) = iter[S]
    BY DEF SumFunction, SumFunctionOnSet, FoldFunctionOnSet, MapThenFoldSet, Pick
  <1> HIDE DEF iter
  <1> DEFINE Good == {s \in SUBSET S : iter[s] \in Nat}
  <1>7. {} \in Good
    BY <1>5
  <1>8. \A s \in SUBSET S : s # {} /\ s \ {Pick(s)} \in Good => s \in Good
    <2> SUFFICES ASSUME NEW s \in SUBSET S, s # {}, s \ {Pick(s)} \in Good PROVE iter[s] \in Nat
      OBVIOUS
    <2>1. iter[s] = f[Pick(s)] + iter[s \ {Pick(s)}]
      BY <1>5
    <2>2. Pick(s) \in S
      BY DEF Pick
    <2> QED BY <2>1, <2>2
  <1>9. \A s \in SUBSET S : s \in Good
    <2> HIDE DEF Good
    <2> QED BY <1>7, <1>8, PickInduction
  <1> QED BY <1>6, <1>9

=============================================================================
