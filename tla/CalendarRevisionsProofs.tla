------------------------ MODULE CalendarRevisionsProofs ------------------------
(***************************************************************************)
(* The calendar writers keep positions distinct in every revision, and     *)
(* during the first setup numbered without a gap, with blocks that follow  *)
(* the breaks, and they do not fail: for any days, periods and bell times. *)
(***************************************************************************)
EXTENDS CalendarRevisions, NumberSets

-----------------------------------------------------------------------------
(* Numbers *)

\* A numbering of a finite set: 0, 1, ... with no gap and nothing twice.
Numbering(f) ==
    /\ f \in [DOMAIN f -> Nat] /\ IsFiniteSet(DOMAIN f)
    /\ IsInjective(f)
    /\ Contiguous(f)

\* Numbers that fill an interval from 0 number their set.
LEMMA FillsInterval ==
    ASSUME NEW f, f \in [DOMAIN f -> Nat], IsInjective(f), NEW n \in Nat, Range(f) = 0..(n - 1)
    PROVE  Numbering(f) /\ Cardinality(DOMAIN f) = n
  <1>1. f \in Bijection(DOMAIN f, 0..(n - 1)) /\ f \in Injection(DOMAIN f, 0..(n - 1))
        /\ f \in Surjection(DOMAIN f, 0..(n - 1))
    <2>1. f \in [DOMAIN f -> 0..(n - 1)]
      BY DEF Range
    <2>2. \A t \in 0..(n - 1) : \E s \in DOMAIN f : f[s] = t
      BY DEF Range
    <2> QED BY <2>1, <2>2 DEF Bijection, Injection, Surjection
  <1>2. IsFiniteSet(0..(n - 1)) /\ Cardinality(0..(n - 1)) = n
    BY FS_Interval
  <1>3. IsFiniteSet(DOMAIN f) /\ Cardinality(DOMAIN f) = n
    <2> DEFINE D == DOMAIN f
               T == 0..(n - 1)
    <2>1. f \in Injection(D, T) /\ f \in Surjection(D, T) /\ IsFiniteSet(T)
      BY <1>1, <1>2
    <2> HIDE DEF D, T
    <2>2. IsFiniteSet(D) /\ Cardinality(D) = Cardinality(T)
      BY <2>1, FS_Injection
    <2> QED BY <1>2, <2>2 DEF D, T
  <1> QED BY <1>3 DEF Numbering, Contiguous

\* The values of a numbering.
LEMMA NumberingValues ==
    ASSUME NEW f, Numbering(f)
    PROVE  /\ Cardinality(DOMAIN f) \in Nat
           /\ f \in [DOMAIN f -> 0..(Cardinality(DOMAIN f) - 1)]
           /\ \A k \in 0..(Cardinality(DOMAIN f) - 1) : \E x \in DOMAIN f : f[x] = k
           /\ \A x, y \in DOMAIN f : f[x] = f[y] => x = y
  <1>1. Cardinality(DOMAIN f) \in Nat
    BY FS_CardinalityType DEF Numbering
  <1> QED BY <1>1 DEF Numbering, Contiguous, Range, IsInjective

\* Counting what comes before is a numbering that follows the order.
LEMMA CountingNumbers ==
    ASSUME NEW S, IsFiniteSet(S), NEW B,
           \A x \in S : <<x, x>> \notin B,
           \A x, y, z \in S : <<x, y>> \in B /\ <<y, z>> \in B => <<x, z>> \in B,
           \A x, y \in S : x = y \/ <<x, y>> \in B \/ <<y, x>> \in B,
           NEW f, f = [y \in S |-> f[y]],
           \A y \in S : f[y] = Cardinality({x \in S : <<x, y>> \in B})
    PROVE  /\ Numbering(f)
           /\ \A x, y \in S : <<x, y>> \in B => f[x] < f[y]
  <1> DEFINE Before(y) == {x \in S : <<x, y>> \in B}
             n == Cardinality(S)
  <1>1. n \in Nat
    BY FS_CardinalityType
  <1>2. ASSUME NEW y \in S
        PROVE  IsFiniteSet(Before(y)) /\ f[y] = Cardinality(Before(y)) /\ f[y] \in 0..(n - 1)
    <2>1. IsFiniteSet(S \ {y}) /\ Cardinality(S \ {y}) = n - 1
      BY FS_RemoveElement
    <2>2. Before(y) \in SUBSET (S \ {y})
      OBVIOUS
    <2>3. IsFiniteSet(Before(y)) /\ Cardinality(Before(y)) <= n - 1
      <3> HIDE DEF Before
      <3> QED BY <2>1, <2>2, FS_Subset
    <2>4. Cardinality(Before(y)) \in Nat
      BY <2>3, FS_CardinalityType
    <2> QED BY <1>1, <2>3, <2>4
  <1>3. ASSUME NEW x \in S, NEW y \in S, <<x, y>> \in B
        PROVE  f[x] < f[y]
    <2>1. Before(x) \union {x} \in SUBSET Before(y) /\ x \notin Before(x)
      BY <1>3
    <2>2. IsFiniteSet(Before(x)) /\ IsFiniteSet(Before(y))
      BY <1>2
    <2>3. Cardinality(Before(x) \union {x}) = Cardinality(Before(x)) + 1
      <3> HIDE DEF Before
      <3> QED BY <2>1, <2>2, FS_AddElement
    <2>4. Cardinality(Before(x)) + 1 <= Cardinality(Before(y))
      <3> HIDE DEF Before
      <3> QED BY <2>1, <2>2, <2>3, FS_Subset
    <2>5. f[x] = Cardinality(Before(x)) /\ f[y] = Cardinality(Before(y)) /\ f[x] \in Int /\ f[y] \in Int
      <3> HIDE DEF n, Before
      <3> QED BY <1>2
    <2> QED BY <2>4, <2>5
  <1>4. DOMAIN f = S /\ f \in [S -> 0..(n - 1)]
    <2>1. \A y \in S : f[y] \in 0..(n - 1)
      <3> TAKE y \in S
      <3> HIDE DEF n, Before
      <3> QED BY <1>2
    <2>2. DOMAIN f = S /\ f = [y \in S |-> f[y]]
      OBVIOUS
    <2> HIDE DEF n
    <2> QED BY <2>1, <2>2
  <1>5. \A x, y \in S : f[x] = f[y] => x = y
    <2> SUFFICES ASSUME NEW x \in S, NEW y \in S, f[x] = f[y], x # y
                 PROVE  FALSE
      OBVIOUS
    <2>1. f[x] \in Int /\ f[y] \in Int
      BY <1>1, <1>4
    <2>2. f[x] < f[y] \/ f[y] < f[x]
      BY <1>3
    <2> QED BY <2>1, <2>2
  <1>6. IsInjective(f) /\ f \in Injection(S, 0..(n - 1))
    BY <1>4, <1>5 DEF IsInjective, Injection
  <1>7. IsFiniteSet(0..(n - 1)) /\ Cardinality(0..(n - 1)) = n
    BY <1>1, FS_Interval
  <1>8. f \in Surjection(S, 0..(n - 1))
    <2> DEFINE T == 0..(n - 1)
    <2>1. f \in Injection(S, T) /\ IsFiniteSet(T) /\ Cardinality(T) = Cardinality(S)
      BY <1>6, <1>7
    <2> HIDE DEF T
    <2>2. f \in Surjection(S, T)
      BY <2>1, FS_Injection
    <2> QED BY <2>2 DEF T
  <1>9. Range(f) = 0..(n - 1)
    <2>1. \A y \in S : f[y] \in 0..(n - 1)
      BY <1>4
    <2>2. \A k \in 0..(n - 1) : \E y \in S : f[y] = k
      BY <1>8 DEF Surjection
    <2> HIDE DEF n
    <2> QED BY <1>4, <2>1, <2>2 DEF Range
  <1>10. f \in [DOMAIN f -> Nat]
    BY <1>4
  <1>11. Contiguous(f)
    BY <1>4, <1>9 DEF Contiguous
  <1> QED BY <1>3, <1>4, <1>6, <1>10, <1>11 DEF Numbering

\* A numbering without one of its members, closed up.
LEMMA WithoutNumbers ==
    ASSUME NEW pos, Numbering(pos), NEW row \in DOMAIN pos
    PROVE  /\ DOMAIN Without(pos, row) = DOMAIN pos \ {row}
           /\ Numbering(Without(pos, row))
           /\ \A x, y \in DOMAIN pos \ {row} :
                    pos[x] < pos[y] => Without(pos, row)[x] < Without(pos, row)[y]
  <1> DEFINE f == Without(pos, row)
             n == Cardinality(DOMAIN pos)
  <1>1. /\ n \in Nat
        /\ \A x \in DOMAIN pos : pos[x] \in 0..(n - 1)
        /\ \A k \in 0..(n - 1) : \E x \in DOMAIN pos : pos[x] = k
        /\ \A x, y \in DOMAIN pos : pos[x] = pos[y] => x = y
    BY NumberingValues
  <1>2. DOMAIN f = DOMAIN pos \ {row}
    BY DEF Without
  <1>3. \A x \in DOMAIN f : f[x] = IF pos[x] > pos[row] THEN pos[x] - 1 ELSE pos[x]
    BY DEF Without
  <1>4. \A x \in DOMAIN f : x \in DOMAIN pos /\ pos[x] # pos[row]
    BY <1>1, <1>2
  <1> HIDE DEF f, n
  <1>5. \A x \in DOMAIN f : f[x] \in 0..(n - 2)
    BY <1>1, <1>3, <1>4
  <1>6. \A x, y \in DOMAIN f : pos[x] < pos[y] => f[x] < f[y]
    BY <1>1, <1>3, <1>4
  <1>7. \A x, y \in DOMAIN f : f[x] = f[y] => x = y
    BY <1>1, <1>3, <1>4
  <1>8. ASSUME NEW k \in 0..(n - 2)
        PROVE  \E x \in DOMAIN f : f[x] = k
    <2>1. CASE k < pos[row]
      <3>1. PICK x \in DOMAIN pos : pos[x] = k
        BY <1>1
      <3> QED BY <1>1, <1>2, <1>3, <2>1, <3>1
    <2>2. CASE k >= pos[row]
      <3>1. PICK x \in DOMAIN pos : pos[x] = k + 1
        BY <1>1
      <3> QED BY <1>1, <1>2, <1>3, <2>2, <3>1
    <2> QED BY <1>1, <2>1, <2>2
  <1>9. n - 1 \in Nat /\ n - 2 = (n - 1) - 1
    BY <1>1
  <1>10. f \in [DOMAIN f -> Nat] /\ IsInjective(f)
    <2>1. f = [x \in DOMAIN f |-> f[x]]
      BY DEF f, Without
    <2>2. \A x \in DOMAIN f : f[x] \in Nat
      BY <1>1, <1>5
    <2> QED BY <1>7, <2>1, <2>2 DEF IsInjective
  <1>11. Range(f) = 0..((n - 1) - 1)
    BY <1>5, <1>8, <1>9 DEF Range
  <1>12. Numbering(f)
    BY <1>9, <1>10, <1>11, FillsInterval
  <1> QED BY <1>2, <1>6, <1>12 DEF f

\* A numbering with two places exchanged.
LEMMA SwappedNumbers ==
    ASSUME NEW pos, Numbering(pos), NEW a \in DOMAIN pos, NEW b \in DOMAIN pos
    PROVE  DOMAIN Swapped(pos, a, b) = DOMAIN pos /\ Numbering(Swapped(pos, a, b))
  <1> DEFINE f == Swapped(pos, a, b)
             n == Cardinality(DOMAIN pos)
  <1>1. /\ n \in Nat
        /\ \A x \in DOMAIN pos : pos[x] \in 0..(n - 1)
        /\ \A k \in 0..(n - 1) : \E x \in DOMAIN pos : pos[x] = k
        /\ \A x, y \in DOMAIN pos : pos[x] = pos[y] => x = y
    BY NumberingValues
  <1>2. f = [x \in DOMAIN pos |-> IF x = b THEN pos[a] ELSE IF x = a THEN pos[b] ELSE pos[x]]
    BY DEF Swapped
  <1> HIDE DEF f, n
  <1>3. DOMAIN f = DOMAIN pos
    BY <1>2
  <1>4. \A x, y \in DOMAIN f : f[x] = f[y] => x = y
    BY <1>1, <1>2
  <1>5. \A x \in DOMAIN f : f[x] \in 0..(n - 1)
    BY <1>1, <1>2
  <1>6. ASSUME NEW k \in 0..(n - 1)
        PROVE  \E x \in DOMAIN f : f[x] = k
    <2>1. PICK x \in DOMAIN pos : pos[x] = k
      BY <1>1
    <2>2. CASE x = a
      BY <1>2, <2>1, <2>2
    <2>3. CASE x = b
      BY <1>2, <2>1, <2>3
    <2>4. CASE x # a /\ x # b
      BY <1>2, <2>1, <2>4
    <2> QED BY <2>2, <2>3, <2>4
  <1>7. f \in [DOMAIN f -> Nat] /\ IsInjective(f)
    <2>1. f = [x \in DOMAIN f |-> f[x]]
      BY <1>2
    <2>2. \A x \in DOMAIN f : f[x] \in Nat
      BY <1>1, <1>5
    <2> QED BY <1>4, <2>1, <2>2 DEF IsInjective
  <1>8. Range(f) = 0..(n - 1)
    BY <1>5, <1>6 DEF Range
  <1>9. Numbering(f)
    BY <1>1, <1>7, <1>8, FillsInterval
  <1> QED BY <1>3, <1>9 DEF f

\* A numbering with the next number for one more member.
LEMMA PutNumbers ==
    ASSUME NEW f, Numbering(f), NEW k, k \notin DOMAIN f
    PROVE  LET n == Cardinality(DOMAIN f)
           IN  n \notin Range(f) /\ Numbering(Put(f, k, n))
  <1> DEFINE n == Cardinality(DOMAIN f)
             g == Put(f, k, n)
  <1>1. /\ n \in Nat
        /\ \A x \in DOMAIN f : f[x] \in 0..(n - 1)
        /\ \A i \in 0..(n - 1) : \E x \in DOMAIN f : f[x] = i
        /\ \A x, y \in DOMAIN f : f[x] = f[y] => x = y
    BY NumberingValues
  <1>2. g = [i \in DOMAIN f \union {k} |-> IF i = k THEN n ELSE f[i]]
    BY DEF Put
  <1> HIDE DEF n, g
  <1>3. n \notin Range(f)
    BY <1>1 DEF Range
  <1>4. DOMAIN g = DOMAIN f \union {k} /\ g[k] = n /\ \A x \in DOMAIN f : g[x] = f[x]
    BY <1>2
  <1>5. \A x \in DOMAIN g : g[x] \in 0..n
    BY <1>1, <1>4
  <1>6. \A x, y \in DOMAIN g : g[x] = g[y] => x = y
    BY <1>1, <1>4
  <1>7. \A i \in 0..n : \E x \in DOMAIN g : g[x] = i
    <2> TAKE i \in 0..n
    <2>1. CASE i = n
      BY <1>4, <2>1
    <2>2. CASE i \in 0..(n - 1)
      BY <1>1, <1>4, <2>2
    <2> QED BY <1>1, <2>1, <2>2
  <1>8. g \in [DOMAIN g -> Nat] /\ IsInjective(g)
    <2>1. g = [x \in DOMAIN g |-> g[x]]
      BY <1>2
    <2>2. \A x \in DOMAIN g : g[x] \in Nat
      BY <1>1, <1>5
    <2> QED BY <1>6, <2>1, <2>2 DEF IsInjective
  <1>9. n + 1 \in Nat /\ (n + 1) - 1 = n
    BY <1>1
  <1>10. Range(g) = 0..((n + 1) - 1)
    BY <1>5, <1>7, <1>9 DEF Range
  <1>11. Numbering(g)
    BY <1>8, <1>9, <1>10, FillsInterval
  <1> QED BY <1>3, <1>11 DEF n, g

\* Two numberings of one set that agree in order are the same.
LEMMA SameOrderSameNumbers ==
    ASSUME NEW f, NEW g, Numbering(f), Numbering(g), DOMAIN f = DOMAIN g,
           \A x, y \in DOMAIN f : f[x] < f[y] => g[x] < g[y]
    PROVE  \A x \in DOMAIN f : f[x] = g[x]
  <1> DEFINE D == DOMAIN f
             n == Cardinality(D)
             K == {f[x] : x \in {y \in D : f[y] # g[y]}}
  <1>1. /\ n \in Nat
        /\ \A x \in D : f[x] \in 0..(n - 1) /\ g[x] \in 0..(n - 1)
        /\ \A k \in 0..(n - 1) : (\E x \in D : f[x] = k) /\ (\E x \in D : g[x] = k)
        /\ \A x, y \in D : (f[x] = f[y] => x = y) /\ (g[x] = g[y] => x = y)
    BY NumberingValues
  <1>2. \A x, y \in D : f[x] < f[y] => g[x] < g[y]
    OBVIOUS
  <1> HIDE DEF D, n
  <1>3. K \in SUBSET Nat
    BY <1>1
  <1> SUFFICES ASSUME K # {}
               PROVE  FALSE
    BY DEF D
  <1>4. Min(K) \in K /\ \A y \in K : Min(K) <= y
    BY <1>3, Smallest
  <1>5. PICK x \in D : f[x] = Min(K) /\ f[x] # g[x]
    BY <1>4
  <1>6. \A y \in D : f[y] < f[x] => f[y] = g[y]
    <2> SUFFICES ASSUME NEW y \in D, f[y] < f[x], f[y] # g[y]
                 PROVE  FALSE
      OBVIOUS
    <2>1. f[y] \in K
      OBVIOUS
    <2> HIDE DEF K
    <2> QED BY <1>1, <1>4, <1>5, <2>1
  <1>7. g[x] > f[x]
    <2>1. PICK y \in D : f[y] = g[x]
      BY <1>1
    <2> QED BY <1>1, <1>5, <1>6, <2>1
  <1>8. PICK z \in D : g[z] = f[x]
    BY <1>1
  <1>9. z # x /\ ~(f[z] < f[x]) /\ f[z] # f[x]
    BY <1>1, <1>5, <1>6, <1>8
  <1>10. f[x] < f[z]
    BY <1>1, <1>9
  <1>11. g[x] < g[z]
    BY <1>2, <1>10
  <1> QED BY <1>1, <1>7, <1>8, <1>11

\* The member that has a number.
LEMMA AtFound ==
    ASSUME NEW pos, Numbering(pos), NEW k \in 0..(Cardinality(DOMAIN pos) - 1)
    PROVE  At(pos, k) \in DOMAIN pos /\ pos[At(pos, k)] = k
  BY NumberingValues DEF At

\* The first row with a natural id.
LEMMA FirstRowFound ==
    ASSUME NEW pos, Numbering(pos), NEW row \in DOMAIN pos
    PROVE  LET first == FirstRow(pos, row[2])
           IN  first \in DOMAIN pos /\ first[2] = row[2] /\ pos[first] <= pos[row]
  <1> DEFINE S == {pos[x] : x \in {y \in DOMAIN pos : y[2] = row[2]}}
  <1>1. S \in SUBSET Nat /\ pos[row] \in S
    BY DEF Numbering
  <1>2. Min(S) \in S /\ Min(S) <= pos[row]
    BY <1>1, Smallest
  <1>3. PICK x \in DOMAIN pos : x[2] = row[2] /\ pos[x] = Min(S)
    BY <1>2
  <1>4. FirstRow(pos, row[2]) = x
    BY <1>3, NumberingValues DEF FirstRow, At
  <1> QED BY <1>2, <1>3, <1>4

-----------------------------------------------------------------------------
(* The rows of a table, their order, and what is written back. *)

\* In every revision, ids have positions, each its own.
NumberRows(table, Id) ==
    \A r \in RevisionId :
        /\ table[r] \in [DOMAIN table[r] -> Nat]
        /\ DOMAIN table[r] \subseteq Id
        /\ IsInjective(table[r])

\* The rows of all revisions.
LEMMA RowsAre ==
    ASSUME live \subseteq RevisionId, NEW Id, IsFiniteSet(Id), NEW table, NumberRows(table, Id)
    PROVE  /\ IsFiniteSet(Rows(table)) /\ Rows(table) \subseteq RevisionId \X Id
           /\ \A x \in Rows(table) :
                /\ x[1] \in live /\ x[1] \in RevisionId /\ x[2] \in DOMAIN table[x[1]]
                /\ x = <<x[1], x[2]>> /\ Idx(table, x) \in Nat
           /\ \A r \in RevisionId : \A id : <<r, id>> \in Rows(table) <=> r \in live /\ id \in DOMAIN table[r]
           /\ \A x, y \in Rows(table) : x[1] = y[1] /\ Idx(table, x) = Idx(table, y) => x = y
  <1>1. \A x \in Rows(table) : \E r \in live : r \in RevisionId /\ x \in {r} \X DOMAIN table[r]
    BY DEF Rows
  <1>2. \A r \in RevisionId : \A id : <<r, id>> \in Rows(table) <=> r \in live /\ id \in DOMAIN table[r]
    BY DEF Rows
  <1>3. ASSUME NEW x \in Rows(table)
        PROVE  /\ x[1] \in live /\ x[1] \in RevisionId /\ x[2] \in DOMAIN table[x[1]]
               /\ x = <<x[1], x[2]>> /\ x[2] \in Id /\ Idx(table, x) \in Nat
    <2>1. PICK r \in live : r \in RevisionId /\ x \in {r} \X DOMAIN table[r]
      BY <1>1
    <2>2. x[1] = r /\ x[2] \in DOMAIN table[r] /\ x = <<x[1], x[2]>>
      BY <2>1
    <2> QED BY <2>1, <2>2 DEF NumberRows, Idx
  <1>4. Rows(table) \subseteq RevisionId \X Id
    BY <1>3
  <1>5. IsFiniteSet(Rows(table))
    <2>1. IsFiniteSet(RevisionId)
      BY CalendarAssumption, FS_Interval DEF RevisionId
    <2>2. IsFiniteSet(RevisionId \X Id)
      BY <2>1, FS_Product
    <2> QED BY <1>4, <2>2, FS_Subset
  <1>6. ASSUME NEW x \in Rows(table), NEW y \in Rows(table), x[1] = y[1], Idx(table, x) = Idx(table, y)
        PROVE  x = y
    BY <1>3, <1>6 DEF NumberRows, IsInjective, Idx
  <1> QED BY <1>2, <1>3, <1>4, <1>5, <1>6

\* Whatever the database returns first among equals, sorting numbers the rows
\* and keeps the order within each revision.
LEMMA SortedNumbers ==
    ASSUME live \subseteq RevisionId, NEW Id, IsFiniteSet(Id), NEW table, NumberRows(table, Id),
           NEW pos \in Sorted(table)
    PROVE  /\ DOMAIN pos = Rows(table) /\ Numbering(pos)
           /\ \A x, y \in Rows(table) : Idx(table, x) < Idx(table, y) => pos[x] < pos[y]
  <1> DEFINE rows == Rows(table)
             ties == {Idx(table, x) : x \in {y \in rows : \E z \in rows : z # y /\ Idx(table, z) = Idx(table, y)}}
             before(x, y, rank) ==
                \/ Idx(table, x) < Idx(table, y)
                \/ /\ x # y /\ Idx(table, x) = Idx(table, y)
                   /\ rank[Idx(table, x)][x[1]] < rank[Idx(table, x)][y[1]]
  <1>1. PICK rank \in [ties -> Injection(live, 1..Cardinality(live))] :
            pos = [y \in rows |-> Cardinality({x \in rows : before(x, y, rank)})]
    BY DEF Sorted
  <1> DEFINE place(x) == rank[Idx(table, x)][x[1]]
             B == {p \in rows \X rows : before(p[1], p[2], rank)}
  <1>2. /\ IsFiniteSet(rows)
        /\ \A x \in rows : x[1] \in live /\ Idx(table, x) \in Nat
        /\ \A x, y \in rows : x[1] = y[1] /\ Idx(table, x) = Idx(table, y) => x = y
    BY RowsAre
  <1>3. ASSUME NEW x \in rows, NEW y \in rows, x # y, Idx(table, x) = Idx(table, y)
        PROVE  place(x) \in Int /\ place(y) \in Int /\ place(x) # place(y)
    <2>1. Idx(table, x) \in ties
      BY <1>3
    <2>2. rank[Idx(table, x)] \in Injection(live, 1..Cardinality(live))
      <3> HIDE DEF ties
      <3> QED BY <1>1, <2>1
    <2>3. x[1] # y[1] /\ x[1] \in live /\ y[1] \in live
      BY <1>2, <1>3
    <2> DEFINE h == rank[Idx(table, x)]
    <2>4. h \in [live -> 1..Cardinality(live)] /\ h[x[1]] # h[y[1]]
      BY <2>2, <2>3 DEF Injection, IsInjective
    <2>5. \A i \in 1..Cardinality(live) : i \in Int
      OBVIOUS
    <2>6. h[x[1]] \in Int /\ h[y[1]] \in Int
      <3> HIDE DEF h
      <3> QED BY <2>3, <2>4, <2>5
    <2> QED BY <1>3, <2>4, <2>6
  <1>4. \A x, y \in rows : <<x, y>> \in B <=> \/ Idx(table, x) < Idx(table, y)
                                              \/ x # y /\ Idx(table, x) = Idx(table, y) /\ place(x) < place(y)
    OBVIOUS
  <1>5. pos = [y \in rows |-> pos[y]] /\ \A y \in rows : pos[y] = Cardinality({x \in rows : <<x, y>> \in B})
    <2>1. \A y \in rows : {x \in rows : <<x, y>> \in B} = {x \in rows : before(x, y, rank)}
      OBVIOUS
    <2>2. \A y \in rows : pos[y] = Cardinality({x \in rows : before(x, y, rank)})
      BY <1>1
    <2>3. pos = [y \in rows |-> pos[y]]
      BY <1>1
    <2> HIDE DEF before, B
    <2> QED BY <2>1, <2>2, <2>3
  <1> HIDE DEF rows, B, place, before, ties
  <1>6. \A x \in rows : <<x, x>> \notin B
    BY <1>2, <1>4
  <1>7. \A x, y \in rows : x = y \/ <<x, y>> \in B \/ <<y, x>> \in B
    <2> SUFFICES ASSUME NEW x \in rows, NEW y \in rows, x # y
                 PROVE  <<x, y>> \in B \/ <<y, x>> \in B
      OBVIOUS
    <2>1. CASE Idx(table, x) = Idx(table, y)
      <3>1. place(x) < place(y) \/ place(y) < place(x)
        BY <1>3, <2>1
      <3> QED BY <1>4, <2>1, <3>1
    <2>2. CASE Idx(table, x) # Idx(table, y)
      <3>1. Idx(table, x) < Idx(table, y) \/ Idx(table, y) < Idx(table, x)
        BY <1>2, <2>2
      <3> QED BY <1>4, <3>1
    <2> QED BY <2>1, <2>2
  <1>8. ASSUME NEW x \in rows, NEW y \in rows, NEW z \in rows, <<x, y>> \in B, <<y, z>> \in B
        PROVE  <<x, z>> \in B
    <2>1. CASE Idx(table, x) = Idx(table, y) /\ Idx(table, y) = Idx(table, z)
      <3>1. x # y /\ y # z /\ place(x) < place(y) /\ place(y) < place(z)
        BY <1>2, <1>4, <1>8, <2>1
      <3>2. place(x) \in Int /\ place(y) \in Int /\ place(z) \in Int
        BY <1>3, <2>1, <3>1
      <3>3. place(x) < place(z) /\ x # z
        BY <3>1, <3>2
      <3> QED BY <1>4, <2>1, <3>3
    <2>2. CASE Idx(table, x) # Idx(table, y) \/ Idx(table, y) # Idx(table, z)
      <3>1. Idx(table, x) < Idx(table, z)
        BY <1>2, <1>4, <1>8, <2>2
      <3> QED BY <1>4, <3>1
    <2> QED BY <2>1, <2>2
  <1>9. Numbering(pos) /\ \A x, y \in rows : <<x, y>> \in B => pos[x] < pos[y]
    BY <1>2, <1>5, <1>6, <1>7, <1>8, CountingNumbers
  <1>10. DOMAIN pos = rows
    BY <1>5
  <1> QED BY <1>4, <1>9, <1>10 DEF rows

\* What is written back of numbered rows.
LEMMA ReindexedRows ==
    ASSUME NEW Id, NEW pos, pos \in [DOMAIN pos -> Nat], IsInjective(pos),
           DOMAIN pos \subseteq RevisionId \X Id
    PROVE  /\ NumberRows(Reindexed(pos), Id)
           /\ Reindexed(pos) = [r \in RevisionId |-> Reindexed(pos)[r]]
           /\ \A r \in RevisionId : \A id :
                /\ id \in DOMAIN Reindexed(pos)[r] <=> <<r, id>> \in DOMAIN pos
                /\ id \in DOMAIN Reindexed(pos)[r] => Reindexed(pos)[r][id] = pos[<<r, id>>]
  <1> DEFINE Ids(r) == {x[2] : x \in {y \in DOMAIN pos : y[1] = r}}
  <1>1. \A r \in RevisionId : \A id : id \in Ids(r) <=> <<r, id>> \in DOMAIN pos
    <2> SUFFICES ASSUME NEW r \in RevisionId, NEW id
                 PROVE  id \in Ids(r) <=> <<r, id>> \in DOMAIN pos
      OBVIOUS
    <2>1. ASSUME id \in Ids(r)
          PROVE  <<r, id>> \in DOMAIN pos
      <3>1. PICK x \in DOMAIN pos : x[1] = r /\ x[2] = id
        BY <2>1
      <3>2. x = <<x[1], x[2]>>
        OBVIOUS
      <3> QED BY <3>1, <3>2
    <2>2. ASSUME <<r, id>> \in DOMAIN pos
          PROVE  id \in Ids(r)
      BY <2>2
    <2> QED BY <2>1, <2>2
  <1>2. Reindexed(pos) = [r \in RevisionId |-> [id \in Ids(r) |-> pos[<<r, id>>]]]
    BY DEF Reindexed
  <1> HIDE DEF Ids
  <1>3. Reindexed(pos) = [r \in RevisionId |-> Reindexed(pos)[r]]
    BY <1>2
  <1>4. ASSUME NEW r \in RevisionId
        PROVE  /\ Reindexed(pos)[r] = [id \in Ids(r) |-> pos[<<r, id>>]]
               /\ DOMAIN Reindexed(pos)[r] = Ids(r)
               /\ \A id \in Ids(r) : Reindexed(pos)[r][id] = pos[<<r, id>>]
    BY <1>2
  <1>5. ASSUME NEW r \in RevisionId
        PROVE  /\ Reindexed(pos)[r] \in [DOMAIN Reindexed(pos)[r] -> Nat]
               /\ DOMAIN Reindexed(pos)[r] \subseteq Id
               /\ IsInjective(Reindexed(pos)[r])
    <2> DEFINE f == Reindexed(pos)[r]
    <2>1. f = [id \in Ids(r) |-> pos[<<r, id>>]] /\ DOMAIN f = Ids(r) /\ \A id \in Ids(r) : f[id] = pos[<<r, id>>]
      BY <1>4
    <2>2. \A id \in Ids(r) : pos[<<r, id>>] \in Nat
      BY <1>1
    <2>3. Ids(r) \subseteq Id
      <3>1. \A id \in Ids(r) : <<r, id>> \in RevisionId \X Id
        BY <1>1
      <3> QED BY <3>1
    <2>4. \A a, b \in Ids(r) : pos[<<r, a>>] = pos[<<r, b>>] => a = b
      BY <1>1 DEF IsInjective
    <2> HIDE DEF f
    <2>5. f \in [DOMAIN f -> Nat] /\ DOMAIN f \subseteq Id /\ IsInjective(f)
      BY <2>1, <2>2, <2>3, <2>4 DEF IsInjective
    <2> QED BY <2>5 DEF f
  <1>6. NumberRows(Reindexed(pos), Id)
    BY <1>5 DEF NumberRows
  <1> QED BY <1>1, <1>3, <1>4, <1>6

\* A move that was allowed finds a row on the other side, though the rows of
\* all revisions are in one list.
LEMMA NeighbourFound ==
    ASSUME live \subseteq RevisionId, draft \in live, NEW Id, IsFiniteSet(Id), NEW table, NumberRows(table, Id),
           NEW pos \in Sorted(table), NEW id \in DOMAIN table[draft], NEW direction \in {"up", "down"},
           CanMove(table, id, direction)
    PROVE  LET a == FirstRow(pos, id)
               b == Neighbour(pos, a, direction)
           IN  a \in DOMAIN pos /\ a[2] = id /\ b \in DOMAIN pos /\ a # b
  <1> DEFINE row == <<draft, id>>
             a == FirstRow(pos, id)
             n == Cardinality(DOMAIN pos)
             k == CASE direction = "down" -> pos[a] + 1
                    [] direction = "up" /\ pos[a] > 0 -> pos[a] - 1
                    [] OTHER -> n - 1
  <1>1. PICK other \in DOMAIN table[draft] :
            IF direction = "up" THEN table[draft][other] < table[draft][id]
                                ELSE table[draft][other] > table[draft][id]
    BY DEF CanMove
  <1>2. /\ DOMAIN pos = Rows(table) /\ Numbering(pos)
        /\ \A x, y \in Rows(table) : Idx(table, x) < Idx(table, y) => pos[x] < pos[y]
    BY SortedNumbers
  <1>3. row \in DOMAIN pos /\ <<draft, other>> \in DOMAIN pos
    BY <1>2, RowsAre
  <1>4. a \in DOMAIN pos /\ a[2] = id /\ pos[a] <= pos[row]
    BY <1>2, <1>3, FirstRowFound
  <1>5. n \in Nat /\ \A x \in DOMAIN pos : pos[x] \in 0..(n - 1)
    BY <1>2, NumberingValues
  <1>6. IF direction = "up" THEN pos[<<draft, other>>] < pos[row] ELSE pos[row] < pos[<<draft, other>>]
    <2>1. Idx(table, row) = table[draft][id] /\ Idx(table, <<draft, other>>) = table[draft][other]
      BY DEF Idx
    <2>2. table[draft][id] \in Nat /\ table[draft][other] \in Nat
      BY DEF NumberRows
    <2> QED BY <1>1, <1>2, <1>3, <2>1, <2>2
  <1> HIDE DEF n, a, row
  <1>7. k \in 0..(n - 1) /\ k # pos[a]
    BY <1>3, <1>4, <1>5, <1>6
  <1>8. At(pos, k) \in DOMAIN pos /\ pos[At(pos, k)] = k
    <2> HIDE DEF k
    <2> QED BY <1>2, <1>7, AtFound DEF n
  <1>9. Neighbour(pos, a, direction) = At(pos, k)
    BY DEF Neighbour, n
  <1> HIDE DEF k
  <1> QED BY <1>4, <1>7, <1>8, <1>9 DEF a

-----------------------------------------------------------------------------
(* Block numbers and break markers *)

\* The marker of a period with positions idx and block numbers block.
MarkerIn(idx, block, id) ==
    LET earlier == {other \in DOMAIN idx : idx[other] < idx[id]}
    IN  \A other \in earlier :
            (\A third \in earlier : idx[third] <= idx[other]) => block[other] # block[id]

\* Blocks start at 0 and go up by one at most.
BlocksFollow(idx, block) ==
    \A p, q \in DOMAIN idx :
        /\ idx[p] = 0 => block[p] = 0
        /\ idx[q] = idx[p] + 1 => block[q] \in {block[p], block[p] + 1}

\* The places where a block starts, as in BlockNumbers.
Starts(pos, marker) ==
    {k \in 0..(Cardinality(DOMAIN pos) - 1) :
        k = 0 \/ (At(pos, k)[2] \in DOMAIN marker /\ marker[At(pos, k)[2]])}

\* The place that counts for a row: the last one with its natural id.
LastPlace(pos, x) == Max({pos[z] : z \in {y \in DOMAIN pos : y[2] = x[2]}})

\* How many blocks start up to a place.
LEMMA StartsCount ==
    ASSUME NEW pos, Numbering(pos), NEW marker
    PROVE  \A k \in 0..(Cardinality(DOMAIN pos) - 1) :
                LET S == {i \in Starts(pos, marker) : i <= k}
                IN  /\ IsFiniteSet(S) /\ Cardinality(S) \in Nat \ {0}
                    /\ k = 0 => Cardinality(S) = 1
                    /\ k > 0 => Cardinality(S) = Cardinality({i \in Starts(pos, marker) : i <= k - 1})
                                                    + IF k \in Starts(pos, marker) THEN 1 ELSE 0
  <1> DEFINE n == Cardinality(DOMAIN pos)
             all == Starts(pos, marker)
             Upto(k) == {i \in all : i <= k}
  <1>1. n \in Nat
    BY NumberingValues
  <1>2. all \subseteq 0..(n - 1) /\ (n > 0 => 0 \in all)
    BY <1>1 DEF Starts
  <1>3. IsFiniteSet(all)
    <2> HIDE DEF n, all
    <2>1. IsFiniteSet(0..(n - 1))
      BY <1>1, FS_Interval
    <2> QED BY <1>2, <2>1, FS_Subset
  <1> HIDE DEF n, all
  <1> SUFFICES ASSUME NEW k \in 0..(n - 1)
               PROVE  /\ IsFiniteSet(Upto(k)) /\ Cardinality(Upto(k)) \in Nat \ {0}
                      /\ k = 0 => Cardinality(Upto(k)) = 1
                      /\ k > 0 => Cardinality(Upto(k)) = Cardinality(Upto(k - 1)) + IF k \in all THEN 1 ELSE 0
    BY DEF n, all
  <1>4. \A i \in Int : IsFiniteSet(Upto(i)) /\ Cardinality(Upto(i)) \in Nat
    <2> TAKE i \in Int
    <2>1. Upto(i) \in SUBSET all
      OBVIOUS
    <2>2. IsFiniteSet(Upto(i))
      <3> HIDE DEF Upto
      <3> QED BY <1>3, <2>1, FS_Subset
    <2> QED BY <2>2, FS_CardinalityType
  <1>5. 0 \in Upto(k) /\ k \in Int /\ k - 1 \in Int /\ 0 <= k /\ \A i \in all : i \in Int /\ 0 <= i
    BY <1>1, <1>2
  <1>6. Cardinality(Upto(k)) # 0
    <2> HIDE DEF Upto
    <2> QED BY <1>4, <1>5, FS_EmptySet
  <1>7. ASSUME k = 0
        PROVE  Cardinality(Upto(k)) = 1
    <2>1. \A i : i \in Upto(k) <=> i = 0
      BY <1>5, <1>7
    <2>2. Upto(k) = {0}
      <3> HIDE DEF Upto
      <3> QED BY <2>1
    <2> HIDE DEF Upto
    <2> QED BY <2>2, FS_Singleton
  <1>8. ASSUME k > 0
        PROVE  Cardinality(Upto(k)) = Cardinality(Upto(k - 1)) + IF k \in all THEN 1 ELSE 0
    <2>1. CASE k \in all
      <3>1. \A i \in all : i <= k <=> i <= k - 1 \/ i = k
        BY <1>5
      <3>2. k \notin Upto(k - 1)
        BY <1>5
      <3>3. Upto(k) \subseteq Upto(k - 1) \union {k}
        BY <3>1
      <3>4. Upto(k - 1) \union {k} \subseteq Upto(k)
        BY <2>1, <3>1
      <3> HIDE DEF Upto
      <3>5. Upto(k) = Upto(k - 1) \union {k}
        BY <3>3, <3>4
      <3>6. Cardinality(Upto(k)) = Cardinality(Upto(k - 1)) + 1
        BY <1>4, <1>5, <3>2, <3>5, FS_AddElement
      <3> QED BY <2>1, <3>6
    <2>2. CASE k \notin all
      <3>1. \A i : i \in Upto(k) <=> i \in Upto(k - 1)
        BY <1>5, <2>2
      <3> HIDE DEF Upto
      <3>2. Upto(k) = Upto(k - 1)
        BY <3>1
      <3> QED BY <1>4, <1>5, <2>2, <3>2
    <2> QED BY <2>1, <2>2
  <1> HIDE DEF Upto
  <1> QED BY <1>4, <1>5, <1>6, <1>7, <1>8

\* The place that counts is one of the row's own or of its namesakes.
LEMMA LastPlaceIn ==
    ASSUME NEW pos, Numbering(pos), NEW x \in DOMAIN pos
    PROVE  /\ LastPlace(pos, x) \in 0..(Cardinality(DOMAIN pos) - 1)
           /\ (\A y \in DOMAIN pos : y[2] = x[2] => y = x) => LastPlace(pos, x) = pos[x]
  <1> DEFINE n == Cardinality(DOMAIN pos)
             S == {pos[z] : z \in {y \in DOMAIN pos : y[2] = x[2]}}
  <1>1. n \in Nat /\ \A z \in DOMAIN pos : pos[z] \in 0..(n - 1)
    BY NumberingValues
  <1> HIDE DEF n
  <1>2. S \in SUBSET (0..(n - 1)) /\ S # {}
    BY <1>1
  <1>3. n - 1 \in Nat
    BY <1>1, <1>2
  <1>4. Max(S) \in S
    <2> DEFINE m == n - 1
    <2>1. m \in Nat /\ S \in SUBSET (0..m) /\ S # {}
      BY <1>2, <1>3
    <2> HIDE DEF m, S
    <2> QED BY <2>1, Largest
  <1>5. LastPlace(pos, x) = Max(S)
    BY DEF LastPlace
  <1>6. (\A y \in DOMAIN pos : y[2] = x[2] => y = x) => S = {pos[x]}
    OBVIOUS
  <1>7. (\A y \in DOMAIN pos : y[2] = x[2] => y = x) => Max(S) = pos[x]
    BY <1>4, <1>6
  <1> HIDE DEF S
  <1> QED BY <1>2, <1>4, <1>5, <1>7 DEF n

\* Every row gets a block number.
LEMMA BlockNumbersTyped ==
    ASSUME NEW pos, Numbering(pos), NEW marker
    PROVE  /\ BlockNumbers(pos, marker) \in [DOMAIN pos -> Nat]
           /\ \A x \in DOMAIN pos : BlockNumbers(pos, marker)[x] =
                    Cardinality({k \in Starts(pos, marker) : k <= LastPlace(pos, x)}) - 1
  <1> DEFINE b == [x \in DOMAIN pos |->
                    Cardinality({k \in Starts(pos, marker) : k <= LastPlace(pos, x)}) - 1]
  <1>1. BlockNumbers(pos, marker) = b
    BY DEF BlockNumbers, Starts, LastPlace
  <1>2. ASSUME NEW x \in DOMAIN pos
        PROVE  b[x] \in Nat
    <2>1. LastPlace(pos, x) \in 0..(Cardinality(DOMAIN pos) - 1)
      BY LastPlaceIn
    <2>2. Cardinality({k \in Starts(pos, marker) : k <= LastPlace(pos, x)}) \in Nat \ {0}
      BY <2>1, StartsCount
    <2>3. \A c \in Nat \ {0} : c - 1 \in Nat
      OBVIOUS
    <2> QED BY <2>2, <2>3
  <1>3. \A x \in DOMAIN pos : b[x] = Cardinality({k \in Starts(pos, marker) : k <= LastPlace(pos, x)}) - 1
    OBVIOUS
  <1>4. b = [x \in DOMAIN pos |-> b[x]]
    OBVIOUS
  <1> HIDE DEF b
  <1>5. b \in [DOMAIN pos -> Nat]
    BY <1>2, <1>4
  <1> QED BY <1>1, <1>3, <1>5

\* Where natural ids are unique, blocks are runs that start at the markers.
LEMMA BlocksStartAtMarkers ==
    ASSUME NEW pos, Numbering(pos), \A x, y \in DOMAIN pos : x[2] = y[2] => x = y, NEW marker
    PROVE  LET b == BlockNumbers(pos, marker)
           IN  \A x, y \in DOMAIN pos :
                /\ pos[x] = 0 => b[x] = 0
                /\ pos[y] = pos[x] + 1 =>
                        b[y] = b[x] + IF y[2] \in DOMAIN marker /\ marker[y[2]] THEN 1 ELSE 0
  <1> DEFINE b == BlockNumbers(pos, marker)
             n == Cardinality(DOMAIN pos)
             C(k) == Cardinality({i \in Starts(pos, marker) : i <= k})
  <1>1. \A x \in DOMAIN pos : b[x] = C(pos[x]) - 1
    BY BlockNumbersTyped, LastPlaceIn
  <1>2. n \in Nat /\ \A x \in DOMAIN pos : pos[x] \in 0..(n - 1)
    BY NumberingValues
  <1>3. \A k \in 0..(n - 1) : /\ C(k) \in Nat
                              /\ k = 0 => C(k) = 1
                              /\ k > 0 => C(k) = C(k - 1) + IF k \in Starts(pos, marker) THEN 1 ELSE 0
    <2> TAKE k \in 0..(n - 1)
    <2>1. C(k) \in Nat \ {0} /\ (k = 0 => C(k) = 1)
      BY StartsCount, Zenon
    <2>2. k > 0 => C(k) = C(k - 1) + IF k \in Starts(pos, marker) THEN 1 ELSE 0
      BY StartsCount, Zenon
    <2> HIDE DEF C
    <2> QED BY <2>1, <2>2
  <1>4. \A y \in DOMAIN pos : pos[y] > 0 =>
            (pos[y] \in Starts(pos, marker) <=> y[2] \in DOMAIN marker /\ marker[y[2]])
    <2> TAKE y \in DOMAIN pos
    <2>1. pos[y] \in 0..(n - 1)
      BY <1>2
    <2>2. At(pos, pos[y]) = y
      BY <2>1, AtFound, NumberingValues
    <2> QED BY <2>1, <2>2 DEF Starts
  <1> HIDE DEF C, b, n
  <1> SUFFICES ASSUME NEW x \in DOMAIN pos, NEW y \in DOMAIN pos
               PROVE  /\ pos[x] = 0 => b[x] = 0
                      /\ pos[y] = pos[x] + 1 =>
                            b[y] = b[x] + IF y[2] \in DOMAIN marker /\ marker[y[2]] THEN 1 ELSE 0
    BY DEF b
  <1>5. pos[x] \in 0..(n - 1) /\ pos[y] \in 0..(n - 1)
    BY <1>2
  <1>6. pos[x] = 0 => b[x] = 0
    BY <1>1, <1>3, <1>5
  <1>7. ASSUME pos[y] = pos[x] + 1
        PROVE  b[y] = b[x] + IF y[2] \in DOMAIN marker /\ marker[y[2]] THEN 1 ELSE 0
    <2>1. pos[y] > 0 /\ pos[y] - 1 = pos[x]
      BY <1>5, <1>7
    <2>2. C(pos[y]) = C(pos[x]) + IF pos[y] \in Starts(pos, marker) THEN 1 ELSE 0
      BY <1>3, <1>5, <2>1
    <2>3. b[y] = C(pos[y]) - 1 /\ b[x] = C(pos[x]) - 1 /\ C(pos[x]) \in Nat /\ C(pos[y]) \in Nat
      BY <1>1, <1>3, <1>5
    <2>4. CASE pos[y] \in Starts(pos, marker)
      <3>1. C(pos[y]) = C(pos[x]) + 1
        BY <2>2, <2>4
      <3>2. y[2] \in DOMAIN marker /\ marker[y[2]]
        BY <1>4, <2>1, <2>4
      <3> QED BY <2>3, <3>1, <3>2
    <2>5. CASE pos[y] \notin Starts(pos, marker)
      <3>1. C(pos[y]) = C(pos[x])
        BY <2>2, <2>3, <2>5
      <3>2. ~(y[2] \in DOMAIN marker /\ marker[y[2]])
        BY <1>4, <2>1, <2>5
      <3> QED BY <2>3, <3>1, <3>2
    <2> QED BY <2>4, <2>5
  <1> QED BY <1>6, <1>7

\* A period has a marker when its block is not that of the one before.
LEMMA MarkerIsBlockStart ==
    ASSUME NEW idx, Numbering(idx), NEW block, NEW p \in DOMAIN idx, NEW id \in DOMAIN idx,
           idx[id] = idx[p] + 1
    PROVE  MarkerIn(idx, block, id) <=> block[p] # block[id]
  <1> DEFINE earlier == {other \in DOMAIN idx : idx[other] < idx[id]}
  <1>1. \A x \in DOMAIN idx : idx[x] \in Nat
    BY DEF Numbering
  <1>2. p \in earlier /\ \A third \in earlier : idx[third] <= idx[p]
    BY <1>1
  <1>3. ASSUME NEW other \in earlier, \A third \in earlier : idx[third] <= idx[other]
        PROVE  other = p
    <2>1. idx[other] = idx[p]
      BY <1>1, <1>2, <1>3
    <2> QED BY <2>1 DEF Numbering, IsInjective
  <1>4. MarkerIn(idx, block, id) <=>
            \A other \in earlier : (\A third \in earlier : idx[third] <= idx[other]) => block[other] # block[id]
    BY DEF MarkerIn
  <1> HIDE DEF earlier
  <1> QED BY <1>2, <1>3, <1>4

\* What is written back of a calendar with one revision is a numbering.
LEMMA SetupReindexed ==
    ASSUME NEW pos, Numbering(pos), NEW Id, DOMAIN pos \subseteq {1} \X Id
    PROVE  Numbering(Reindexed(pos)[1])
  <1> DEFINE idx == Reindexed(pos)[1]
             n == Cardinality(DOMAIN pos)
  <1>1. 1 \in RevisionId
    BY CalendarAssumption DEF RevisionId
  <1>2. /\ pos \in [DOMAIN pos -> Nat] /\ IsInjective(pos)
        /\ DOMAIN pos \subseteq RevisionId \X Id
    BY <1>1 DEF Numbering
  <1>3. /\ NumberRows(Reindexed(pos), Id)
        /\ \A id : /\ id \in DOMAIN idx <=> <<1, id>> \in DOMAIN pos
                   /\ id \in DOMAIN idx => idx[id] = pos[<<1, id>>]
    BY <1>1, <1>2, ReindexedRows
  <1>4. \A x \in DOMAIN pos : x = <<1, x[2]>> /\ x[2] \in DOMAIN idx
    BY <1>3
  <1>5. /\ n \in Nat
        /\ \A x \in DOMAIN pos : pos[x] \in 0..(n - 1)
        /\ \A k \in 0..(n - 1) : \E x \in DOMAIN pos : pos[x] = k
    BY NumberingValues
  <1>6. idx \in [DOMAIN idx -> Nat] /\ IsInjective(idx)
    BY <1>1, <1>3 DEF NumberRows
  <1> HIDE DEF idx, n
  <1>7. Range(idx) = 0..(n - 1)
    <2>1. \A id \in DOMAIN idx : idx[id] \in 0..(n - 1)
      BY <1>3, <1>5
    <2>2. \A k \in 0..(n - 1) : \E id \in DOMAIN idx : idx[id] = k
      BY <1>3, <1>4, <1>5
    <2> QED BY <2>1, <2>2 DEF Range
  <1>8. Numbering(idx)
    BY <1>5, <1>6, <1>7, FillsInterval
  <1> QED BY <1>8 DEF idx

\* What a period write leaves of a calendar with one revision.
LEMMA SetupWritten ==
    ASSUME NEW pos, Numbering(pos), NEW Id, DOMAIN pos \subseteq {1} \X Id, NEW marker
    PROVE  LET idx == Reindexed(pos)[1]
               block == Reindexed(BlockNumbers(pos, marker))[1]
           IN  /\ Numbering(idx) /\ BlocksFollow(idx, block)
               /\ \A id \in DOMAIN idx : idx[id] # 0 =>
                    (MarkerIn(idx, block, id) <=> id \in DOMAIN marker /\ marker[id])
  <1> DEFINE idx == Reindexed(pos)[1]
             b == BlockNumbers(pos, marker)
             block == Reindexed(b)[1]
  <1>1. 1 \in RevisionId
    BY CalendarAssumption DEF RevisionId
  <1>2. /\ pos \in [DOMAIN pos -> Nat] /\ IsInjective(pos)
        /\ DOMAIN pos \subseteq RevisionId \X Id
    BY <1>1 DEF Numbering
  <1>3. /\ NumberRows(Reindexed(pos), Id)
        /\ \A id : /\ id \in DOMAIN idx <=> <<1, id>> \in DOMAIN pos
                   /\ id \in DOMAIN idx => idx[id] = pos[<<1, id>>]
    BY <1>1, <1>2, ReindexedRows
  <1>4. b \in [DOMAIN pos -> Nat]
    BY BlockNumbersTyped
  <1>5. \A id \in DOMAIN idx : block[id] = b[<<1, id>>]
    <2> TAKE id \in DOMAIN idx
    <2>1. <<1, id>> \in DOMAIN b
      BY <1>3, <1>4
    <2> HIDE DEF b, idx
    <2>2. id \in {x[2] : x \in {y \in DOMAIN b : y[1] = 1}}
      BY <2>1
    <2> QED BY <1>1, <2>2 DEF Reindexed
  <1>6. \A x \in DOMAIN pos : x = <<1, x[2]>> /\ x[2] \in DOMAIN idx
    BY <1>3
  <1>7. idx \in [DOMAIN idx -> Nat] /\ IsInjective(idx)
    BY <1>1, <1>3 DEF NumberRows
  <1> HIDE DEF idx, b, block
  <1>8. Numbering(idx)
    BY SetupReindexed DEF idx
  <1>9. \A x, y \in DOMAIN pos :
            /\ pos[x] = 0 => b[x] = 0
            /\ pos[y] = pos[x] + 1 =>
                    b[y] = b[x] + IF y[2] \in DOMAIN marker /\ marker[y[2]] THEN 1 ELSE 0
    <2>1. \A x, y \in DOMAIN pos : x[2] = y[2] => x = y
      BY <1>6
    <2> QED BY <2>1, BlocksStartAtMarkers DEF b
  <1>10. \A p, q \in DOMAIN idx :
            /\ idx[p] = 0 => block[p] = 0
            /\ idx[q] = idx[p] + 1 =>
                    block[q] = block[p] + IF q \in DOMAIN marker /\ marker[q] THEN 1 ELSE 0
    <2> SUFFICES ASSUME NEW p \in DOMAIN idx, NEW q \in DOMAIN idx
                 PROVE  /\ idx[p] = 0 => block[p] = 0
                        /\ idx[q] = idx[p] + 1 =>
                            block[q] = block[p] + IF q \in DOMAIN marker /\ marker[q] THEN 1 ELSE 0
      OBVIOUS
    <2> DEFINE x == <<1, p>>
               y == <<1, q>>
    <2>1. /\ x \in DOMAIN pos /\ y \in DOMAIN pos /\ y[2] = q
          /\ idx[p] = pos[x] /\ idx[q] = pos[y] /\ block[p] = b[x] /\ block[q] = b[y]
      BY <1>3, <1>5
    <2> HIDE DEF x, y
    <2> QED BY <1>9, <2>1
  <1>11. \A p \in DOMAIN idx : block[p] \in Nat
    BY <1>3, <1>4, <1>5
  <1>12. BlocksFollow(idx, block)
    BY <1>10, <1>11 DEF BlocksFollow
  <1>13. ASSUME NEW id \in DOMAIN idx, idx[id] # 0
         PROVE  MarkerIn(idx, block, id) <=> id \in DOMAIN marker /\ marker[id]
    <2>1. idx[id] \in 0..(Cardinality(DOMAIN idx) - 1)
      BY <1>8, NumberingValues
    <2>2. idx[id] - 1 \in 0..(Cardinality(DOMAIN idx) - 1)
      <3>1. Cardinality(DOMAIN idx) \in Nat
        BY <1>8, NumberingValues
      <3> QED BY <1>13, <2>1, <3>1
    <2>3. PICK p \in DOMAIN idx : idx[p] = idx[id] - 1
      BY <1>8, <2>2, NumberingValues
    <2>4. idx[id] = idx[p] + 1
      BY <1>7, <2>3
    <2>5. MarkerIn(idx, block, id) <=> block[p] # block[id]
      BY <1>8, <2>4, MarkerIsBlockStart
    <2>6. block[id] = block[p] + IF id \in DOMAIN marker /\ marker[id] THEN 1 ELSE 0
      BY <1>10, <2>4
    <2>7. block[p] \in Nat
      BY <1>11
    <2>8. CASE id \in DOMAIN marker /\ marker[id]
      <3>1. block[id] = block[p] + 1
        BY <2>6, <2>8
      <3> QED BY <2>5, <2>7, <2>8, <3>1
    <2>9. CASE ~(id \in DOMAIN marker /\ marker[id])
      <3>1. block[id] = block[p]
        BY <2>6, <2>7, <2>9
      <3> QED BY <2>5, <2>9, <3>1
    <2> QED BY <2>8, <2>9
  <1> QED BY <1>8, <1>12, <1>13 DEF idx, b, block

-----------------------------------------------------------------------------
(* The inductive invariant *)

\* The revisions of the year and its two pointers.
Pointers ==
    /\ live \subseteq RevisionId /\ 1 \in live
    /\ draft \in live \union {NULL} /\ published \in live \union {NULL}
    /\ draft = NULL => published # NULL
    /\ published # NULL => draft # published /\ draft # 1

\* Only revisions that exist have rows, and a period's row is complete.
RowsInPlace ==
    /\ days = [r \in RevisionId |-> days[r]] /\ periods = [r \in RevisionId |-> periods[r]]
    /\ blocks = [r \in RevisionId |-> blocks[r]] /\ bells = [r \in RevisionId |-> bells[r]]
    /\ NumberRows(days, DayId) /\ NumberRows(periods, PeriodId)
    /\ \A r \in RevisionId :
        /\ blocks[r] \in [DOMAIN periods[r] -> Nat]
        /\ bells[r] \in [DOMAIN periods[r] -> Bell \union {NoBell}]
        /\ r \notin live => DOMAIN days[r] = {} /\ DOMAIN periods[r] = {}

\* The first setup has one revision, and its calendar the shape of a timetable.
InSetup ==
    /\ live = {1} /\ draft = 1
    /\ outcome = "done"
    /\ Contiguous(days[1]) /\ Contiguous(periods[1])
    /\ BlocksFollow(periods[1], blocks[1])

CalendarInv ==
    /\ Pointers
    /\ RowsInPlace
    /\ outcome \in {"done", "failed"}
    /\ FirstSetup => InSetup

\* What the steps of the two action properties may do.
BreakStep ==
    (FirstSetup /\ FirstSetup' /\ periods' # periods) =>
        \A id \in DOMAIN periods[1] \intersect DOMAIN periods'[1] :
            periods'[1][id] # 0 => Markers(1)'[id] = Markers(1)[id]

ClockStep ==
    \/ ClockOverlaps(periods[1], bells[1]) # {}
    \/ ClockOverlaps(periods'[1], bells'[1]) = {}
    \/ DOMAIN periods'[1] = DOMAIN periods[1] /\ periods'[1] # periods[1]
    \/ \E id \in DOMAIN periods[1] \ DOMAIN periods'[1] : bells[1][id] = NoBell

\* The first revision keeps its periods, or they only change places.
PeriodsKept ==
    /\ periods'[1] = periods[1] => bells'[1] = bells[1]
    /\ DOMAIN periods'[1] = DOMAIN periods[1]
    /\ FirstSetup /\ FirstSetup' => periods' = periods

\* A step that keeps the periods is allowed by both properties.
LEMMA KeptPeriodsAllowed ==
    ASSUME PeriodsKept
    PROVE  BreakStep /\ ClockStep
  BY DEF PeriodsKept, BreakStep, ClockStep

\* Facts of the pointers.
LEMMA PointerFacts ==
    ASSUME Pointers
    PROVE  /\ 1 \in RevisionId /\ NULL \notin RevisionId /\ live \subseteq RevisionId
           /\ draft # NULL => draft \in live /\ draft \in RevisionId
           /\ published # NULL => published \in live /\ published \in RevisionId
  BY CalendarAssumption DEF Pointers, RevisionId, NULL

\* A write that fails is one beside a published revision.
LEMMA FailureKeepsInv ==
    ASSUME CalendarInv, Fail, UNCHANGED lifecycle, published # NULL
    PROVE  CalendarInv' /\ PeriodsKept
  <1>1. UNCHANGED <<live, draft, published, days, periods, blocks, bells>> /\ outcome' = "failed"
    BY DEF Fail, lifecycle, calendar
  <1>2. Pointers'
    BY <1>1 DEF CalendarInv, Pointers
  <1>3. RowsInPlace'
    BY <1>1 DEF CalendarInv, RowsInPlace, NumberRows
  <1>4. ~FirstSetup'
    BY <1>1 DEF FirstSetup
  <1>5. PeriodsKept
    BY <1>1 DEF PeriodsKept
  <1> QED BY <1>1, <1>2, <1>3, <1>4, <1>5 DEF CalendarInv

\* The first setup in terms of numberings.
LEMMA SetupNumbers ==
    ASSUME CalendarInv, FirstSetup
    PROVE  /\ live = {1} /\ draft = 1
           /\ Numbering(days[1]) /\ Numbering(periods[1])
  <1>1. IsFiniteSet(DayId) /\ IsFiniteSet(PeriodId) /\ 1 \in RevisionId
    BY CalendarAssumption DEF RevisionId
  <1>2. DOMAIN days[1] \subseteq DayId /\ DOMAIN periods[1] \subseteq PeriodId
    BY <1>1 DEF CalendarInv, RowsInPlace, NumberRows
  <1>3. IsFiniteSet(DOMAIN days[1]) /\ IsFiniteSet(DOMAIN periods[1])
    BY <1>1, <1>2, FS_Subset
  <1> QED BY <1>1, <1>3 DEF CalendarInv, InSetup, RowsInPlace, NumberRows, Numbering

\* With one revision, the place of a row is its idx.
LEMMA SetupSorted ==
    ASSUME live = {1}, NEW Id, IsFiniteSet(Id), NEW table, NumberRows(table, Id), Numbering(table[1]),
           NEW pos \in Sorted(table)
    PROVE  \A id \in DOMAIN table[1] : <<1, id>> \in DOMAIN pos /\ pos[<<1, id>>] = table[1][id]
  <1> DEFINE f == [x \in Rows(table) |-> Idx(table, x)]
             n == Cardinality(DOMAIN table[1])
  <1>1. 1 \in RevisionId /\ live \subseteq RevisionId
    BY CalendarAssumption DEF RevisionId
  <1>2. /\ \A id : <<1, id>> \in Rows(table) <=> id \in DOMAIN table[1]
        /\ \A x \in Rows(table) : x = <<1, x[2]>> /\ x[2] \in DOMAIN table[1] /\ Idx(table, x) \in Nat
        /\ \A x, y \in Rows(table) : Idx(table, x) = Idx(table, y) => x = y
    BY <1>1, RowsAre
  <1>3. \A x \in Rows(table) : Idx(table, x) = table[1][x[2]]
    BY <1>2 DEF Idx
  <1>4. /\ n \in Nat
        /\ \A id \in DOMAIN table[1] : table[1][id] \in 0..(n - 1)
        /\ \A k \in 0..(n - 1) : \E id \in DOMAIN table[1] : table[1][id] = k
    BY NumberingValues
  <1>5. DOMAIN f = Rows(table) /\ \A x \in Rows(table) : f[x] = table[1][x[2]]
    BY <1>3
  <1>6. f \in [DOMAIN f -> Nat] /\ IsInjective(f)
    BY <1>2 DEF IsInjective
  <1> HIDE DEF f, n
  <1>7. Range(f) = 0..(n - 1)
    <2>1. \A x \in Rows(table) : f[x] \in 0..(n - 1)
      BY <1>2, <1>4, <1>5
    <2>2. ASSUME NEW k \in 0..(n - 1)
          PROVE  \E x \in Rows(table) : f[x] = k
      <3>1. PICK id \in DOMAIN table[1] : table[1][id] = k
        BY <1>4
      <3>2. <<1, id>> \in Rows(table)
        BY <1>2
      <3>3. f[<<1, id>>] = k
        BY <1>5, <3>1, <3>2
      <3> QED BY <3>2, <3>3
    <2> QED BY <1>5, <2>1, <2>2 DEF Range
  <1>8. Numbering(f)
    BY <1>4, <1>6, <1>7, FillsInterval
  <1>9. /\ DOMAIN pos = Rows(table) /\ Numbering(pos)
        /\ \A x, y \in Rows(table) : Idx(table, x) < Idx(table, y) => pos[x] < pos[y]
    BY <1>1, SortedNumbers
  <1>10. \A x, y \in DOMAIN f : f[x] < f[y] => pos[x] < pos[y]
    BY <1>3, <1>5, <1>9
  <1>11. \A x \in DOMAIN f : f[x] = pos[x]
    BY <1>5, <1>8, <1>9, <1>10, SameOrderSameNumbers
  <1>12. ASSUME NEW id \in DOMAIN table[1]
         PROVE  <<1, id>> \in DOMAIN pos /\ pos[<<1, id>>] = table[1][id]
    <2>1. <<1, id>> \in Rows(table)
      BY <1>2
    <2> QED BY <1>5, <1>9, <1>11, <2>1
  <1> QED BY <1>12

-----------------------------------------------------------------------------
(* Writers of days *)

\* What is left to show of a write to the days.
LEMMA DayWriteKeepsInv ==
    ASSUME CalendarInv, Succeed, UNCHANGED <<periods, blocks, bells, lifecycle>>,
           days' = [r \in RevisionId |-> days'[r]], NumberRows(days', DayId),
           \A r \in RevisionId \ live : DOMAIN days'[r] = {},
           FirstSetup => Contiguous(days'[1])
    PROVE  CalendarInv' /\ PeriodsKept
  <1>1. UNCHANGED <<live, draft, published, periods, blocks, bells>> /\ outcome' = "done"
    BY DEF Succeed, lifecycle
  <1>2. Pointers'
    BY <1>1 DEF CalendarInv, Pointers
  <1>3. NumberRows(days', DayId) /\ NumberRows(periods', PeriodId)
    BY <1>1 DEF CalendarInv, RowsInPlace
  <1>4. RowsInPlace'
    <2>1. periods' = [r \in RevisionId |-> periods'[r]] /\ blocks' = [r \in RevisionId |-> blocks'[r]]
          /\ bells' = [r \in RevisionId |-> bells'[r]]
      BY <1>1 DEF CalendarInv, RowsInPlace
    <2>2. \A r \in RevisionId :
            /\ blocks'[r] \in [DOMAIN periods'[r] -> Nat]
            /\ bells'[r] \in [DOMAIN periods'[r] -> Bell \union {NoBell}]
            /\ r \notin live' => DOMAIN days'[r] = {} /\ DOMAIN periods'[r] = {}
      BY <1>1 DEF CalendarInv, RowsInPlace
    <2> QED BY <1>3, <2>1, <2>2 DEF RowsInPlace, NumberRows
  <1>5. ASSUME FirstSetup'
        PROVE  InSetup'
    <2>1. InSetup /\ FirstSetup
      BY <1>1, <1>5 DEF CalendarInv, FirstSetup
    <2>2. Contiguous(days'[1])
      BY <2>1
    <2> QED BY <1>1, <2>1, <2>2 DEF InSetup, Contiguous, BlocksFollow
  <1>6. PeriodsKept
    BY <1>1 DEF PeriodsKept
  <1> QED BY <1>1, <1>2, <1>4, <1>5, <1>6 DEF CalendarInv

\* A row more, with a number that is free.
LEMMA RowPut ==
    ASSUME NEW Id, NEW table, table = [r \in RevisionId |-> table[r]], NumberRows(table, Id),
           NEW r \in RevisionId, NEW id \in Id, NEW next \in Nat, next \notin Range(table[r]),
           NEW u, u = [table EXCEPT ![r] = Put(@, id, next)]
    PROVE  /\ NumberRows(u, Id) /\ u = [s \in RevisionId |-> u[s]]
           /\ u[r] = Put(table[r], id, next)
           /\ \A s \in RevisionId \ {r} : u[s] = table[s]
  <1> DEFINE f == Put(table[r], id, next)
  <1>1. u[r] = f /\ \A s \in RevisionId \ {r} : u[s] = table[s]
    OBVIOUS
  <1>2. u = [s \in RevisionId |-> u[s]]
    OBVIOUS
  <1>3. f \in [DOMAIN f -> Nat] /\ DOMAIN f \subseteq Id
    BY DEF NumberRows, Put
  <1>4. IsInjective(f)
    BY DEF NumberRows, Put, IsInjective, Range
  <1> HIDE DEF f
  <1>5. NumberRows(u, Id)
    BY <1>1, <1>3, <1>4 DEF NumberRows
  <1> QED BY <1>1, <1>2, <1>5 DEF f

\* CreateDay: beside a published revision its insert may fail.
LEMMA CreateDayKeepsInv ==
    ASSUME CalendarInv, NEW id \in DayId, CreateDay(id)
    PROVE  CalendarInv' /\ PeriodsKept
  <1> DEFINE next == Cardinality(DOMAIN days[draft])
  <1>1. /\ draft # NULL /\ Unused(days, id) /\ UNCHANGED lifecycle
        /\ IF next \in Range(days[draft]) THEN Fail
           ELSE /\ days' = [days EXCEPT ![draft] = Put(@, id, next)]
                /\ Succeed
                /\ UNCHANGED <<periods, blocks, bells>>
    BY DEF CreateDay
  <1>2. draft \in live /\ draft \in RevisionId /\ 1 \in RevisionId
    BY <1>1, PointerFacts DEF CalendarInv
  <1>3. days = [r \in RevisionId |-> days[r]] /\ NumberRows(days, DayId)
    BY DEF CalendarInv, RowsInPlace
  <1>4. next \in Nat
    <2>1. DOMAIN days[draft] \subseteq DayId
      BY <1>2, <1>3 DEF NumberRows
    <2>2. IsFiniteSet(DOMAIN days[draft])
      BY <2>1, CalendarAssumption, FS_Subset
    <2> QED BY <2>2, FS_CardinalityType
  <1>5. ASSUME FirstSetup
        PROVE  draft = 1 /\ next \notin Range(days[1]) /\ Contiguous(Put(days[1], id, next))
    <2>1. draft = 1 /\ Numbering(days[1])
      BY <1>5, SetupNumbers
    <2>2. id \notin DOMAIN days[1]
      BY <1>1, <1>2, <2>1 DEF Unused
    <2> QED BY <2>1, <2>2, PutNumbers DEF Numbering
  <1> HIDE DEF next
  <1>6. CASE next \in Range(days[draft])
    BY <1>1, <1>5, <1>6, FailureKeepsInv DEF FirstSetup
  <1>7. CASE next \notin Range(days[draft])
    <2>1. days' = [days EXCEPT ![draft] = Put(@, id, next)] /\ Succeed
          /\ UNCHANGED <<periods, blocks, bells, lifecycle>>
      BY <1>1, <1>7
    <2>2. /\ NumberRows(days', DayId) /\ days' = [s \in RevisionId |-> days'[s]]
          /\ days'[draft] = Put(days[draft], id, next)
          /\ \A s \in RevisionId \ {draft} : days'[s] = days[s]
      BY <1>2, <1>3, <1>4, <1>7, <2>1, RowPut
    <2>3. \A r \in RevisionId \ live : DOMAIN days'[r] = {}
      BY <1>2, <2>2 DEF CalendarInv, RowsInPlace
    <2>4. FirstSetup => Contiguous(days'[1])
      BY <1>5, <2>2
    <2> QED BY <2>1, <2>2, <2>3, <2>4, DayWriteKeepsInv
  <1> QED BY <1>6, <1>7

\* UpdateDay: a natural id that two revisions have fails it.
LEMMA UpdateDayKeepsInv ==
    ASSUME CalendarInv, NEW id \in DayId, UpdateDay(id)
    PROVE  CalendarInv' /\ PeriodsKept
  <1>1. /\ draft # NULL /\ UNCHANGED lifecycle
        /\ IF Ambiguous(days, id) THEN Fail ELSE Succeed /\ UNCHANGED calendar
    BY DEF UpdateDay
  <1>2. CASE Ambiguous(days, id)
    <2>1. ~FirstSetup
      BY <1>2 DEF CalendarInv, InSetup, Ambiguous
    <2> QED BY <1>1, <1>2, <2>1, FailureKeepsInv DEF FirstSetup
  <1>3. CASE ~Ambiguous(days, id)
    <2>1. Succeed /\ UNCHANGED <<days, periods, blocks, bells, lifecycle>>
      BY <1>1, <1>3 DEF calendar
    <2>2. /\ days' = [r \in RevisionId |-> days'[r]] /\ NumberRows(days', DayId)
          /\ \A r \in RevisionId \ live : DOMAIN days'[r] = {}
          /\ FirstSetup => Contiguous(days'[1])
      BY <2>1 DEF CalendarInv, RowsInPlace, InSetup
    <2> QED BY <2>1, <2>2, DayWriteKeepsInv
  <1> QED BY <1>2, <1>3

\* The row that a delete or a move meets first, of whatever revision.
LEMMA TargetFound ==
    ASSUME CalendarInv, draft # NULL, NEW Id, IsFiniteSet(Id), NEW table, NumberRows(table, Id),
           NEW pos \in Sorted(table), NEW id \in DOMAIN table[draft]
    PROVE  LET target == FirstRow(pos, id)
           IN  /\ DOMAIN pos = Rows(table) /\ Numbering(pos)
               /\ DOMAIN pos \subseteq live \X Id /\ DOMAIN pos \subseteq RevisionId \X Id
               /\ target \in DOMAIN pos /\ target[2] = id /\ target = <<target[1], id>>
               /\ FirstSetup => target[1] = draft
  <1>1. draft \in live /\ draft \in RevisionId /\ live \subseteq RevisionId
    BY PointerFacts DEF CalendarInv
  <1>2. DOMAIN pos = Rows(table) /\ Numbering(pos)
    BY <1>1, SortedNumbers
  <1>3. /\ Rows(table) \subseteq RevisionId \X Id
        /\ \A x \in Rows(table) : x[1] \in live /\ x = <<x[1], x[2]>>
        /\ <<draft, id>> \in Rows(table)
    BY <1>1, RowsAre
  <1> DEFINE row == <<draft, id>>
             target == FirstRow(pos, id)
  <1>4. target \in DOMAIN pos /\ target[2] = id
    <2>1. row \in DOMAIN pos /\ row[2] = id
      BY <1>2, <1>3
    <2> HIDE DEF row
    <2> QED BY <1>2, <2>1, FirstRowFound
  <1>5. FirstSetup => live = {1} /\ draft = 1
    BY DEF CalendarInv, InSetup
  <1> HIDE DEF target
  <1>6. DOMAIN pos \subseteq live \X Id
    BY <1>2, <1>3
  <1> QED BY <1>2, <1>3, <1>4, <1>5, <1>6 DEF target

\* DeleteDay: the rows that are left are numbered again.
LEMMA DeleteDayKeepsInv ==
    ASSUME CalendarInv, NEW id \in DayId, DeleteDay(id)
    PROVE  CalendarInv' /\ PeriodsKept
  <1>1. draft # NULL /\ id \in DOMAIN days[draft] /\ UNCHANGED lifecycle
    BY DEF DeleteDay, Deletable
  <1>2. PICK pos \in Sorted(days) :
            LET target == FirstRow(pos, id)
            IN  \/ target[1] # draft /\ Fail
                \/ /\ days' = Reindexed(Without(pos, target))
                   /\ Succeed
                   /\ UNCHANGED <<periods, blocks, bells>>
    BY DEF DeleteDay
  <1> DEFINE target == FirstRow(pos, id)
             rest == Without(pos, target)
  <1>3. NumberRows(days, DayId) /\ IsFiniteSet(DayId)
    BY CalendarAssumption DEF CalendarInv, RowsInPlace
  <1>4. /\ Numbering(pos) /\ DOMAIN pos \subseteq live \X DayId /\ DOMAIN pos \subseteq RevisionId \X DayId
        /\ target \in DOMAIN pos /\ (FirstSetup => target[1] = draft)
    BY <1>1, <1>3, TargetFound
  <1>5. \/ target[1] # draft /\ Fail
        \/ days' = Reindexed(rest) /\ Succeed /\ UNCHANGED <<periods, blocks, bells>>
    BY <1>2
  <1> HIDE DEF target
  <1>6. Numbering(rest) /\ DOMAIN rest \subseteq DOMAIN pos
    BY <1>4, WithoutNumbers
  <1> HIDE DEF rest
  <1>7. CASE target[1] # draft /\ Fail
    BY <1>1, <1>4, <1>7, FailureKeepsInv DEF FirstSetup
  <1>8. CASE days' = Reindexed(rest) /\ Succeed /\ UNCHANGED <<periods, blocks, bells>>
    <2>1. /\ NumberRows(days', DayId) /\ days' = [r \in RevisionId |-> days'[r]]
          /\ \A r \in RevisionId : \A i : i \in DOMAIN days'[r] <=> <<r, i>> \in DOMAIN rest
      <3>1. rest \in [DOMAIN rest -> Nat] /\ IsInjective(rest)
        BY <1>6 DEF Numbering
      <3>2. DOMAIN rest \subseteq RevisionId \X DayId
        BY <1>4, <1>6
      <3>3. /\ NumberRows(Reindexed(rest), DayId)
            /\ Reindexed(rest) = [r \in RevisionId |-> Reindexed(rest)[r]]
            /\ \A r \in RevisionId : \A i :
                  i \in DOMAIN Reindexed(rest)[r] <=> <<r, i>> \in DOMAIN rest
        BY <3>1, <3>2, ReindexedRows
      <3> QED BY <1>8, <3>3
    <2>2. \A r \in RevisionId \ live : DOMAIN days'[r] = {}
      <3>1. ASSUME NEW r \in RevisionId \ live, NEW i \in DOMAIN days'[r]
            PROVE  FALSE
        <4>1. <<r, i>> \in live \X DayId
          BY <1>4, <1>6, <2>1
        <4> QED BY <4>1
      <3> QED BY <3>1
    <2>3. ASSUME FirstSetup
          PROVE  Contiguous(days'[1])
      <3>1. DOMAIN rest \subseteq {1} \X DayId
        BY <1>4, <1>6, <2>3, SetupNumbers
      <3> QED BY <1>6, <1>8, <3>1, SetupReindexed DEF Numbering
    <2> QED BY <1>1, <1>8, <2>1, <2>2, <2>3, DayWriteKeepsInv
  <1> QED BY <1>5, <1>7, <1>8

\* Row p of revision s and row q of revision t exchange their numbers, which
\* no other row of the revisions has.
Exchanged(table, u, s, p, t, q) ==
    /\ s \in RevisionId /\ p \in DOMAIN table[s]
    /\ t \in RevisionId /\ q \in DOMAIN table[t]
    /\ s # t \/ p # q
    /\ \A i \in DOMAIN table[t] : i # q /\ ~(t = s /\ i = p) => table[t][i] # table[s][p]
    /\ \A i \in DOMAIN table[s] : i # p /\ ~(s = t /\ i = q) => table[s][i] # table[t][q]
    /\ \A r \in RevisionId : u[r] = [i \in DOMAIN table[r] |-> u[r][i]]
    /\ u[s][p] = table[t][q] /\ u[t][q] = table[s][p]
    /\ \A r \in RevisionId : \A i \in DOMAIN table[r] :
            ~(r = t /\ i = q) /\ ~(r = s /\ i = p) => u[r][i] = table[r][i]

\* Each revision keeps its ids, and numbers stay distinct.
LEMMA RowsExchanged ==
    ASSUME NEW Id, NEW table, NumberRows(table, Id), NEW u, NEW s, NEW p, NEW t, NEW q,
           Exchanged(table, u, s, p, t, q)
    PROVE  /\ NumberRows(u, Id)
           /\ \A r \in RevisionId : DOMAIN u[r] = DOMAIN table[r]
           /\ s = t => u[s] = Swapped(table[s], p, q)
  <1> USE DEF Exchanged
  <1>1. ASSUME NEW r \in RevisionId
        PROVE  /\ u[r] \in [DOMAIN u[r] -> Nat] /\ DOMAIN u[r] \subseteq Id /\ IsInjective(u[r])
               /\ DOMAIN u[r] = DOMAIN table[r]
    <2>1. /\ \A x \in RevisionId : \A i \in DOMAIN table[x] : table[x][i] \in Nat
          /\ DOMAIN table[r] \subseteq Id
          /\ \A i, j \in DOMAIN table[r] : table[r][i] = table[r][j] => i = j
      BY DEF NumberRows, IsInjective
    <2>2. \A i \in DOMAIN table[r] : u[r][i] \in Nat
      BY <2>1
    <2>3. \A i, j \in DOMAIN table[r] : u[r][i] = u[r][j] => i = j
      BY <2>1
    <2>4. DOMAIN u[r] = DOMAIN table[r] /\ u[r] = [i \in DOMAIN table[r] |-> u[r][i]]
      OBVIOUS
    <2> QED BY <2>1, <2>2, <2>3, <2>4 DEF IsInjective
  <1>2. ASSUME s = t
        PROVE  u[s] = Swapped(table[s], p, q)
    <2>1. \A i \in DOMAIN table[s] : u[s][i] = Swapped(table[s], p, q)[i]
      BY <1>2 DEF Swapped
    <2>2. Swapped(table[s], p, q) = [i \in DOMAIN table[s] |-> Swapped(table[s], p, q)[i]]
      BY DEF Swapped
    <2> QED BY <2>1, <2>2
  <1> QED BY <1>1, <1>2 DEF NumberRows

\* MoveDay: two rows, of one revision or of two, exchange their numbers.
LEMMA MoveDayKeepsInv ==
    ASSUME CalendarInv, NEW id \in DayId, NEW direction \in {"up", "down"}, MoveDay(id, direction)
    PROVE  CalendarInv' /\ PeriodsKept
  <1>1. draft # NULL /\ id \in DOMAIN days[draft] /\ CanMove(days, id, direction) /\ UNCHANGED lifecycle
    BY DEF MoveDay
  <1>2. PICK pos \in Sorted(days) :
            LET a == FirstRow(pos, id)
                b == Neighbour(pos, a, direction)
            IN  IF Taken(a, b, b, Idx(days, a)) \/ Taken(a, b, a, Idx(days, b)) THEN Fail
                ELSE /\ days' = [days EXCEPT ![a[1]][a[2]] = Idx(days, b),
                                             ![b[1]][b[2]] = Idx(days, a)]
                     /\ Succeed
                     /\ UNCHANGED <<periods, blocks, bells>>
    BY DEF MoveDay
  <1> DEFINE a == FirstRow(pos, id)
             b == Neighbour(pos, a, direction)
             taken == Taken(a, b, b, Idx(days, a)) \/ Taken(a, b, a, Idx(days, b))
  <1>3. NumberRows(days, DayId) /\ IsFiniteSet(DayId) /\ days = [r \in RevisionId |-> days[r]]
    BY CalendarAssumption DEF CalendarInv, RowsInPlace
  <1>4. live \subseteq RevisionId /\ draft \in live
    BY <1>1, PointerFacts DEF CalendarInv
  <1>5. DOMAIN pos = Rows(days) /\ a \in Rows(days) /\ b \in Rows(days) /\ a # b
    BY <1>1, <1>3, <1>4, NeighbourFound, SortedNumbers
  <1>6. IF taken THEN Fail
        ELSE /\ days' = [days EXCEPT ![a[1]][a[2]] = days[b[1]][b[2]],
                                     ![b[1]][b[2]] = days[a[1]][a[2]]]
             /\ Succeed
             /\ UNCHANGED <<periods, blocks, bells>>
    BY <1>2 DEF Idx
  <1>7. taken <=> \/ \E y \in Rows(days) \ {a, b} : y[1] = b[1] /\ Idx(days, y) = Idx(days, a)
                  \/ \E y \in Rows(days) \ {a, b} : y[1] = a[1] /\ Idx(days, y) = Idx(days, b)
    BY DEF Taken
  <1> HIDE DEF a, b, taken
  <1>8. /\ Rows(days) \subseteq RevisionId \X DayId
        /\ \A x \in Rows(days) : x[1] \in live /\ x[2] \in DOMAIN days[x[1]] /\ x = <<x[1], x[2]>>
        /\ \A r \in RevisionId : \A i : <<r, i>> \in Rows(days) <=> r \in live /\ i \in DOMAIN days[r]
        /\ \A x, y \in Rows(days) : x[1] = y[1] /\ Idx(days, x) = Idx(days, y) => x = y
    BY <1>3, <1>4, RowsAre
  <1>9. FirstSetup => live = {1} /\ Numbering(days[1])
    BY SetupNumbers
  <1>10. CASE taken
    <2>1. ~FirstSetup
      BY <1>5, <1>7, <1>8, <1>9, <1>10
    <2> QED BY <1>1, <1>6, <1>10, <2>1, FailureKeepsInv DEF FirstSetup
  <1>11. CASE ~taken
    <2>1. \A i \in DOMAIN days[b[1]] : i # b[2] /\ <<b[1], i>> # a => days[b[1]][i] # days[a[1]][a[2]]
      <3> SUFFICES ASSUME NEW i \in DOMAIN days[b[1]], i # b[2], <<b[1], i>> # a
                   PROVE  days[b[1]][i] # days[a[1]][a[2]]
        OBVIOUS
      <3>1. <<b[1], i>> \in Rows(days) \ {a, b}
        BY <1>4, <1>5, <1>8
      <3> QED BY <1>7, <1>11, <3>1 DEF Idx
    <2>2. \A i \in DOMAIN days[a[1]] : i # a[2] /\ <<a[1], i>> # b => days[a[1]][i] # days[b[1]][b[2]]
      <3> SUFFICES ASSUME NEW i \in DOMAIN days[a[1]], i # a[2], <<a[1], i>> # b
                   PROVE  days[a[1]][i] # days[b[1]][b[2]]
        OBVIOUS
      <3>1. <<a[1], i>> \in Rows(days) \ {a, b}
        BY <1>4, <1>5, <1>8
      <3> QED BY <1>7, <1>11, <3>1 DEF Idx
    <2>3. /\ a \in RevisionId \X DayId /\ b \in RevisionId \X DayId /\ a # b
          /\ a[2] \in DOMAIN days[a[1]] /\ b[2] \in DOMAIN days[b[1]]
      BY <1>5, <1>8
    <2>4. /\ days' = [days EXCEPT ![a[1]][a[2]] = days[b[1]][b[2]],
                                  ![b[1]][b[2]] = days[a[1]][a[2]]]
          /\ Succeed /\ UNCHANGED <<periods, blocks, bells>>
      BY <1>6, <1>11
    <2>5. /\ NumberRows(days', DayId) /\ days' = [r \in RevisionId |-> days'[r]]
          /\ \A r \in RevisionId : DOMAIN days'[r] = DOMAIN days[r]
          /\ a[1] = b[1] => days'[a[1]] = Swapped(days[a[1]], a[2], b[2])
      <3> DEFINE s == a[1]
                 p == a[2]
                 t == b[1]
                 q == b[2]
      <3>1. a = <<s, p>> /\ b = <<t, q>> /\ s \in RevisionId /\ t \in RevisionId
        BY <2>3
      <3>2. p \in DOMAIN days[s] /\ q \in DOMAIN days[t] /\ (s # t \/ p # q)
        BY <2>3, <3>1
      <3>3. \A i \in DOMAIN days[t] : i # q /\ ~(t = s /\ i = p) => days[t][i] # days[s][p]
        BY <2>1, <3>1
      <3>4. \A i \in DOMAIN days[s] : i # p /\ ~(s = t /\ i = q) => days[s][i] # days[t][q]
        BY <2>2, <3>1
      <3>5. days' = [[days EXCEPT ![s] = [@ EXCEPT ![p] = days[t][q]]]
                            EXCEPT ![t] = [@ EXCEPT ![q] = days[s][p]]]
        BY <2>4
      <3> HIDE DEF s, p, t, q
      <3>6. days' = [r \in RevisionId |-> days'[r]]
        BY <1>3, <3>5
      <3>7. \A r \in RevisionId : days[r] = [i \in DOMAIN days[r] |-> days[r][i]]
        BY <1>3 DEF NumberRows
      <3>8. ASSUME NEW r \in RevisionId
            PROVE  /\ days'[r] = [i \in DOMAIN days[r] |-> days'[r][i]]
                   /\ r = s /\ r = t => days'[r][p] = days[t][q] /\ days'[r][q] = days[s][p]
                   /\ r = s /\ r # t => days'[r][p] = days[t][q]
                   /\ r = t /\ r # s => days'[r][q] = days[s][p]
                   /\ \A i \in DOMAIN days[r] :
                        ~(r = t /\ i = q) /\ ~(r = s /\ i = p) => days'[r][i] = days[r][i]
        <4>1. CASE r = t /\ r = s
          <5>1. days'[r] = [[days[r] EXCEPT ![p] = days[t][q]] EXCEPT ![q] = days[s][p]]
            BY <1>3, <3>1, <3>5, <4>1
          <5> QED BY <3>2, <3>7, <4>1, <5>1
        <4>2. CASE r = t /\ r # s
          <5>1. days'[r] = [days[r] EXCEPT ![q] = days[s][p]]
            BY <1>3, <3>1, <3>5, <4>2
          <5> QED BY <3>2, <3>7, <4>2, <5>1
        <4>3. CASE r # t /\ r = s
          <5>1. days'[r] = [days[r] EXCEPT ![p] = days[t][q]]
            BY <1>3, <3>1, <3>5, <4>3
          <5> QED BY <3>2, <3>7, <4>3, <5>1
        <4>4. CASE r # t /\ r # s
          <5>1. days'[r] = days[r]
            BY <1>3, <3>1, <3>5, <4>4
          <5> QED BY <3>7, <4>4, <5>1
        <4> QED BY <4>1, <4>2, <4>3, <4>4
      <3>9. /\ \A r \in RevisionId : days'[r] = [i \in DOMAIN days[r] |-> days'[r][i]]
            /\ days'[s][p] = days[t][q] /\ days'[t][q] = days[s][p]
            /\ \A r \in RevisionId : \A i \in DOMAIN days[r] :
                    ~(r = t /\ i = q) /\ ~(r = s /\ i = p) => days'[r][i] = days[r][i]
        BY <3>1, <3>8
      <3>10. /\ NumberRows(days', DayId)
             /\ \A r \in RevisionId : DOMAIN days'[r] = DOMAIN days[r]
             /\ s = t => days'[s] = Swapped(days[s], p, q)
        <4>1. Exchanged(days, days', s, p, t, q)
          BY <3>1, <3>2, <3>3, <3>4, <3>9 DEF Exchanged
        <4> QED BY <1>3, <4>1, RowsExchanged
      <3> QED BY <3>6, <3>10 DEF s, p, t, q
    <2>6. \A r \in RevisionId \ live : DOMAIN days'[r] = {}
      BY <2>5 DEF CalendarInv, RowsInPlace
    <2>7. ASSUME FirstSetup
          PROVE  Contiguous(days'[1])
      <3>1. a[1] = 1 /\ b[1] = 1 /\ a[2] \in DOMAIN days[1] /\ b[2] \in DOMAIN days[1] /\ Numbering(days[1])
        BY <1>5, <1>8, <1>9, <2>7
      <3>2. Numbering(Swapped(days[1], a[2], b[2]))
        BY <3>1, SwappedNumbers
      <3> QED BY <2>5, <3>1, <3>2 DEF Numbering
    <2> QED BY <1>1, <2>4, <2>5, <2>6, <2>7, DayWriteKeepsInv
  <1> QED BY <1>10, <1>11

-----------------------------------------------------------------------------
(* Writers of periods *)

\* The sequence of period rows is written, with bell times for the same rows.
PeriodsRewritten(pos, marker) ==
    /\ Numbering(pos) /\ DOMAIN pos \subseteq live \X PeriodId
    /\ WritePeriodSequence(pos, marker)
    /\ bells' = [r \in RevisionId |-> bells'[r]]
    /\ \A r \in RevisionId :
        /\ bells'[r] \in [DOMAIN bells'[r] -> Bell \union {NoBell}]
        /\ \A id : id \in DOMAIN bells'[r] <=> <<r, id>> \in DOMAIN pos

\* During the first setup, the markers after a write are those it was given.
MarkersWritten(marker) ==
    FirstSetup =>
        \A id \in DOMAIN periods'[1] : periods'[1][id] # 0 =>
            (MarkerIn(periods'[1], blocks'[1], id) <=> id \in DOMAIN marker /\ marker[id])

\* What is left to show of a write to the periods.
LEMMA PeriodWriteKeepsInv ==
    ASSUME CalendarInv, NEW pos, NEW marker, PeriodsRewritten(pos, marker), UNCHANGED lifecycle
    PROVE  /\ CalendarInv' /\ MarkersWritten(marker)
           /\ \A r \in RevisionId : \A id :
                /\ id \in DOMAIN periods'[r] <=> <<r, id>> \in DOMAIN pos
                /\ id \in DOMAIN periods'[r] => periods'[r][id] = pos[<<r, id>>]
  <1>1. UNCHANGED <<live, draft, published, days>> /\ outcome' = "done"
    BY DEF PeriodsRewritten, WritePeriodSequence, Succeed, lifecycle
  <1>2. periods' = Reindexed(pos) /\ blocks' = Reindexed(BlockNumbers(pos, marker))
    BY DEF PeriodsRewritten, WritePeriodSequence
  <1>3. Numbering(pos) /\ DOMAIN pos \subseteq live \X PeriodId /\ DOMAIN pos \subseteq RevisionId \X PeriodId
    BY PointerFacts DEF CalendarInv, PeriodsRewritten
  <1>4. /\ NumberRows(periods', PeriodId) /\ periods' = [r \in RevisionId |-> periods'[r]]
        /\ \A r \in RevisionId : \A id :
            /\ id \in DOMAIN periods'[r] <=> <<r, id>> \in DOMAIN pos
            /\ id \in DOMAIN periods'[r] => periods'[r][id] = pos[<<r, id>>]
    BY <1>2, <1>3, ReindexedRows DEF Numbering
  <1>5. BlockNumbers(pos, marker) \in [DOMAIN pos -> Nat]
    BY <1>3, BlockNumbersTyped
  <1>6. /\ blocks' = [r \in RevisionId |-> blocks'[r]]
        /\ \A r \in RevisionId : blocks'[r] \in [DOMAIN periods'[r] -> Nat]
    <2> DEFINE b == BlockNumbers(pos, marker)
               Ids(r) == {x[2] : x \in {y \in DOMAIN b : y[1] = r}}
    <2>1. blocks' = [r \in RevisionId |-> [id \in Ids(r) |-> b[<<r, id>>]]]
      BY <1>2 DEF Reindexed
    <2>2. ASSUME NEW r \in RevisionId
          PROVE  Ids(r) = DOMAIN periods'[r]
      <3>1. DOMAIN b = DOMAIN pos
        BY <1>5
      <3>2. periods'[r] = [id \in {x[2] : x \in {y \in DOMAIN pos : y[1] = r}} |-> pos[<<r, id>>]]
        BY <1>2 DEF Reindexed
      <3> QED BY <3>1, <3>2
    <2>3. \A r \in RevisionId : \A id \in DOMAIN periods'[r] : b[<<r, id>>] \in Nat
      BY <1>4, <1>5
    <2> HIDE DEF b, Ids
    <2> QED BY <2>1, <2>2, <2>3
  <1>7. Pointers'
    BY <1>1 DEF CalendarInv, Pointers
  <1>8. RowsInPlace'
    <2>1. /\ bells' = [r \in RevisionId |-> bells'[r]]
          /\ \A r \in RevisionId : bells'[r] \in [DOMAIN periods'[r] -> Bell \union {NoBell}]
      <3>1. \A r \in RevisionId : DOMAIN bells'[r] = DOMAIN periods'[r]
        BY <1>4 DEF PeriodsRewritten
      <3> QED BY <3>1 DEF PeriodsRewritten
    <2>2. days' = [r \in RevisionId |-> days'[r]] /\ NumberRows(days', DayId)
      BY <1>1 DEF CalendarInv, RowsInPlace
    <2>3. ASSUME NEW r \in RevisionId, r \notin live'
          PROVE  DOMAIN days'[r] = {} /\ DOMAIN periods'[r] = {}
      <3>1. DOMAIN days'[r] = {}
        BY <1>1, <2>3 DEF CalendarInv, RowsInPlace
      <3>2. ASSUME NEW id \in DOMAIN periods'[r]
            PROVE  FALSE
        <4>1. <<r, id>> \in live \X PeriodId
          BY <1>3, <1>4
        <4> QED BY <1>1, <2>3, <4>1
      <3> QED BY <3>1, <3>2
    <2> QED BY <1>4, <1>6, <2>1, <2>2, <2>3 DEF RowsInPlace, NumberRows
  <1>9. ASSUME FirstSetup
        PROVE  /\ Numbering(periods'[1]) /\ BlocksFollow(periods'[1], blocks'[1])
               /\ \A id \in DOMAIN periods'[1] : periods'[1][id] # 0 =>
                    (MarkerIn(periods'[1], blocks'[1], id) <=> id \in DOMAIN marker /\ marker[id])
    <2>1. DOMAIN pos \subseteq {1} \X PeriodId
      BY <1>3, <1>9, SetupNumbers
    <2> QED BY <1>2, <1>3, <2>1, SetupWritten
  <1>10. MarkersWritten(marker)
    BY <1>9 DEF MarkersWritten
  <1>11. FirstSetup' => InSetup'
    <2> SUFFICES ASSUME FirstSetup'
                 PROVE  InSetup'
      OBVIOUS
    <2>1. FirstSetup /\ InSetup
      BY <1>1 DEF CalendarInv, FirstSetup
    <2>2. Contiguous(periods'[1]) /\ BlocksFollow(periods'[1], blocks'[1]) /\ Contiguous(days'[1])
      BY <1>1, <1>9, <2>1 DEF Numbering, InSetup
    <2> QED BY <1>1, <2>1, <2>2 DEF InSetup, Contiguous, BlocksFollow
  <1> QED BY <1>1, <1>4, <1>7, <1>8, <1>10, <1>11 DEF CalendarInv

\* The first revision's periods, sorted and written back, keep their order.
LEMMA SortedOrderKept ==
    ASSUME CalendarInv, NEW table, NumberRows(table, PeriodId), NEW pos \in Sorted(table),
           NEW marker, PeriodsRewritten(pos, marker), UNCHANGED lifecycle
    PROVE  /\ CalendarInv' /\ MarkersWritten(marker)
           /\ DOMAIN periods'[1] = DOMAIN table[1]
           /\ \A p, q \in DOMAIN table[1] : table[1][p] < table[1][q] => periods'[1][p] < periods'[1][q]
           /\ FirstSetup /\ Numbering(table[1]) => periods'[1] = table[1]
  <1>1. 1 \in RevisionId /\ 1 \in live /\ live \subseteq RevisionId /\ IsFiniteSet(PeriodId)
    BY PointerFacts, CalendarAssumption DEF CalendarInv, Pointers
  <1>2. /\ DOMAIN pos = Rows(table)
        /\ \A x, y \in Rows(table) : Idx(table, x) < Idx(table, y) => pos[x] < pos[y]
        /\ \A id : <<1, id>> \in Rows(table) <=> id \in DOMAIN table[1]
    BY <1>1, SortedNumbers, RowsAre
  <1>3. /\ CalendarInv' /\ MarkersWritten(marker)
        /\ \A id : /\ id \in DOMAIN periods'[1] <=> <<1, id>> \in DOMAIN pos
                   /\ id \in DOMAIN periods'[1] => periods'[1][id] = pos[<<1, id>>]
    BY <1>1, PeriodWriteKeepsInv
  <1>4. DOMAIN periods'[1] = DOMAIN table[1]
    BY <1>2, <1>3
  <1>5. ASSUME NEW p \in DOMAIN table[1], NEW q \in DOMAIN table[1], table[1][p] < table[1][q]
        PROVE  periods'[1][p] < periods'[1][q]
    <2> DEFINE x == <<1, p>>
               y == <<1, q>>
    <2>1. x \in Rows(table) /\ y \in Rows(table) /\ Idx(table, x) < Idx(table, y)
      BY <1>2, <1>5 DEF Idx
    <2>2. periods'[1][p] = pos[x] /\ periods'[1][q] = pos[y]
      BY <1>3, <1>4
    <2> HIDE DEF x, y
    <2> QED BY <1>2, <2>1, <2>2
  <1>6. ASSUME FirstSetup, Numbering(table[1])
        PROVE  periods'[1] = table[1]
    <2>1. live = {1}
      BY <1>6, SetupNumbers
    <2>2. \A id \in DOMAIN table[1] : pos[<<1, id>>] = table[1][id]
      BY <1>1, <1>6, <2>1, SetupSorted
    <2>3. \A id \in DOMAIN table[1] : periods'[1][id] = table[1][id]
      BY <1>3, <1>4, <2>2
    <2>4. periods'[1] = [id \in DOMAIN periods'[1] |-> periods'[1][id]]
      <3>1. NumberRows(periods', PeriodId)
        BY <1>3 DEF CalendarInv, RowsInPlace, NumberRows
      <3> QED BY <1>1, <3>1 DEF NumberRows
    <2>5. table[1] = [id \in DOMAIN table[1] |-> table[1][id]]
      BY <1>1 DEF NumberRows
    <2> QED BY <1>4, <2>3, <2>4, <2>5
  <1> QED BY <1>3, <1>4, <1>5, <1>6

\* A write that is given the old markers keeps them.
LEMMA MarkersKept ==
    ASSUME NEW marker, MarkersWritten(marker),
           FirstSetup => \A id \in DOMAIN periods[1] \intersect DOMAIN periods'[1] :
                            id \in DOMAIN marker /\ marker[id] = Markers(1)[id]
    PROVE  BreakStep
  <1> SUFFICES ASSUME FirstSetup, NEW id \in DOMAIN periods[1] \intersect DOMAIN periods'[1],
                      periods'[1][id] # 0
               PROVE  Markers(1)'[id] = Markers(1)[id]
    BY DEF BreakStep
  <1>1. Markers(1)'[id] = MarkerIn(periods'[1], blocks'[1], id)
    BY DEF Markers, MarkerIn
  <1>2. Markers(1)[id] = MarkerIn(periods[1], blocks[1], id)
    BY DEF Markers, MarkerIn
  <1>3. MarkerIn(periods'[1], blocks'[1], id) <=> id \in DOMAIN marker /\ marker[id]
    BY DEF MarkersWritten
  <1>4. id \in DOMAIN marker /\ marker[id] = Markers(1)[id]
    OBVIOUS
  <1>5. MarkerIn(periods'[1], blocks'[1], id) <=> MarkerIn(periods[1], blocks[1], id)
    BY <1>2, <1>3, <1>4
  <1>6. MarkerIn(periods'[1], blocks'[1], id) = MarkerIn(periods[1], blocks[1], id)
    BY <1>5 DEF MarkerIn
  <1> QED BY <1>1, <1>2, <1>6

\* Bell times in order stay in order when the periods do.
LEMMA SameOrderSameOverlaps ==
    ASSUME NEW idx, NEW new, DOMAIN new = DOMAIN idx,
           idx \in [DOMAIN idx -> Nat], new \in [DOMAIN idx -> Nat], IsInjective(idx),
           \A p, q \in DOMAIN idx : idx[p] < idx[q] => new[p] < new[q],
           NEW bell, ClockOverlaps(idx, bell) = {}
    PROVE  ClockOverlaps(new, bell) = {}
  <1>1. \A p, q \in DOMAIN idx : idx[p] < idx[q] <=> new[p] < new[q]
    <2> SUFFICES ASSUME NEW p \in DOMAIN idx, NEW q \in DOMAIN idx, new[p] < new[q], ~(idx[p] < idx[q])
                 PROVE  FALSE
      OBVIOUS
    <2>1. idx[q] < idx[p] \/ idx[q] = idx[p]
      OBVIOUS
    <2>2. idx[q] = idx[p] => p = q
      BY DEF IsInjective
    <2> QED BY <2>1, <2>2
  <1>2. \A p, q \in DOMAIN idx : idx[p] <= idx[q] <=> new[p] <= new[q]
    <2>1. \A p, q \in DOMAIN idx : (idx[p] <= idx[q] <=> ~(idx[q] < idx[p])) /\ (new[p] <= new[q] <=> ~(new[q] < new[p]))
      OBVIOUS
    <2> QED BY <1>1, <2>1
  <1>3. ASSUME NEW pair \in ClockOverlaps(new, bell)
        PROVE  FALSE
    <2> DEFINE p == pair[1]
               q == pair[2]
    <2>1. /\ pair \in (DOMAIN idx) \X (DOMAIN idx) /\ p \in DOMAIN idx /\ q \in DOMAIN idx
          /\ NoBell \notin {bell[p], bell[q]} /\ bell[p][2] > bell[q][1]
          /\ new[p] < new[q]
          /\ \A other \in DOMAIN idx : new[other] <= new[p] \/ new[other] >= new[q]
      BY DEF ClockOverlaps
    <2>2. \A other \in DOMAIN idx : idx[other] <= idx[p] \/ idx[other] >= idx[q]
      <3> HIDE DEF p, q
      <3>1. \A other \in DOMAIN idx : new[other] <= new[p] \/ new[q] <= new[other]
        BY <2>1
      <3>2. \A other \in DOMAIN idx : idx[other] <= idx[p] \/ idx[q] <= idx[other]
        BY <1>2, <2>1, <3>1
      <3> QED BY <2>1, <3>2
    <2>3. idx[p] < idx[q]
      BY <1>1, <2>1
    <2>4. pair \in ClockOverlaps(idx, bell)
      BY <2>1, <2>2, <2>3 DEF ClockOverlaps
    <2> QED BY <2>4
  <1> QED BY <1>3

\* They stay in order when a period that has times is taken out.
LEMMA TakenOutInOrder ==
    ASSUME NEW idx, idx \in [DOMAIN idx -> Nat], IsInjective(idx), NEW id \in DOMAIN idx,
           NEW new, DOMAIN new = DOMAIN idx \ {id}, new \in [DOMAIN new -> Nat],
           \A p, q \in DOMAIN new : idx[p] < idx[q] => new[p] < new[q],
           NEW bell, bell \in [DOMAIN idx -> Bell \union {NoBell}], bell[id] # NoBell,
           ClockOverlaps(idx, bell) = {}
    PROVE  ClockOverlaps(new, Restrict(bell, DOMAIN idx \ {id})) = {}
  <1>1. \A p, q \in DOMAIN new : idx[p] < idx[q] <=> new[p] < new[q]
    <2> SUFFICES ASSUME NEW p \in DOMAIN new, NEW q \in DOMAIN new, new[p] < new[q], ~(idx[p] < idx[q])
                 PROVE  FALSE
      OBVIOUS
    <2>1. idx[q] < idx[p] \/ idx[q] = idx[p]
      OBVIOUS
    <2>2. idx[q] = idx[p] => p = q
      BY DEF IsInjective
    <2> QED BY <2>1, <2>2
  <1>2. ASSUME NEW pair \in ClockOverlaps(new, Restrict(bell, DOMAIN idx \ {id}))
        PROVE  FALSE
    <2> DEFINE p == pair[1]
               q == pair[2]
               rest == Restrict(bell, DOMAIN idx \ {id})
    <2>1. /\ p \in DOMAIN new /\ q \in DOMAIN new /\ p \in DOMAIN idx /\ q \in DOMAIN idx
          /\ <<p, q>> \in (DOMAIN idx) \X (DOMAIN idx)
          /\ NoBell \notin {rest[p], rest[q]} /\ rest[p][2] > rest[q][1]
          /\ new[p] < new[q]
          /\ \A other \in DOMAIN new : new[other] <= new[p] \/ new[other] >= new[q]
      BY DEF ClockOverlaps
    <2>2. rest[p] = bell[p] /\ rest[q] = bell[q]
      BY <2>1 DEF Restrict
    <2> HIDE DEF p, q, rest
    <2>3. idx[p] < idx[q] /\ \A other \in DOMAIN new : idx[other] <= idx[p] \/ idx[other] >= idx[q]
      <3>1. \A other \in DOMAIN new : ~(new[p] < new[other]) \/ ~(new[other] < new[q])
        BY <2>1
      <3>2. \A other \in DOMAIN new : ~(idx[p] < idx[other]) \/ ~(idx[other] < idx[q])
        BY <1>1, <2>1, <3>1
      <3> QED BY <1>1, <2>1, <3>2
    <2>4. /\ bell[p] \in Bell /\ bell[q] \in Bell /\ bell[id] \in Bell
          /\ bell[p][2] > bell[q][1]
      BY <2>1, <2>2
    <2>5. \A b \in Bell : b[1] \in Nat /\ b[2] \in Nat /\ b[1] < b[2]
      BY CalendarAssumption
    <2>6. \A x, y \in DOMAIN idx :
            /\ bell[x] \in Bell /\ bell[y] \in Bell
            /\ idx[x] < idx[y]
            /\ \A other \in DOMAIN idx : idx[other] <= idx[x] \/ idx[other] >= idx[y]
            => bell[x][2] <= bell[y][1]
      <3> SUFFICES ASSUME NEW x \in DOMAIN idx, NEW y \in DOMAIN idx,
                          bell[x] \in Bell, bell[y] \in Bell, idx[x] < idx[y],
                          \A other \in DOMAIN idx : idx[other] <= idx[x] \/ idx[other] >= idx[y],
                          ~(bell[x][2] <= bell[y][1])
                   PROVE  FALSE
        OBVIOUS
      <3>1. bell[x][2] > bell[y][1] /\ NoBell \notin {bell[x], bell[y]}
        BY <2>5, CalendarAssumption
      <3> DEFINE z == <<x, y>>
      <3>2. z \in (DOMAIN idx) \X (DOMAIN idx) /\ z[1] = x /\ z[2] = y
        OBVIOUS
      <3> HIDE DEF z
      <3>3. z \in ClockOverlaps(idx, bell)
        BY <3>1, <3>2 DEF ClockOverlaps
      <3> QED BY <3>3
    <2>7. CASE idx[id] <= idx[p] \/ idx[id] >= idx[q]
      <3>1. \A other \in DOMAIN idx : idx[other] <= idx[p] \/ idx[other] >= idx[q]
        BY <2>3, <2>7
      <3>2. bell[p][2] <= bell[q][1]
        BY <2>1, <2>3, <2>4, <2>6, <3>1
      <3> QED BY <2>4, <2>5, <3>2
    <2>8. CASE idx[p] < idx[id] /\ idx[id] < idx[q]
      <3>1. \A other \in DOMAIN idx : other = id \/ other \in DOMAIN new
        OBVIOUS
      <3>2. \A other \in DOMAIN idx : idx[other] \in Nat /\ idx[p] \in Nat /\ idx[q] \in Nat /\ idx[id] \in Nat
        BY <2>1
      <3>3. \A other \in DOMAIN idx : idx[other] <= idx[p] \/ idx[other] >= idx[id]
        BY <2>3, <2>8, <3>1, <3>2
      <3>4. \A other \in DOMAIN idx : idx[other] <= idx[id] \/ idx[other] >= idx[q]
        BY <2>3, <2>8, <3>1, <3>2
      <3>5. bell[p][2] <= bell[id][1]
        BY <2>1, <2>4, <2>6, <2>8, <3>3
      <3>6. bell[id][2] <= bell[q][1]
        BY <2>1, <2>4, <2>6, <2>8, <3>4
      <3> QED BY <2>4, <2>5, <3>5, <3>6
    <2>9. idx[p] \in Nat /\ idx[q] \in Nat /\ idx[id] \in Nat
      BY <2>1
    <2> QED BY <2>7, <2>8, <2>9
  <1> QED BY <1>2

\* A step that takes no period from the first revision, and changes its bell
\* times only if its periods change places.
LEMMA SameRowsAllowed ==
    ASSUME DOMAIN periods'[1] = DOMAIN periods[1], bells'[1] = bells[1]
    PROVE  ClockStep
  BY DEF ClockStep

\* One revision's bell times get those of one more period, or new ones.
LEMMA BellPut ==
    ASSUME RowsInPlace, NEW r \in RevisionId, NEW id \in PeriodId, NEW bell \in Bell \union {NoBell},
           bells' = [bells EXCEPT ![r] = Put(@, id, bell)]
    PROVE  /\ bells' = [s \in RevisionId |-> bells'[s]]
           /\ bells'[r] = Put(bells[r], id, bell)
           /\ \A s \in RevisionId \ {r} : bells'[s] = bells[s]
           /\ \A s \in RevisionId :
                /\ bells'[s] \in [DOMAIN bells'[s] -> Bell \union {NoBell}]
                /\ DOMAIN bells'[s] = DOMAIN periods[s] \union IF s = r THEN {id} ELSE {}
  <1>1. /\ bells = [s \in RevisionId |-> bells[s]]
        /\ \A s \in RevisionId : bells[s] \in [DOMAIN periods[s] -> Bell \union {NoBell}]
    BY DEF RowsInPlace
  <1> DEFINE f == Put(bells[r], id, bell)
  <1>2. bells'[r] = f /\ \A s \in RevisionId \ {r} : bells'[s] = bells[s]
    BY <1>1
  <1>3. bells' = [s \in RevisionId |-> bells'[s]]
    BY <1>1
  <1>4. f \in [DOMAIN f -> Bell \union {NoBell}] /\ DOMAIN f = DOMAIN periods[r] \union {id}
    BY <1>1 DEF Put
  <1> HIDE DEF f
  <1>5. ASSUME NEW s \in RevisionId
        PROVE  /\ bells'[s] \in [DOMAIN bells'[s] -> Bell \union {NoBell}]
               /\ DOMAIN bells'[s] = DOMAIN periods[s] \union IF s = r THEN {id} ELSE {}
    <2>1. CASE s = r
      BY <1>2, <1>4, <2>1
    <2>2. CASE s # r
      BY <1>1, <1>2, <2>2
    <2> QED BY <2>1, <2>2
  <1> QED BY <1>2, <1>3, <1>5 DEF f

\* A write that puts one period's times and keeps the order the check of the
\* clock was made with.
LEMMA CheckedWriteAllowed ==
    ASSUME 1 \in RevisionId, NEW table, NumberRows(table, PeriodId), NumberRows(periods', PeriodId),
           DOMAIN periods'[1] = DOMAIN table[1],
           \A p, q \in DOMAIN table[1] : table[1][p] < table[1][q] => periods'[1][p] < periods'[1][q],
           ClockOverlaps(table[1], bells'[1]) = {}
    PROVE  ClockStep
  <1>1. /\ table[1] \in [DOMAIN table[1] -> Nat] /\ IsInjective(table[1])
        /\ periods'[1] \in [DOMAIN table[1] -> Nat]
    BY DEF NumberRows
  <1>2. ClockOverlaps(periods'[1], bells'[1]) = {}
    BY <1>1, SameOrderSameOverlaps
  <1> QED BY <1>2 DEF ClockStep

\* CreatePeriod: the clock is checked with the period last, where it is put.
LEMMA CreatePeriodKeepsInv ==
    ASSUME CalendarInv, NEW id \in PeriodId, NEW starts \in BOOLEAN, NEW bell \in Bell \union {NoBell},
           CreatePeriod(id, starts, bell)
    PROVE  CalendarInv' /\ BreakStep /\ ClockStep
  <1> DEFINE next == Cardinality(DOMAIN periods[draft])
             table == [periods EXCEPT ![draft] = Put(@, id, next)]
             marker == Put(Markers(draft), id, starts)
  <1>1. /\ draft # NULL /\ Unused(periods, id) /\ UNCHANGED lifecycle
        /\ InOrder(Put(periods[draft], id, next), Put(bells[draft], id, bell), id)
        /\ IF next \in Range(periods[draft]) THEN Fail
           ELSE /\ \E pos \in Sorted(table) : WritePeriodSequence(pos, marker)
                /\ bells' = [bells EXCEPT ![draft] = Put(@, id, bell)]
    BY DEF CreatePeriod
  <1>2. draft \in live /\ draft \in RevisionId /\ 1 \in RevisionId /\ live \subseteq RevisionId
    BY <1>1, PointerFacts DEF CalendarInv
  <1>3. periods = [r \in RevisionId |-> periods[r]] /\ NumberRows(periods, PeriodId) /\ RowsInPlace
    BY DEF CalendarInv, RowsInPlace
  <1>4. next \in Nat
    <2>1. DOMAIN periods[draft] \subseteq PeriodId
      BY <1>2, <1>3 DEF NumberRows
    <2>2. IsFiniteSet(DOMAIN periods[draft])
      BY <2>1, CalendarAssumption, FS_Subset
    <2> QED BY <2>2, FS_CardinalityType
  <1>5. id \notin DOMAIN periods[draft]
    BY <1>1, <1>2 DEF Unused
  <1>6. ASSUME FirstSetup
        PROVE  draft = 1 /\ next \notin Range(periods[1]) /\ Numbering(Put(periods[1], id, next))
    <2>1. draft = 1 /\ Numbering(periods[1])
      BY <1>6, SetupNumbers
    <2> QED BY <1>5, <2>1, PutNumbers
  <1> HIDE DEF next
  <1>7. CASE next \in Range(periods[draft])
    <2>1. CalendarInv' /\ PeriodsKept
      BY <1>1, <1>6, <1>7, FailureKeepsInv DEF FirstSetup
    <2> QED BY <2>1, KeptPeriodsAllowed
  <1>8. CASE next \notin Range(periods[draft])
    <2>1. PICK pos \in Sorted(table) : WritePeriodSequence(pos, marker)
      BY <1>1, <1>8
    <2>2. bells' = [bells EXCEPT ![draft] = Put(@, id, bell)]
      BY <1>1, <1>8
    <2>3. /\ NumberRows(table, PeriodId)
          /\ table[draft] = Put(periods[draft], id, next)
          /\ \A s \in RevisionId \ {draft} : table[s] = periods[s]
      BY <1>2, <1>3, <1>4, <1>8, RowPut
    <2> HIDE DEF table, marker
    <2>4. /\ bells' = [s \in RevisionId |-> bells'[s]]
          /\ bells'[draft] = Put(bells[draft], id, bell)
          /\ \A s \in RevisionId \ {draft} : bells'[s] = bells[s]
          /\ \A s \in RevisionId :
                /\ bells'[s] \in [DOMAIN bells'[s] -> Bell \union {NoBell}]
                /\ DOMAIN bells'[s] = DOMAIN periods[s] \union IF s = draft THEN {id} ELSE {}
      BY <1>2, <1>3, <2>2, BellPut
    <2>5. \A s \in RevisionId : DOMAIN table[s] = DOMAIN bells'[s]
      <3>1. DOMAIN table[draft] = DOMAIN periods[draft] \union {id}
        BY <2>3 DEF Put
      <3> QED BY <2>3, <2>4, <3>1
    <2>6. /\ DOMAIN pos = Rows(table) /\ Numbering(pos) /\ DOMAIN pos \subseteq live \X PeriodId
          /\ \A s \in RevisionId : \A i : <<s, i>> \in DOMAIN pos <=> s \in live /\ i \in DOMAIN table[s]
      <3>1. DOMAIN pos = Rows(table) /\ Numbering(pos)
        BY <1>2, <2>1, <2>3, CalendarAssumption, SortedNumbers
      <3>2. /\ Rows(table) \subseteq RevisionId \X PeriodId
            /\ \A x \in Rows(table) : x[1] \in live /\ x = <<x[1], x[2]>>
            /\ \A s \in RevisionId : \A i : <<s, i>> \in Rows(table) <=> s \in live /\ i \in DOMAIN table[s]
        BY <1>2, <2>3, CalendarAssumption, RowsAre
      <3> QED BY <3>1, <3>2
    <2>7. PeriodsRewritten(pos, marker)
      <3>1. \A s \in RevisionId \ live : DOMAIN bells'[s] = {}
        BY <1>2, <1>3, <2>4 DEF RowsInPlace
      <3>2. \A s \in RevisionId : \A i : i \in DOMAIN bells'[s] <=> <<s, i>> \in DOMAIN pos
        BY <2>5, <2>6, <3>1
      <3> QED BY <2>1, <2>4, <2>6, <3>2 DEF PeriodsRewritten
    <2>8. /\ CalendarInv' /\ MarkersWritten(marker)
          /\ DOMAIN periods'[1] = DOMAIN table[1]
          /\ \A p, q \in DOMAIN table[1] : table[1][p] < table[1][q] => periods'[1][p] < periods'[1][q]
      BY <1>1, <2>1, <2>3, <2>7, SortedOrderKept
    <2>9. BreakStep
      <3>1. FirstSetup => \A i \in DOMAIN periods[1] : i \in DOMAIN marker /\ marker[i] = Markers(1)[i]
        <4> SUFFICES ASSUME FirstSetup, NEW i \in DOMAIN periods[1]
                     PROVE  i \in DOMAIN marker /\ marker[i] = Markers(1)[i]
          OBVIOUS
        <4>1. draft = 1 /\ i # id
          BY <1>5, <1>6
        <4>2. i \in DOMAIN Markers(1)
          BY DEF Markers
        <4> QED BY <4>1, <4>2 DEF marker, Put
      <3> QED BY <2>8, <3>1, MarkersKept
    <2>10. ClockStep
      <3>1. CASE draft = 1
        <4>1. ClockOverlaps(table[1], bells'[1]) = {}
          BY <1>1, <2>3, <2>4, <3>1 DEF InOrder
        <4>2. NumberRows(periods', PeriodId)
          BY <2>8 DEF CalendarInv, RowsInPlace, NumberRows
        <4> QED BY <1>2, <2>3, <2>8, <4>1, <4>2, CheckedWriteAllowed
      <3>2. CASE draft # 1
        <4>1. table[1] = periods[1] /\ bells'[1] = bells[1]
          BY <1>2, <2>3, <2>4, <3>2
        <4> QED BY <2>8, <4>1, SameRowsAllowed
      <3> QED BY <3>1, <3>2
    <2> QED BY <2>8, <2>9, <2>10
  <1> QED BY <1>7, <1>8

\* UpdatePeriod: in the first setup the periods stay where they are.
LEMMA UpdatePeriodKeepsInv ==
    ASSUME CalendarInv, NEW id \in PeriodId, NEW starts \in BOOLEAN, NEW bell \in Bell \union {NoBell},
           UpdatePeriod(id, starts, bell)
    PROVE  CalendarInv' /\ BreakStep /\ ClockStep
  <1> DEFINE marker == Put(Markers(draft), id, starts)
  <1>1. /\ draft # NULL /\ id \in DOMAIN periods[draft] /\ UNCHANGED lifecycle
        /\ InOrder(periods[draft], Put(bells[draft], id, bell), id)
        /\ IF Ambiguous(periods, id) THEN Fail
           ELSE /\ \E pos \in Sorted(periods) : WritePeriodSequence(pos, marker)
                /\ bells' = [bells EXCEPT ![draft] = Put(@, id, bell)]
    BY DEF UpdatePeriod
  <1>2. draft \in live /\ draft \in RevisionId /\ 1 \in RevisionId /\ live \subseteq RevisionId
    BY <1>1, PointerFacts DEF CalendarInv
  <1>3. NumberRows(periods, PeriodId) /\ RowsInPlace
    BY DEF CalendarInv, RowsInPlace
  <1>4. CASE Ambiguous(periods, id)
    <2>1. ~FirstSetup
      BY <1>4 DEF CalendarInv, InSetup, Ambiguous
    <2>2. CalendarInv' /\ PeriodsKept
      BY <1>1, <1>4, <2>1, FailureKeepsInv DEF FirstSetup
    <2> QED BY <2>2, KeptPeriodsAllowed
  <1>5. CASE ~Ambiguous(periods, id)
    <2>1. PICK pos \in Sorted(periods) : WritePeriodSequence(pos, marker)
      BY <1>1, <1>5
    <2>2. bells' = [bells EXCEPT ![draft] = Put(@, id, bell)]
      BY <1>1, <1>5
    <2> HIDE DEF marker
    <2>3. /\ bells' = [s \in RevisionId |-> bells'[s]]
          /\ bells'[draft] = Put(bells[draft], id, bell)
          /\ \A s \in RevisionId \ {draft} : bells'[s] = bells[s]
          /\ \A s \in RevisionId :
                /\ bells'[s] \in [DOMAIN bells'[s] -> Bell \union {NoBell}]
                /\ DOMAIN bells'[s] = DOMAIN periods[s] \union IF s = draft THEN {id} ELSE {}
      BY <1>2, <1>3, <2>2, BellPut
    <2>4. ASSUME NEW s \in RevisionId
          PROVE  DOMAIN periods[s] = DOMAIN bells'[s]
      <3>1. CASE s = draft
        BY <1>1, <2>3, <3>1
      <3>2. CASE s # draft
        BY <2>3, <3>2
      <3> QED BY <3>1, <3>2
    <2>5. /\ DOMAIN pos = Rows(periods) /\ Numbering(pos) /\ DOMAIN pos \subseteq live \X PeriodId
          /\ \A s \in RevisionId : \A i : <<s, i>> \in DOMAIN pos <=> s \in live /\ i \in DOMAIN periods[s]
      <3>1. DOMAIN pos = Rows(periods) /\ Numbering(pos)
        BY <1>2, <1>3, CalendarAssumption, SortedNumbers
      <3>2. /\ Rows(periods) \subseteq RevisionId \X PeriodId
            /\ \A x \in Rows(periods) : x[1] \in live /\ x = <<x[1], x[2]>>
            /\ \A s \in RevisionId : \A i : <<s, i>> \in Rows(periods) <=> s \in live /\ i \in DOMAIN periods[s]
        BY <1>2, <1>3, CalendarAssumption, RowsAre
      <3> QED BY <3>1, <3>2
    <2>6. PeriodsRewritten(pos, marker)
      <3>1. \A s \in RevisionId : \A i : i \in DOMAIN bells'[s] <=> <<s, i>> \in DOMAIN pos
        BY <1>3, <2>4, <2>5 DEF RowsInPlace
      <3> QED BY <2>1, <2>3, <2>5, <3>1 DEF PeriodsRewritten
    <2>7. /\ CalendarInv' /\ MarkersWritten(marker)
          /\ DOMAIN periods'[1] = DOMAIN periods[1]
          /\ \A p, q \in DOMAIN periods[1] : periods[1][p] < periods[1][q] => periods'[1][p] < periods'[1][q]
          /\ FirstSetup /\ Numbering(periods[1]) => periods'[1] = periods[1]
      BY <1>1, <1>3, <2>1, <2>6, SortedOrderKept
    <2>8. NumberRows(periods', PeriodId) /\ RowsInPlace'
      BY <2>7 DEF CalendarInv, RowsInPlace, NumberRows
    <2>9. ASSUME FirstSetup
          PROVE  periods' = periods
      <3>1. live = {1} /\ live' = {1} /\ periods'[1] = periods[1]
        BY <1>1, <2>7, <2>9, SetupNumbers DEF lifecycle
      <3>2. \A r \in RevisionId \ {1} : DOMAIN periods[r] = {} /\ DOMAIN periods'[r] = {}
        BY <1>3, <2>8, <3>1 DEF RowsInPlace
      <3>3. \A r \in RevisionId : /\ periods[r] = [i \in DOMAIN periods[r] |-> periods[r][i]]
                                  /\ periods'[r] = [i \in DOMAIN periods'[r] |-> periods'[r][i]]
        BY <1>3, <2>8 DEF NumberRows
      <3>4. ASSUME NEW r \in RevisionId
            PROVE  periods'[r] = periods[r]
        <4>1. CASE r = 1
          BY <3>1, <4>1
        <4>2. CASE r # 1
          <5>1. DOMAIN periods[r] = {} /\ DOMAIN periods'[r] = {}
            BY <3>2, <4>2
          <5>2. [i \in DOMAIN periods[r] |-> periods[r][i]] = [i \in DOMAIN periods'[r] |-> periods'[r][i]]
            BY <5>1
          <5> QED BY <3>3, <5>2
        <4> QED BY <4>1, <4>2
      <3>5. /\ periods = [r \in RevisionId |-> periods[r]]
            /\ periods' = [r \in RevisionId |-> periods'[r]]
        BY <1>3, <2>8 DEF RowsInPlace
      <3> QED BY <3>4, <3>5
    <2>10. BreakStep
      BY <2>9 DEF BreakStep
    <2>11. ClockStep
      <3>1. CASE draft = 1
        <4>1. ClockOverlaps(periods[1], bells'[1]) = {}
          BY <1>1, <2>3, <3>1 DEF InOrder
        <4> QED BY <1>2, <1>3, <2>7, <2>8, <4>1, CheckedWriteAllowed
      <3>2. CASE draft # 1
        <4>1. bells'[1] = bells[1]
          BY <1>2, <2>3, <3>2
        <4> QED BY <2>7, <4>1, SameRowsAllowed
      <3> QED BY <3>1, <3>2
    <2> QED BY <2>7, <2>10, <2>11
  <1> QED BY <1>4, <1>5

\* DeletePeriod: taking a period with times away leaves the rest in order.
LEMMA DeletePeriodKeepsInv ==
    ASSUME CalendarInv, NEW id \in PeriodId, DeletePeriod(id)
    PROVE  CalendarInv' /\ BreakStep /\ ClockStep
  <1> DEFINE marker == Restrict(Markers(draft), DOMAIN periods[draft] \ {id})
  <1>1. draft # NULL /\ id \in DOMAIN periods[draft] /\ UNCHANGED lifecycle
    BY DEF DeletePeriod, Deletable
  <1>2. PICK pos \in Sorted(periods) :
            LET target == FirstRow(pos, id)
            IN  \/ target[1] # draft /\ Fail
                \/ /\ WritePeriodSequence(Without(pos, target), marker)
                   /\ bells' = [bells EXCEPT ![target[1]] = Restrict(@, DOMAIN @ \ {id})]
    BY DEF DeletePeriod
  <1> DEFINE target == FirstRow(pos, id)
             rest == Without(pos, target)
  <1>3. NumberRows(periods, PeriodId) /\ IsFiniteSet(PeriodId) /\ RowsInPlace
    BY CalendarAssumption DEF CalendarInv, RowsInPlace
  <1>4. 1 \in RevisionId /\ 1 \in live /\ live \subseteq RevisionId /\ draft \in live
    BY <1>1, PointerFacts DEF CalendarInv, Pointers
  <1>5. /\ DOMAIN pos = Rows(periods) /\ Numbering(pos) /\ DOMAIN pos \subseteq live \X PeriodId
        /\ target \in DOMAIN pos /\ target = <<target[1], id>>
        /\ (FirstSetup => target[1] = draft)
    BY <1>1, <1>3, TargetFound
  <1>6. \/ target[1] # draft /\ Fail
        \/ /\ WritePeriodSequence(rest, marker)
           /\ bells' = [bells EXCEPT ![target[1]] = Restrict(@, DOMAIN @ \ {id})]
    BY <1>2
  <1> HIDE DEF target
  <1>7. /\ Numbering(rest) /\ DOMAIN rest = DOMAIN pos \ {target}
        /\ \A x, y \in DOMAIN pos \ {target} : pos[x] < pos[y] => rest[x] < rest[y]
    BY <1>5, WithoutNumbers
  <1> HIDE DEF rest
  <1>8. CASE target[1] # draft /\ Fail
    <2>1. CalendarInv' /\ PeriodsKept
      BY <1>1, <1>5, <1>8, FailureKeepsInv DEF FirstSetup
    <2> QED BY <2>1, KeptPeriodsAllowed
  <1>9. CASE /\ WritePeriodSequence(rest, marker)
             /\ bells' = [bells EXCEPT ![target[1]] = Restrict(@, DOMAIN @ \ {id})]
    <2> DEFINE t == target[1]
    <2>1. t \in RevisionId /\ t \in live /\ id \in DOMAIN periods[t]
      <3>1. /\ \A x \in Rows(periods) : x[1] \in live /\ x[2] \in DOMAIN periods[x[1]]
        BY <1>3, <1>4, RowsAre
      <3> QED BY <1>4, <1>5, <3>1
    <2> HIDE DEF marker
    <2>2. /\ bells = [s \in RevisionId |-> bells[s]]
          /\ \A s \in RevisionId : bells[s] \in [DOMAIN periods[s] -> Bell \union {NoBell}]
      BY <1>3 DEF RowsInPlace
    <2>3. bells'[t] = Restrict(bells[t], DOMAIN periods[t] \ {id})
          /\ \A s \in RevisionId \ {t} : bells'[s] = bells[s]
      <3>1. bells' = [bells EXCEPT ![t] = Restrict(bells[t], DOMAIN bells[t] \ {id})]
        BY <1>9
      <3>2. DOMAIN bells[t] = DOMAIN periods[t]
        BY <2>1, <2>2
      <3> QED BY <2>1, <2>2, <3>1, <3>2
    <2>4. bells' = [s \in RevisionId |-> bells'[s]]
      BY <1>9, <2>2
    <2> HIDE DEF t
    <2>5. \A s \in RevisionId :
            /\ bells'[s] \in [DOMAIN bells'[s] -> Bell \union {NoBell}]
            /\ DOMAIN bells'[s] = DOMAIN periods[s] \ IF s = t THEN {id} ELSE {}
      <3>1. /\ bells'[t] \in [DOMAIN bells'[t] -> Bell \union {NoBell}]
            /\ DOMAIN bells'[t] = DOMAIN periods[t] \ {id}
        BY <2>1, <2>2, <2>3 DEF Restrict
      <3> QED BY <2>2, <2>3, <3>1
    <2>6. \A s \in RevisionId : \A i : <<s, i>> \in DOMAIN rest <=> i \in DOMAIN bells'[s]
      <3>1. \A s \in RevisionId : \A i : <<s, i>> \in DOMAIN pos <=> s \in live /\ i \in DOMAIN periods[s]
        BY <1>3, <1>4, <1>5, RowsAre
      <3>2. \A s \in RevisionId : \A i : <<s, i>> = target <=> s = t /\ i = id
        BY <1>5 DEF t
      <3>3. \A s \in RevisionId \ live : DOMAIN periods[s] = {}
        BY <1>3 DEF RowsInPlace
      <3> SUFFICES ASSUME NEW s \in RevisionId, NEW i
                   PROVE  <<s, i>> \in DOMAIN rest <=> i \in DOMAIN bells'[s]
        OBVIOUS
      <3>4. <<s, i>> \in DOMAIN rest <=> i \in DOMAIN periods[s] /\ ~(s = t /\ i = id)
        BY <1>7, <3>1, <3>2, <3>3
      <3>5. i \in DOMAIN bells'[s] <=> i \in DOMAIN periods[s] /\ ~(s = t /\ i = id)
        BY <2>5
      <3> QED BY <3>4, <3>5
    <2>7. PeriodsRewritten(rest, marker)
      BY <1>5, <1>7, <1>9, <2>4, <2>5, <2>6 DEF PeriodsRewritten
    <2>8. /\ CalendarInv' /\ MarkersWritten(marker)
          /\ \A r \in RevisionId : \A i :
                /\ i \in DOMAIN periods'[r] <=> <<r, i>> \in DOMAIN rest
                /\ i \in DOMAIN periods'[r] => periods'[r][i] = rest[<<r, i>>]
      BY <1>1, <2>7, PeriodWriteKeepsInv
    <2>9. DOMAIN periods'[1] = DOMAIN periods[1] \ IF 1 = t THEN {id} ELSE {}
      BY <1>4, <2>5, <2>6, <2>8
    <2>10. BreakStep
      <3>1. FirstSetup => \A i \in DOMAIN periods[1] \intersect DOMAIN periods'[1] :
                            i \in DOMAIN marker /\ marker[i] = Markers(1)[i]
        <4> SUFFICES ASSUME FirstSetup, NEW i \in DOMAIN periods[1] \intersect DOMAIN periods'[1]
                     PROVE  i \in DOMAIN marker /\ marker[i] = Markers(1)[i]
          OBVIOUS
        <4>1. draft = 1 /\ t = 1
          BY <1>5, SetupNumbers DEF t
        <4>2. i \in DOMAIN periods[1] \ {id}
          BY <2>9, <4>1
        <4> QED BY <4>1, <4>2 DEF marker, Restrict
      <3> QED BY <2>8, <3>1, MarkersKept
    <2>11. ASSUME NEW p \in DOMAIN periods'[1], NEW q \in DOMAIN periods'[1], periods[1][p] < periods[1][q]
           PROVE  periods'[1][p] < periods'[1][q]
      <3> DEFINE x == <<1, p>>
                 y == <<1, q>>
      <3>1. x \in DOMAIN rest /\ y \in DOMAIN rest /\ periods'[1][p] = rest[x] /\ periods'[1][q] = rest[y]
        BY <1>4, <2>8
      <3>2. Idx(periods, x) < Idx(periods, y)
        BY <2>11 DEF Idx
      <3>3. \A u, v \in Rows(periods) : Idx(periods, u) < Idx(periods, v) => pos[u] < pos[v]
        BY <1>3, <1>4, SortedNumbers
      <3> HIDE DEF x, y
      <3> QED BY <1>5, <1>7, <3>1, <3>2, <3>3
    <2>12. ClockStep
      <3>1. CASE t # 1
        <4>1. DOMAIN periods'[1] = DOMAIN periods[1] /\ bells'[1] = bells[1]
          BY <1>4, <2>3, <2>9, <3>1
        <4> QED BY <4>1, SameRowsAllowed
      <3>2. CASE t = 1 /\ bells[1][id] = NoBell
        <4>1. id \in DOMAIN periods[1] \ DOMAIN periods'[1]
          BY <2>1, <2>9, <3>2
        <4> QED BY <3>2, <4>1 DEF ClockStep
      <3>3. CASE t = 1 /\ bells[1][id] # NoBell /\ ClockOverlaps(periods[1], bells[1]) = {}
        <4>1. /\ periods[1] \in [DOMAIN periods[1] -> Nat] /\ IsInjective(periods[1])
          BY <1>3, <1>4 DEF NumberRows
        <4>2. periods'[1] \in [DOMAIN periods'[1] -> Nat]
          BY <1>4, <2>8 DEF CalendarInv, RowsInPlace, NumberRows
        <4>3. DOMAIN periods'[1] = DOMAIN periods[1] \ {id} /\ id \in DOMAIN periods[1]
          BY <2>1, <2>9, <3>3
        <4>4. bells[1] \in [DOMAIN periods[1] -> Bell \union {NoBell}]
          BY <1>4, <2>2
        <4>5. ClockOverlaps(periods'[1], Restrict(bells[1], DOMAIN periods[1] \ {id})) = {}
          BY <2>11, <3>3, <4>1, <4>2, <4>3, <4>4, TakenOutInOrder
        <4> QED BY <2>3, <3>3, <4>5 DEF ClockStep
      <3> QED BY <3>1, <3>2, <3>3 DEF ClockStep
    <2> QED BY <2>8, <2>10, <2>12
  <1> QED BY <1>6, <1>8, <1>9

\* MovePeriod: the bell times stay with their periods, and the markers too.
LEMMA MovePeriodKeepsInv ==
    ASSUME CalendarInv, NEW id \in PeriodId, NEW direction \in {"up", "down"}, MovePeriod(id, direction)
    PROVE  CalendarInv' /\ BreakStep /\ ClockStep
  <1>1. /\ draft # NULL /\ id \in DOMAIN periods[draft] /\ CanMove(periods, id, direction)
        /\ UNCHANGED lifecycle /\ UNCHANGED bells
    BY DEF MovePeriod
  <1>2. PICK pos \in Sorted(periods) :
            LET a == FirstRow(pos, id)
                b == Neighbour(pos, a, direction)
            IN  WritePeriodSequence(Swapped(pos, a, b), Markers(draft))
    BY DEF MovePeriod
  <1> DEFINE a == FirstRow(pos, id)
             b == Neighbour(pos, a, direction)
             swapped == Swapped(pos, a, b)
  <1>3. NumberRows(periods, PeriodId) /\ IsFiniteSet(PeriodId) /\ RowsInPlace
    BY CalendarAssumption DEF CalendarInv, RowsInPlace
  <1>4. 1 \in RevisionId /\ live \subseteq RevisionId /\ draft \in live
    BY <1>1, PointerFacts DEF CalendarInv
  <1>5. a \in DOMAIN pos /\ b \in DOMAIN pos
    BY <1>1, <1>3, <1>4, NeighbourFound
  <1>6. /\ DOMAIN pos = Rows(periods) /\ Numbering(pos) /\ DOMAIN pos \subseteq live \X PeriodId
    BY <1>1, <1>3, TargetFound
  <1>7. WritePeriodSequence(swapped, Markers(draft))
    BY <1>2
  <1> HIDE DEF a, b
  <1>8. DOMAIN swapped = DOMAIN pos /\ Numbering(swapped)
    BY <1>5, <1>6, SwappedNumbers
  <1> HIDE DEF swapped
  <1>9. /\ bells' = [s \in RevisionId |-> bells'[s]]
        /\ \A s \in RevisionId : bells'[s] \in [DOMAIN periods[s] -> Bell \union {NoBell}]
        /\ \A s \in RevisionId \ live : DOMAIN periods[s] = {}
    BY <1>1, <1>3 DEF RowsInPlace
  <1>10. \A s \in RevisionId : \A i : <<s, i>> \in DOMAIN swapped <=> i \in DOMAIN periods[s]
    <2>1. \A s \in RevisionId : \A i : <<s, i>> \in DOMAIN pos <=> s \in live /\ i \in DOMAIN periods[s]
      BY <1>3, <1>4, <1>6, RowsAre
    <2> QED BY <1>8, <1>9, <2>1
  <1>11. PeriodsRewritten(swapped, Markers(draft))
    BY <1>6, <1>7, <1>8, <1>9, <1>10 DEF PeriodsRewritten
  <1>12. /\ CalendarInv' /\ MarkersWritten(Markers(draft))
         /\ \A r \in RevisionId : \A i : i \in DOMAIN periods'[r] <=> <<r, i>> \in DOMAIN swapped
    BY <1>1, <1>11, PeriodWriteKeepsInv
  <1>13. DOMAIN periods'[1] = DOMAIN periods[1] /\ bells'[1] = bells[1]
    BY <1>1, <1>4, <1>10, <1>12
  <1>14. FirstSetup => \A i \in DOMAIN periods[1] \intersect DOMAIN periods'[1] :
                            i \in DOMAIN Markers(draft) /\ Markers(draft)[i] = Markers(1)[i]
    <2>1. DOMAIN Markers(1) = DOMAIN periods[1]
      BY DEF Markers
    <2>2. FirstSetup => draft = 1
      BY SetupNumbers
    <2> QED BY <2>1, <2>2
  <1>15. BreakStep
    BY <1>12, <1>14, MarkersKept
  <1>16. ClockStep
    BY <1>13, SameRowsAllowed
  <1> QED BY <1>12, <1>15, <1>16

-----------------------------------------------------------------------------
(* The revision lifecycle *)

\* BeginDraft: the new revision's rows are those of the published one.
LEMMA BeginDraftKeepsInv ==
    ASSUME CalendarInv, BeginDraft
    PROVE  CalendarInv' /\ BreakStep /\ ClockStep
  <1>1. /\ draft = NULL /\ published' = published /\ outcome' = "done"
        /\ published # NULL /\ published \in live /\ published \in RevisionId
        /\ 1 \in live /\ 1 \in RevisionId /\ live \subseteq RevisionId
    BY PointerFacts DEF BeginDraft, Succeed, CalendarInv, Pointers
  <1>2. PICK r \in RevisionId \ live :
            /\ live' = live \union {r} /\ draft' = r
            /\ days' = [days EXCEPT ![r] = days[published]]
            /\ periods' = [periods EXCEPT ![r] = periods[published]]
            /\ blocks' = [blocks EXCEPT ![r] = blocks[published]]
            /\ bells' = [bells EXCEPT ![r] = bells[published]]
    BY DEF BeginDraft
  <1>3. r # 1 /\ r # published /\ r # NULL
    BY <1>1, PointerFacts DEF CalendarInv
  <1>4. RowsInPlace
    BY DEF CalendarInv
  <1>5. \A s \in RevisionId :
            /\ days'[s] = days[IF s = r THEN published ELSE s]
            /\ periods'[s] = periods[IF s = r THEN published ELSE s]
            /\ blocks'[s] = blocks[IF s = r THEN published ELSE s]
            /\ bells'[s] = bells[IF s = r THEN published ELSE s]
    BY <1>2, <1>4 DEF RowsInPlace
  <1>6. Pointers'
    BY <1>1, <1>2, <1>3 DEF Pointers
  <1>7. RowsInPlace'
    <2>1. /\ days' = [s \in RevisionId |-> days'[s]] /\ periods' = [s \in RevisionId |-> periods'[s]]
          /\ blocks' = [s \in RevisionId |-> blocks'[s]] /\ bells' = [s \in RevisionId |-> bells'[s]]
      BY <1>2, <1>4 DEF RowsInPlace
    <2>2. NumberRows(days', DayId) /\ NumberRows(periods', PeriodId)
      BY <1>1, <1>4, <1>5 DEF RowsInPlace, NumberRows
    <2>3. ASSUME NEW s \in RevisionId
          PROVE  /\ blocks'[s] \in [DOMAIN periods'[s] -> Nat]
                 /\ bells'[s] \in [DOMAIN periods'[s] -> Bell \union {NoBell}]
                 /\ s \notin live' => DOMAIN days'[s] = {} /\ DOMAIN periods'[s] = {}
      <3>1. CASE s = r
        BY <1>1, <1>2, <1>4, <1>5, <3>1 DEF RowsInPlace
      <3>2. CASE s # r
        BY <1>2, <1>4, <1>5, <3>2 DEF RowsInPlace
      <3> QED BY <3>1, <3>2
    <2> QED BY <2>1, <2>2, <2>3 DEF RowsInPlace, NumberRows
  <1>8. ~FirstSetup'
    BY <1>1 DEF FirstSetup
  <1>9. periods'[1] = periods[1] /\ bells'[1] = bells[1]
    BY <1>1, <1>3, <1>5
  <1>10. BreakStep
    BY <1>8 DEF BreakStep
  <1>11. ClockStep
    BY <1>9, SameRowsAllowed
  <1> QED BY <1>1, <1>6, <1>7, <1>8, <1>10, <1>11 DEF CalendarInv

\* DiscardDraft: the draft and its rows go; it is never the first revision.
LEMMA DiscardDraftKeepsInv ==
    ASSUME CalendarInv, DiscardDraft
    PROVE  CalendarInv' /\ BreakStep /\ ClockStep
  <1>1. /\ draft # NULL /\ published # NULL /\ published' = published /\ outcome' = "done"
        /\ live' = live \ {draft} /\ draft' = NULL
        /\ days' = [days EXCEPT ![draft] = NoRows]
        /\ periods' = [periods EXCEPT ![draft] = NoRows]
        /\ blocks' = [blocks EXCEPT ![draft] = NoRows]
        /\ bells' = [bells EXCEPT ![draft] = NoRows]
    BY DEF DiscardDraft, Succeed
  <1>2. /\ draft \in RevisionId /\ draft # 1 /\ draft # published
        /\ 1 \in RevisionId /\ 1 \in live /\ live \subseteq RevisionId /\ published \in live
    BY <1>1, PointerFacts DEF CalendarInv, Pointers
  <1>3. RowsInPlace
    BY DEF CalendarInv
  <1>4. /\ days'[draft] = NoRows /\ periods'[draft] = NoRows
        /\ blocks'[draft] = NoRows /\ bells'[draft] = NoRows
        /\ \A s \in RevisionId \ {draft} :
            days'[s] = days[s] /\ periods'[s] = periods[s] /\ blocks'[s] = blocks[s] /\ bells'[s] = bells[s]
    BY <1>1, <1>2, <1>3 DEF RowsInPlace
  <1>5. Pointers'
    BY <1>1, <1>2 DEF Pointers, NULL
  <1>6. DOMAIN NoRows = {} /\ (\A T : NoRows \in [{} -> T]) /\ IsInjective(NoRows)
    BY DEF NoRows, IsInjective
  <1> HIDE DEF NoRows
  <1>7. RowsInPlace'
    <2>1. /\ days' = [s \in RevisionId |-> days'[s]] /\ periods' = [s \in RevisionId |-> periods'[s]]
          /\ blocks' = [s \in RevisionId |-> blocks'[s]] /\ bells' = [s \in RevisionId |-> bells'[s]]
      BY <1>1, <1>3 DEF RowsInPlace
    <2>2. ASSUME NEW s \in RevisionId
          PROVE  /\ days'[s] \in [DOMAIN days'[s] -> Nat] /\ DOMAIN days'[s] \subseteq DayId
                 /\ IsInjective(days'[s])
                 /\ periods'[s] \in [DOMAIN periods'[s] -> Nat] /\ DOMAIN periods'[s] \subseteq PeriodId
                 /\ IsInjective(periods'[s])
                 /\ blocks'[s] \in [DOMAIN periods'[s] -> Nat]
                 /\ bells'[s] \in [DOMAIN periods'[s] -> Bell \union {NoBell}]
                 /\ s \notin live' => DOMAIN days'[s] = {} /\ DOMAIN periods'[s] = {}
      <3>1. CASE s = draft
        BY <1>4, <1>6, <3>1
      <3>2. CASE s # draft
        BY <1>1, <1>3, <1>4, <3>2 DEF RowsInPlace, NumberRows
      <3> QED BY <3>1, <3>2
    <2> QED BY <2>1, <2>2 DEF RowsInPlace, NumberRows
  <1>8. ~FirstSetup'
    BY <1>1 DEF FirstSetup
  <1>9. periods'[1] = periods[1] /\ bells'[1] = bells[1]
    BY <1>2, <1>4
  <1>10. BreakStep
    BY <1>8 DEF BreakStep
  <1>11. ClockStep
    BY <1>9, SameRowsAllowed
  <1> QED BY <1>1, <1>5, <1>7, <1>8, <1>10, <1>11 DEF CalendarInv

\* Publish: the rows stay, and the first setup is over.
LEMMA PublishKeepsInv ==
    ASSUME CalendarInv, Publish
    PROVE  CalendarInv' /\ BreakStep /\ ClockStep
  <1>1. /\ draft # NULL /\ published' = draft /\ draft' = NULL /\ outcome' = "done"
        /\ UNCHANGED <<live, days, periods, blocks, bells>>
    BY DEF Publish, Succeed, calendar
  <1>2. Pointers'
    BY <1>1, PointerFacts DEF CalendarInv, Pointers
  <1>3. RowsInPlace'
    BY <1>1 DEF CalendarInv, RowsInPlace, NumberRows
  <1>4. ~FirstSetup'
    BY <1>1 DEF FirstSetup
  <1>5. BreakStep
    BY <1>4 DEF BreakStep
  <1>6. ClockStep
    BY <1>1, SameRowsAllowed
  <1> QED BY <1>1, <1>2, <1>3, <1>4, <1>5, <1>6 DEF CalendarInv

-----------------------------------------------------------------------------
(* Every behaviour *)

\* A new year has one revision and an empty calendar.
LEMMA InitMakesInv == Init => CalendarInv
  <1> SUFFICES ASSUME Init
               PROVE  CalendarInv
    OBVIOUS
  <1>1. 1 \in RevisionId
    BY CalendarAssumption DEF RevisionId
  <1>2. DOMAIN NoRows = {} /\ (\A T : NoRows \in [{} -> T]) /\ IsInjective(NoRows) /\ NoRows \in [DOMAIN NoRows -> Nat]
    BY DEF NoRows, IsInjective
  <1>3. Contiguous(NoRows)
    <2>1. Range(NoRows) = {}
      BY <1>2 DEF Range
    <2>2. Cardinality(DOMAIN NoRows) = 0
      BY <1>2, FS_EmptySet
    <2>3. 0..(0 - 1) = {}
      OBVIOUS
    <2> QED BY <2>1, <2>2, <2>3 DEF Contiguous
  <1> HIDE DEF NoRows
  <1>4. /\ live = {1} /\ draft = 1 /\ published = NULL /\ outcome = "done"
        /\ days = [r \in RevisionId |-> NoRows] /\ periods = [r \in RevisionId |-> NoRows]
        /\ blocks = [r \in RevisionId |-> NoRows] /\ bells = [r \in RevisionId |-> NoRows]
    BY DEF Init
  <1>5. Pointers
    BY <1>1, <1>4 DEF Pointers, NULL
  <1>6. RowsInPlace
    <2>1. /\ days = [r \in RevisionId |-> days[r]] /\ periods = [r \in RevisionId |-> periods[r]]
          /\ blocks = [r \in RevisionId |-> blocks[r]] /\ bells = [r \in RevisionId |-> bells[r]]
      BY <1>4
    <2>2. \A r \in RevisionId : days[r] = NoRows /\ periods[r] = NoRows /\ blocks[r] = NoRows /\ bells[r] = NoRows
      BY <1>4
    <2> QED BY <1>2, <2>1, <2>2 DEF RowsInPlace, NumberRows
  <1>7. InSetup
    <2>1. days[1] = NoRows /\ periods[1] = NoRows
      BY <1>1, <1>4
    <2> QED BY <1>2, <1>3, <1>4, <2>1 DEF InSetup, BlocksFollow
  <1> QED BY <1>4, <1>5, <1>6, <1>7 DEF CalendarInv

\* Every step of the calendar's writers keeps the invariant and is one the two
\* action properties allow.
LEMMA StepKeepsInv ==
    ASSUME CalendarInv, Next
    PROVE  CalendarInv' /\ BreakStep /\ ClockStep
  <1>1. ASSUME DayService
        PROVE  CalendarInv' /\ BreakStep /\ ClockStep
    <2>1. PICK id \in DayId :
            \/ CreateDay(id) \/ UpdateDay(id) \/ DeleteDay(id)
            \/ \E direction \in {"up", "down"} : MoveDay(id, direction)
      BY <1>1 DEF DayService
    <2>2. CalendarInv' /\ PeriodsKept
      BY <2>1, CreateDayKeepsInv, UpdateDayKeepsInv, DeleteDayKeepsInv, MoveDayKeepsInv
    <2> QED BY <2>2, KeptPeriodsAllowed
  <1>2. ASSUME PeriodService
        PROVE  CalendarInv' /\ BreakStep /\ ClockStep
    <2>1. PICK id \in PeriodId :
            \/ \E starts \in BOOLEAN, bell \in Bell \union {NoBell} :
                    CreatePeriod(id, starts, bell) \/ UpdatePeriod(id, starts, bell)
            \/ DeletePeriod(id)
            \/ \E direction \in {"up", "down"} : MovePeriod(id, direction)
      BY <1>2 DEF PeriodService
    <2>2. CASE \E starts \in BOOLEAN, bell \in Bell \union {NoBell} :
                    CreatePeriod(id, starts, bell) \/ UpdatePeriod(id, starts, bell)
      BY <2>2, CreatePeriodKeepsInv, UpdatePeriodKeepsInv
    <2>3. CASE DeletePeriod(id)
      BY <2>3, DeletePeriodKeepsInv
    <2>4. CASE \E direction \in {"up", "down"} : MovePeriod(id, direction)
      BY <2>4, MovePeriodKeepsInv
    <2> QED BY <2>1, <2>2, <2>3, <2>4
  <1> QED BY <1>1, <1>2, BeginDraftKeepsInv, DiscardDraftKeepsInv, PublishKeepsInv DEF Next

\* A step that changes nothing keeps the invariant.
LEMMA StutterKeepsInv ==
    ASSUME CalendarInv, UNCHANGED vars
    PROVE  CalendarInv'
  <1>1. UNCHANGED <<live, draft, published, days, periods, blocks, bells, outcome>>
    BY DEF vars, lifecycle, calendar
  <1> QED BY <1>1 DEF CalendarInv, Pointers, RowsInPlace, NumberRows, FirstSetup, InSetup,
                      Contiguous, BlocksFollow

\* Whatever day, period and lifecycle requests come, in whatever order and
\* however the database breaks ties: only revisions that exist have rows, each
\* period's row is complete, positions are distinct, the pointers name
\* revisions that exist, and the first setup's calendar is numbered without a
\* gap, with blocks that go up by one at most.
THEOREM CalendarInvariant == Spec => []CalendarInv
  <1>1. CalendarInv /\ [Next]_vars => CalendarInv'
    BY StepKeepsInv, StutterKeepsInv
  <1> QED BY InitMakesInv, <1>1, PTL DEF Spec

\* The tables hold what their columns may: positions and block numbers are
\* natural numbers, bell times are pairs, and the pointers name revisions.
THEOREM CalendarTypeCorrect == Spec => []TypeOK
  <1>1. CalendarInv => TypeOK
    <2> SUFFICES ASSUME CalendarInv
                 PROVE  TypeOK
      OBVIOUS
    <2>1. /\ live \subseteq RevisionId /\ draft \in live \union {NULL} /\ published \in live \union {NULL}
          /\ outcome \in {"done", "failed"}
      BY DEF CalendarInv, Pointers
    <2>2. ASSUME NEW r \in RevisionId
          PROVE  /\ DOMAIN days[r] \subseteq DayId /\ Range(days[r]) \subseteq Nat
                 /\ DOMAIN periods[r] \subseteq PeriodId /\ Range(periods[r]) \subseteq Nat
                 /\ DOMAIN blocks[r] = DOMAIN periods[r] /\ Range(blocks[r]) \subseteq Nat
                 /\ DOMAIN bells[r] = DOMAIN periods[r] /\ Range(bells[r]) \subseteq Bell \union {NoBell}
      <3>1. /\ days[r] \in [DOMAIN days[r] -> Nat] /\ DOMAIN days[r] \subseteq DayId
            /\ periods[r] \in [DOMAIN periods[r] -> Nat] /\ DOMAIN periods[r] \subseteq PeriodId
            /\ blocks[r] \in [DOMAIN periods[r] -> Nat]
            /\ bells[r] \in [DOMAIN periods[r] -> Bell \union {NoBell}]
        BY DEF CalendarInv, RowsInPlace, NumberRows
      <3> QED BY <3>1 DEF Range
    <2> QED BY <2>1, <2>2 DEF TypeOK
  <1> QED BY <1>1, CalendarInvariant, PTL

\* No two days and no two periods of a revision ever share a position,
\* whatever rows of whatever revisions the writers meet.
THEOREM PositionsStayDistinct == Spec => []DistinctPositions
  <1>1. CalendarInv => DistinctPositions
    BY DEF CalendarInv, RowsInPlace, NumberRows, DistinctPositions
  <1> QED BY <1>1, CalendarInvariant, PTL

\* Until the first timetable, no calendar write fails after its validation.
THEOREM SetupWritesNeverFail == Spec => []SetupNeverFails
  <1>1. CalendarInv => SetupNeverFails
    BY DEF CalendarInv, InSetup, SetupNeverFails
  <1> QED BY <1>1, CalendarInvariant, PTL

\* Until the first timetable, days, periods and blocks have the shape that
\* preflight demands.
THEOREM SetupCalendarIsShaped == Spec => []SetupCalendarShape
  <1>1. CalendarInv => SetupCalendarShape
    <2> SUFFICES ASSUME CalendarInv, FirstSetup
                 PROVE  /\ Contiguous(days[1]) /\ Contiguous(periods[1])
                        /\ \A p, q \in PeriodId :
                            {p, q} \subseteq DOMAIN periods[1] =>
                                /\ periods[1][p] = 0 => blocks[1][p] = 0
                                /\ periods[1][q] = periods[1][p] + 1 => blocks[1][q] - blocks[1][p] \in {0, 1}
      BY DEF SetupCalendarShape
    <2>1. /\ Contiguous(days[1]) /\ Contiguous(periods[1]) /\ BlocksFollow(periods[1], blocks[1])
      BY DEF CalendarInv, InSetup
    <2>2. \A p \in DOMAIN periods[1] : blocks[1][p] \in Nat
      <3>1. 1 \in RevisionId
        BY CalendarAssumption DEF RevisionId
      <3>2. blocks[1] \in [DOMAIN periods[1] -> Nat]
        BY <3>1 DEF CalendarInv, RowsInPlace
      <3> QED BY <3>2
    <2>3. ASSUME NEW p \in DOMAIN periods[1], NEW q \in DOMAIN periods[1]
          PROVE  /\ periods[1][p] = 0 => blocks[1][p] = 0
                 /\ periods[1][q] = periods[1][p] + 1 => blocks[1][q] - blocks[1][p] \in {0, 1}
      BY <2>1, <2>2 DEF BlocksFollow
    <2> QED BY <2>1, <2>3
  <1> QED BY <1>1, CalendarInvariant, PTL

\* Until the first timetable, creating, deleting and moving periods changes no
\* other period's break marker, but that the first period always has one.
THEOREM BreaksStayWithPeriods == Spec => BreaksTravelWithPeriods
  <1>1. CalendarInv /\ [Next]_vars =>
            [(FirstSetup /\ FirstSetup' /\ periods' # periods) =>
                \A id \in DOMAIN periods[1] \intersect DOMAIN periods'[1] :
                    periods'[1][id] # 0 => Markers(1)'[id] = Markers(1)[id]]_vars
    BY StepKeepsInv DEF BreakStep
  <1> QED BY <1>1, CalendarInvariant, PTL DEF Spec, BreaksTravelWithPeriods

\* The first revision's bell times get out of order only by a move, or when a
\* period without times is taken from between two others.
THEOREM ClockOrderIsLostOnlyByReordering == Spec => ClockOrderLostOnlyByReordering
  <1>1. CalendarInv /\ [Next]_vars =>
            [\/ ClockOverlaps(periods[1], bells[1]) # {}
             \/ ClockOverlaps(periods'[1], bells'[1]) = {}
             \/ DOMAIN periods'[1] = DOMAIN periods[1] /\ periods'[1] # periods[1]
             \/ \E id \in DOMAIN periods[1] \ DOMAIN periods'[1] :
                    bells[1][id] = NoBell]_<<periods, bells>>
    <2> SUFFICES ASSUME CalendarInv, [Next]_vars
                 PROVE  ClockStep \/ UNCHANGED <<periods, bells>>
      BY DEF ClockStep
    <2>1. CASE Next
      BY <2>1, StepKeepsInv
    <2>2. CASE UNCHANGED vars
      BY <2>2 DEF vars, calendar
    <2> QED BY <2>1, <2>2
  <1> QED BY <1>1, CalendarInvariant, PTL DEF Spec, ClockOrderLostOnlyByReordering
=============================================================================
