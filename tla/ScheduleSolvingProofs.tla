------------------------- MODULE ScheduleSolvingProofs -------------------------
(***************************************************************************)
(* What holds of locks through the life of a timetable, for any problems,  *)
(* timetables and solver: moves by hand, solves and regenerations.         *)
(*                                                                         *)
(* A lock names an occurrence by its first lesson.  That the occurrence is *)
(* still the one that was locked rests on the rules about blocks of a day  *)
(* and about the branches of a split.                                      *)
(***************************************************************************)
EXTENDS ScheduleSolving, NumberSets

Triples(e) == \A x \in e : x = <<x[1], x[2], x[3]>>

\* The entries of the active version name rows of its configuration, and few
\* occurrences are locked.
SolvingInv ==
    /\ problem \in Problems
    /\ Triples(entries) /\ Storable(problem, entries)
    /\ IsFiniteSet(locked)
    /\ earlier \in Solved \cup {NoProblem}

-----------------------------------------------------------------------------
(***************************************************************************)
(* Occurrences.                                                            *)
(***************************************************************************)
LEMMA PeriodsOnMembers ==
    ASSUME NEW e, Triples(e), NEW r, NEW d, NEW p
    PROVE  p \in PeriodsOn(e, r, d) <=> <<r, d, p>> \in e
  BY DEF PeriodsOn, Triples

\* The branches of a branch are those of the requirement.
LEMMA BranchesOfBranch ==
    ASSUME NEW pr, NEW r \in pr.req, NEW s \in Branches(pr, r)
    PROVE  s \in pr.req /\ r \in Branches(pr, s) /\ Branches(pr, s) = Branches(pr, r)
  BY DEF Branches

LEMMA BranchesTogether ==
    ASSUME NEW pr, NEW e, Triples(e), SplitsSynchronized(pr, e),
           NEW r \in pr.req, NEW s \in Branches(pr, r), NEW d
    PROVE  PeriodsOn(e, s, d) = PeriodsOn(e, r, d)
  <1> DEFINE At(a) == {<<x[2], x[3]>> : x \in {y \in e : y[1] = a}}
  <1>1. At(r) = At(s)
    BY DEF SplitsSynchronized
  <1>2. ASSUME NEW a, NEW p
        PROVE  <<d, p>> \in At(a) <=> p \in PeriodsOn(e, a, d)
    <2>1. ASSUME <<d, p>> \in At(a)
          PROVE  <<a, d, p>> \in e
      <3>1. PICK y \in e : y[1] = a /\ <<y[2], y[3]>> = <<d, p>>
        BY <2>1
      <3> QED BY <3>1 DEF Triples
    <2>2. ASSUME <<a, d, p>> \in e
          PROVE  <<d, p>> \in At(a)
      BY <2>2
    <2> QED BY <2>1, <2>2, PeriodsOnMembers
  <1> QED
    <2>1. \A p : p \in PeriodsOn(e, s, d) <=> p \in PeriodsOn(e, r, d)
      BY <1>1, <1>2
    <2>2. PeriodsOn(e, s, d) \subseteq PeriodsOn(e, r, d) /\ PeriodsOn(e, r, d) \subseteq PeriodsOn(e, s, d)
      BY <2>1
    <2> QED BY <2>2

\* The lessons of an occurrence have the block of its periods in common.
LEMMA BlockOfMember ==
    ASSUME NEW pr \in Problems, NEW e, Triples(e), SplitsSynchronized(pr, e),
           NEW r \in pr.req, NEW s \in Branches(pr, r), NEW d, NEW p,
           NEW q \in BlockPeriods(pr, e, r, d, p)
    PROVE  BlockPeriods(pr, e, s, d, q) = BlockPeriods(pr, e, r, d, p)
  <1>1. WholeDay(pr, s) <=> WholeDay(pr, r)
    BY ProblemAssumption
  <1>2. PeriodsOn(e, s, d) = PeriodsOn(e, r, d)
    BY BranchesTogether
  <1> QED BY <1>1, <1>2 DEF BlockPeriods

\* Occurrences that have a lesson in common are the same, under the same keys.
LEMMA MemberHasKeys ==
    ASSUME NEW pr \in Problems, NEW e, Triples(e), SplitsSynchronized(pr, e),
           NEW r \in pr.req, NEW d, NEW p, NEW s, NEW t, NEW c, NEW q,
           <<s, c, q>> \in Occurrence(pr, e, r, d, p), q \in BlockPeriods(pr, e, s, c, t)
    PROVE  /\ s \in Branches(pr, r) /\ c = d
           /\ BlockPeriods(pr, e, s, c, q) = BlockPeriods(pr, e, r, d, p)
           /\ BlockPeriods(pr, e, s, c, t) = BlockPeriods(pr, e, r, d, p)
           /\ OccurrenceKeys(pr, e, s, c, t) = OccurrenceKeys(pr, e, r, d, p)
  <1>1. s \in Branches(pr, r) /\ c = d /\ q \in BlockPeriods(pr, e, r, d, p)
    BY DEF Occurrence
  <1>2. BlockPeriods(pr, e, s, c, q) = BlockPeriods(pr, e, r, d, p)
    BY <1>1, BlockOfMember
  <1>3. s \in pr.req /\ s \in Branches(pr, s) /\ Branches(pr, s) = Branches(pr, r)
    BY <1>1, BranchesOfBranch DEF Branches
  <1>4. BlockPeriods(pr, e, s, c, q) = BlockPeriods(pr, e, s, c, t)
    BY <1>3, BlockOfMember
  <1> QED BY <1>1, <1>2, <1>3, <1>4 DEF OccurrenceKeys

-----------------------------------------------------------------------------
(***************************************************************************)
(* What an exchange is: two occurrences change places.                     *)
(***************************************************************************)
\* Numbers without a gap, known by the least one and their count.
LEMMA RunIsInterval ==
    ASSUME NEW S \in SUBSET Nat, S # {}, IsFiniteSet(S), \A p, q \in S : p .. q \subseteq S
    PROVE  /\ Min(S) \in S /\ Cardinality(S) \in Nat \ {0}
           /\ S = Min(S) .. Min(S) + Cardinality(S) - 1
  <1> DEFINE low == Min(S)
             n == Cardinality(S)
  <1>1. low \in S /\ low \in Nat /\ \A x \in S : low <= x
    BY Smallest
  <1>2. n \in Nat /\ n # 0
    BY FS_CardinalityType, FS_EmptySet
  <1> HIDE DEF low, n
  <1>3. \A x \in S : x <= low + n - 1
    <2> SUFFICES ASSUME NEW x \in S PROVE x <= low + n - 1
      OBVIOUS
    <2>1. low .. x \in SUBSET S /\ low <= x /\ x \in Nat
      BY <1>1
    <2>2. Cardinality(low .. x) <= n
      BY <2>1, FS_Subset DEF n
    <2>3. Cardinality(low .. x) = x - low + 1
      BY <1>1, <2>1, FS_Interval
    <2> QED BY <1>1, <1>2, <2>1, <2>2, <2>3
  <1>4. S \in SUBSET (low .. low + n - 1)
    BY <1>1, <1>2, <1>3
  <1>5. IsFiniteSet(low .. low + n - 1) /\ Cardinality(low .. low + n - 1) = n
    BY <1>1, <1>2, FS_Interval
  <1>6. S = low .. low + n - 1
    <2> DEFINE T == low .. low + n - 1
    <2>1. IsFiniteSet(T) /\ S \in SUBSET T /\ Cardinality(S) = Cardinality(T)
      BY <1>4, <1>5 DEF n
    <2> HIDE DEF T
    <2>2. S = T
      BY <2>1, FS_Subset
    <2> QED BY <2>2 DEF T
  <1> QED BY <1>1, <1>2, <1>6 DEF low, n

\* The periods of an occurrence are the requirement's on that day.
LEMMA BlockOnTheDay ==
    ASSUME NEW pr, NEW e, NEW r, NEW d, NEW p, IsOccurrence(pr, e, r, d, p)
    PROVE  p \in BlockPeriods(pr, e, r, d, p) /\ BlockPeriods(pr, e, r, d, p) \subseteq PeriodsOn(e, r, d)
  BY DEF IsOccurrence, BlockPeriods

LEMMA BlockIsInterval ==
    ASSUME NEW pr \in Problems, NEW e, NEW r, NEW d, NEW p, IsOccurrence(pr, e, r, d, p)
    PROVE  LET block == BlockPeriods(pr, e, r, d, p)
           IN  /\ p \in block /\ block \subseteq PeriodsOn(e, r, d) /\ block \subseteq Periods(pr)
               /\ IsFiniteSet(block) /\ Min(block) \in block
               /\ Min(block) \in Nat /\ Cardinality(block) \in Nat \ {0}
               /\ block = Min(block) .. Min(block) + Cardinality(block) - 1
  <1> DEFINE block == BlockPeriods(pr, e, r, d, p)
  <1>1. p \in block /\ block \subseteq PeriodsOn(e, r, d)
    BY BlockOnTheDay
  <1>2. block \subseteq Periods(pr)
    BY <1>1 DEF IsOccurrence
  <1>3. block \in SUBSET Nat /\ IsFiniteSet(block)
    BY <1>2, ProblemAssumption, FS_Subset
  <1>4. \A x, y \in block : x .. y \subseteq block
    BY <1>3 DEF IsOccurrence, BlockPeriods, IsRun
  <1> HIDE DEF block
  <1>5. Min(block) \in block /\ Cardinality(block) \in Nat \ {0}
        /\ block = Min(block) .. Min(block) + Cardinality(block) - 1
    BY <1>1, <1>3, <1>4, RunIsInterval
  <1> QED BY <1>1, <1>2, <1>3, <1>5 DEF block

\* The lessons of some requirements in the periods of a day.
At(S, d, B) == S \X {d} \X B

\* The lessons of a block are shifted to those of another one.
LEMMA BlockShifted ==
    ASSUME NEW R, NEW d, NEW c, NEW B \in SUBSET Int, NEW W \in SUBSET Int, NEW k \in Int,
           \A p \in B : p + k \in W, \A p \in W : p - k \in B
    PROVE  Shifted(At(R, d, B), c, k) = At(R, c, W)
  <1> DEFINE S == Shifted(R \X {d} \X B, c, k)
  <1>1. ASSUME NEW y \in S PROVE y \in R \X {c} \X W
    <2>1. PICK x \in R \X {d} \X B : y = <<x[1], c, x[3] + k>>
      BY DEF Shifted
    <2>2. x[1] \in R /\ x[3] \in B
      OBVIOUS
    <2>3. x[3] + k \in W
      BY <2>2
    <2> QED BY <2>1, <2>2, <2>3
  <1>2. ASSUME NEW y \in R \X {c} \X W PROVE y \in S
    <2>1. y = <<y[1], c, y[3]>> /\ y[1] \in R /\ y[3] \in W
      OBVIOUS
    <2> DEFINE q == y[3] - k
    <2>2. q \in B
      BY <2>1
    <2>3. q + k = y[3]
      <3>1. y[3] \in Int
        BY <2>1
      <3> QED BY <3>1
    <2> HIDE DEF q
    <2>4. <<y[1], d, q>> \in R \X {d} \X B
      BY <2>1, <2>2
    <2> QED BY <2>1, <2>3, <2>4 DEF Shifted
  <1> QED BY <1>1, <1>2 DEF At

\* The two occurrences change places.
LEMMA ExchangePlaces ==
    ASSUME SolvingInv, NEW m, MoveAllowed(entries, m), ~StaysPut(entries, m)
    PROVE  LET r == m.lesson[1]
               other == Occupant(entries, m)
               block == BlockPeriods(problem, entries, r, m.lesson[2], m.lesson[3])
               window == TargetWindow(entries, m)
               plan == MovePlan(entries, m)
           IN  /\ IsOccurrence(problem, entries, r, m.lesson[2], m.lesson[3])
               /\ IsOccurrence(problem, entries, other, m.day, m.period)
               /\ Free(entries, r, m.lesson[2], m.lesson[3]) /\ Free(entries, other, m.day, m.period)
               /\ BlockPeriods(problem, entries, other, m.day, m.period) = window
               /\ problem.classes[other] = problem.classes[r]
               /\ block \subseteq Periods(problem) /\ window \subseteq Periods(problem)
               /\ Cardinality(window) = Cardinality(block)
               /\ plan.removed = (Branches(problem, r) \X {m.lesson[2]} \X block)
                                     \cup (Branches(problem, other) \X {m.day} \X window)
               /\ plan.added = (Branches(problem, r) \X {m.day} \X window)
                                   \cup (Branches(problem, other) \X {m.lesson[2]} \X block)
               /\ SwapAccepted(entries, plan)
  <1> DEFINE r == m.lesson[1]
             d == m.lesson[2]
             other == Occupant(entries, m)
             block == BlockPeriods(problem, entries, r, d, m.lesson[3])
             window == TargetWindow(entries, m)
             plan == MovePlan(entries, m)
             R == Branches(problem, r)
             O == Branches(problem, other)
             low == Min(block)
             n == Cardinality(block)
  <1>1. /\ IsOccurrence(problem, entries, r, d, m.lesson[3]) /\ Free(entries, r, d, m.lesson[3])
        /\ IsOccurrence(problem, entries, other, m.day, m.period) /\ Free(entries, other, m.day, m.period)
        /\ BlockPeriods(problem, entries, other, m.day, m.period) = window
        /\ problem.classes[other] = problem.classes[r]
        /\ SwapAccepted(entries, plan)
    BY DEF MoveAllowed, CanExchange
  <1>2. problem \in Problems
    BY DEF SolvingInv
  <1>3. /\ block \subseteq Periods(problem) /\ low \in Nat /\ n \in Nat \ {0} /\ block = low .. low + n - 1
    BY <1>1, <1>2, BlockIsInterval
  <1>4. window = m.period .. m.period + n - 1
    BY DEF TargetWindow, WindowStartingAt
  <1>5. window \subseteq Periods(problem) /\ m.period \in window
    <2> DEFINE there == BlockPeriods(problem, entries, other, m.day, m.period)
    <2>1. there \subseteq Periods(problem) /\ m.period \in there
      BY <1>1, <1>2, BlockIsInterval
    <2>2. there = window
      BY <1>1
    <2> HIDE DEF there, window
    <2> QED BY <2>1, <2>2
  <1>6. m.period \in Nat
    BY <1>2, <1>5, ProblemAssumption
  <1>7. /\ plan.removed = (R \X {d} \X block) \cup (O \X {m.day} \X window)
        /\ plan.added = Shifted(R \X {d} \X block, m.day, m.period - low)
                            \cup Shifted(O \X {m.day} \X window, d, -(m.period - low))
    BY <1>1 DEF MovePlan, SwapPlan, Occurrence
  <1> HIDE DEF r, d, other, block, window, plan, R, O, low, n
  <1>8. Cardinality(window) = n
    <2>1. m.period + n - 1 \in Int /\ m.period \in Int /\ ~(m.period > m.period + n - 1)
      BY <1>3, <1>6
    <2> DEFINE last == m.period + n - 1
    <2>2. Cardinality(m.period .. last) = last - m.period + 1
      <3> HIDE DEF last
      <3> QED BY <2>1, FS_Interval DEF last
    <2> QED BY <1>3, <1>4, <1>6, <2>2
  <1> DEFINE k == m.period - low
             j == -(m.period - low)
  <1>9. block \in SUBSET Int /\ window \in SUBSET Int
    BY <1>3, <1>4, <1>6
  <1>10. k \in Int /\ \A p \in block : p + k \in window
    BY <1>3, <1>4, <1>6
  <1>11. \A p \in window : p - k \in block
    BY <1>3, <1>4, <1>6
  <1>12. j \in Int /\ \A p \in window : p + j \in block
    BY <1>3, <1>4, <1>6
  <1>13. \A p \in block : p - j \in window
    BY <1>3, <1>4, <1>6
  <1>14. Shifted(At(R, d, block), m.day, k) = At(R, m.day, window)
    <2> HIDE DEF k
    <2> QED BY <1>9, <1>10, <1>11, BlockShifted
  <1>15. Shifted(At(O, m.day, window), d, j) = At(O, d, block)
    <2> HIDE DEF j
    <2> QED BY <1>9, <1>12, <1>13, BlockShifted
  <1> QED BY <1>1, <1>3, <1>5, <1>7, <1>8, <1>14, <1>15 DEF At, r, d, other, block, window, plan, R, O, n

-----------------------------------------------------------------------------
(***************************************************************************)
(* Timetables that are stored.                                             *)
(***************************************************************************)
LEMMA SolutionsOnTheGrid ==
    ASSUME NEW pr \in SolverProblems, NEW e \in Solutions[pr]
    PROVE  e \subseteq Lessons(pr) \cup ReservedEntries(pr)
  BY DEF Solutions, BuiltEntries, HardModel, LessonsOf

LEMMA GridIsStorable ==
    ASSUME NEW pr, NEW e, e \subseteq Lessons(pr) \cup ReservedEntries(pr)
    PROVE  Triples(e) /\ Storable(pr, e)
  <1>1. \A x \in Lessons(pr) : x = <<x[1], x[2], x[3]>> /\ x[1] \in pr.req /\ <<x[2], x[3]>> \in Slots(pr)
    BY DEF Lessons, Slots
  <1>2. \A x \in ReservedEntries(pr) : x = <<x[1], x[2], x[3]>> /\ x[1] \in pr.reserved /\ <<x[2], x[3]>> \in Slots(pr)
    BY DEF ReservedEntries, Slots
  <1> QED BY <1>1, <1>2 DEF Triples, Storable

LEMMA ResultsAreSolutions ==
    ASSUME NEW pr, NEW pins, NEW result \in SolveResults(pr, pins)
    PROVE  result.entries \in Solutions[pr] /\ pins \subseteq result.entries
  <1> DEFINE found == {e \in Solutions[pr] : PreferredDoublesFormed(pr, e) /\ pins \subseteq e}
             Feasible(e) == {[entries |-> e, status |-> "FEASIBLE", penalty |-> value] :
                                value \in ObjectiveValues(pr, e)}
             optimal == {[entries |-> e, status |-> "OPTIMAL", penalty |-> Optimum(pr, found)]
                            : e \in {f \in found : Optimum(pr, found) \in ObjectiveValues(pr, f)}}
  <1>1. SolveResults(pr, pins) = (UNION {Feasible(e) : e \in found}) \cup optimal
    BY DEF SolveResults
  <1>2. result \in (UNION {Feasible(e) : e \in found}) \/ result \in optimal
    BY <1>1
  <1>3. CASE result \in optimal
    <2>1. PICK e \in found : result = [entries |-> e, status |-> "OPTIMAL", penalty |-> Optimum(pr, found)]
      BY <1>3
    <2> QED BY <2>1
  <1>4. CASE result \in UNION {Feasible(e) : e \in found}
    <2>1. PICK e \in found : result \in Feasible(e)
      BY <1>4
    <2> QED BY <2>1
  <1> QED BY <1>3, <1>4, <1>2

\* An exchange puts lessons into the days of the two occurrences.
LEMMA ExchangeIsStorable ==
    ASSUME SolvingInv, NEW m, MoveAllowed(entries, m)
    PROVE  LET f == Applied(entries, MovePlan(entries, m)) IN Triples(f) /\ Storable(problem, f)
  <1>1. CASE StaysPut(entries, m)
    BY <1>1 DEF SolvingInv, MovePlan, NoChange, Applied
  <1>2. CASE ~StaysPut(entries, m)
    <2> DEFINE r == m.lesson[1]
               d == m.lesson[2]
               other == Occupant(entries, m)
               block == BlockPeriods(problem, entries, r, d, m.lesson[3])
               window == TargetWindow(entries, m)
               plan == MovePlan(entries, m)
    <2>1. /\ IsOccurrence(problem, entries, r, d, m.lesson[3])
          /\ IsOccurrence(problem, entries, other, m.day, m.period)
          /\ block \subseteq Periods(problem) /\ window \subseteq Periods(problem)
          /\ plan.added = (Branches(problem, r) \X {m.day} \X window)
                              \cup (Branches(problem, other) \X {d} \X block)
      BY <1>2, ExchangePlaces
    <2>2. Triples(entries) /\ Storable(problem, entries)
      BY DEF SolvingInv
    <2>3. m.day \in problem.day /\ d \in problem.day
      <3>1. /\ <<r, d, m.lesson[3]>> \in entries
            /\ <<other, m.day, m.period>> \in entries
        BY <2>1, <2>2, PeriodsOnMembers DEF IsOccurrence
      <3> QED BY <2>2, <3>1 DEF Storable, Slots
    <2> HIDE DEF block, window, plan
    <2>4. \A x \in plan.added :
             x = <<x[1], x[2], x[3]>> /\ x[1] \in problem.req /\ <<x[2], x[3]>> \in Slots(problem)
      BY <2>1, <2>3 DEF Branches, Slots
    <2> QED BY <2>2, <2>4 DEF Applied, Triples, Storable, plan
  <1> QED BY <1>1, <1>2

\* Both kinds of moves apply an exchange that is allowed, to a verified timetable.
LEMMA MovesExchange ==
    ASSUME MoveVersion
    PROVE  /\ Verified(problem, entries)
           /\ \E m : MoveAllowed(entries, m) /\ entries' = Applied(entries, MovePlan(entries, m))
           /\ UNCHANGED <<problem, locked, reviewed, earlier>>
  <1>1. CASE Move
    BY <1>1 DEF Move, MoveVersion
  <1>2. CASE ApplyMove
    BY <1>2 DEF ApplyMove, MoveVersion
  <1> QED BY <1>1, <1>2 DEF MoveVersion

LEMMA GenerateInv == ASSUME Generate PROVE SolvingInv
  <1>1. problem \in Problems /\ earlier = NoProblem /\ IsFiniteSet(locked)
    BY FS_EmptySet DEF Generate
  <1>2. CASE problem \in Solved
    <2>1. PICK result \in SolveResults(problem, {}) : entries = result.entries
      BY <1>2 DEF Generate
    <2>2. entries \in Solutions[problem] /\ problem \in SolverProblems
      BY <1>2, <2>1, ResultsAreSolutions, SolvedAssumption
    <2> QED BY <1>1, <2>2, SolutionsOnTheGrid, GridIsStorable DEF SolvingInv
  <1>3. CASE problem \notin Solved
    <2>1. PICK result \in GivenResults(problem) : entries = result.entries
      BY <1>3 DEF Generate
    <2>2. entries \in Timetables[problem]
      BY <2>1 DEF GivenResults
    <2>3. entries \subseteq Lessons(problem) \cup ReservedEntries(problem)
      BY <1>1, <2>2, GeneratedAssumption
    <2> QED BY <1>1, <2>3, GridIsStorable DEF SolvingInv
  <1> QED BY <1>2, <1>3

\* What the two phases of a reoptimization may return.
LEMMA ReoptimizedKeepsLocks ==
    ASSUME Reoptimize
    PROVE  /\ problem \in Solved
           /\ entries' \in KeepingLocks(problem, entries, locked)
           /\ UNCHANGED <<problem, locked, reviewed, earlier>>
  <1> DEFINE found == KeepingLocks(problem, entries, locked)
  <1>1. problem \in Solved /\ (ReoptimizeInTime(found) \/ ReoptimizeFully(found))
    BY DEF Reoptimize
  <1>2. ASSUME NEW f \in found, NEW s, NEW n, Replace(f, s, n)
        PROVE  entries' \in found /\ UNCHANGED <<problem, locked, reviewed, earlier>>
    BY <1>2 DEF Replace
  <1>3. LeastDisruptive(problem, entries, found) \subseteq found
    BY DEF LeastDisruptive
  <1> HIDE DEF found
  <1>4. \E f \in found : \E s, n : Replace(f, s, n)
    <2>1. CASE ReoptimizeInTime(found)
      BY <2>1 DEF ReoptimizeInTime
    <2>2. CASE ReoptimizeFully(found)
      BY <1>3, <2>2 DEF ReoptimizeFully
    <2> QED BY <1>1, <2>1, <2>2
  <1>5. entries' \in found /\ UNCHANGED <<problem, locked, reviewed, earlier>>
    BY <1>2, <1>4
  <1> QED BY <1>1, <1>5 DEF found

\* A regeneration keeps the lessons of the locks that it keeps.
LEMMA RegeneratedWithPins ==
    ASSUME Regenerate, SolvingInv
    PROVE  /\ problem' \in Solved /\ entries' \in Solutions[problem']
           /\ Pins(problem', locked') \subseteq entries'
           /\ earlier' = problem /\ problem \in Solved
  <1>1. PICK pr \in Drafts[problem], order \in KeyOrders(locked), keys \in SUBSET locked :
           /\ \E result \in SolveResults(pr, Pins(pr, keys)) : entries' = result.entries
           /\ problem' = pr
           /\ locked' = keys
    BY DEF Regenerate
  <1>2. problem \in Solved /\ earlier' = problem
    BY DEF Regenerate
  <1>3. pr \in Solved
    BY <1>2, SolvedAssumption
  <1> QED BY <1>1, <1>2, <1>3, ResultsAreSolutions

\* The keys of an occurrence are a branch, its day and its first period.
LEMMA KeysFinite ==
    ASSUME NEW pr \in Problems, NEW e, NEW r, NEW d, NEW p
    PROVE  IsFiniteSet(OccurrenceKeys(pr, e, r, d, p))
  <1> DEFINE n == Min(BlockPeriods(pr, e, r, d, p))
             keys == Branches(pr, r) \X {d} \X {n}
             key == [s \in Branches(pr, r) |-> <<s, d, n>>]
  <1>1. IsFiniteSet(Branches(pr, r))
    BY ProblemAssumption, FS_Subset DEF Branches
  <1>2. key \in Surjection(Branches(pr, r), keys)
    <2>1. key \in [Branches(pr, r) -> keys]
      OBVIOUS
    <2>2. ASSUME NEW y \in keys
          PROVE  y[1] \in Branches(pr, r) /\ key[y[1]] = y
      OBVIOUS
    <2> QED BY <2>1, <2>2 DEF Surjection
  <1> HIDE DEF key, keys
  <1>3. IsFiniteSet(keys)
    BY <1>1, <1>2, FS_Surjection
  <1> QED BY <1>3 DEF OccurrenceKeys, keys, n

LEMMA LocksStayFinite == ASSUME SolvingInv, [SolvingNext]_allVars PROVE IsFiniteSet(locked')
  <1>1. IsFiniteSet(locked) /\ problem \in Problems
    BY DEF SolvingInv
  <1>2. CASE MoveVersion \/ Reoptimize
    BY <1>1, <1>2, MovesExchange, ReoptimizedKeepsLocks
  <1>3. CASE LockVersion
    <2>1. CASE LockOccurrence
      <3>1. PICK x : locked' = locked \cup OccurrenceKeys(problem, entries, x[1], x[2], x[3])
        BY <2>1 DEF LockOccurrence
      <3> QED BY <1>1, <3>1, KeysFinite, FS_Union
    <2>2. CASE UnlockOccurrence
      <3>1. locked' \in SUBSET locked
        BY <2>2 DEF UnlockOccurrence
      <3> QED BY <1>1, <3>1, FS_Subset
    <2> QED BY <1>3, <2>1, <2>2 DEF LockVersion
  <1>4. CASE Regenerate
    <2>1. locked' \in SUBSET locked
      BY <1>4 DEF Regenerate
    <2> QED BY <1>1, <2>1, FS_Subset
  <1>5. CASE Restore
    <2>1. PICK source \in VersionsOf(earlier) : locked' = source.locked
      BY <1>5 DEF Restore
    <2>2. earlier \in Problems
      BY <1>5, SolvedAssumption DEF Restore, SolvingInv
    <2>3. source.locked = {} \/ \E e, x : source.locked = OccurrenceKeys(earlier, e, x[1], x[2], x[3])
      BY DEF VersionsOf
    <2> QED BY <2>1, <2>2, <2>3, KeysFinite, FS_EmptySet
  <1>6. CASE ReviewVersion \/ UNCHANGED allVars
    BY <1>1, <1>6 DEF ReviewVersion, ReviewMove, allVars, vars
  <1> QED BY <1>2, <1>3, <1>4, <1>5, <1>6 DEF SolvingNext

LEMMA SolvingInvKept == ASSUME SolvingInv, [SolvingNext]_allVars PROVE SolvingInv'
  <1>1. IsFiniteSet(locked')
    BY LocksStayFinite
  <1>2. CASE MoveVersion
    <2>1. PICK m : MoveAllowed(entries, m) /\ entries' = Applied(entries, MovePlan(entries, m))
      BY <1>2, MovesExchange
    <2>2. UNCHANGED <<problem, earlier>>
      BY <1>2, MovesExchange
    <2> QED BY <2>1, <2>2, <1>1, ExchangeIsStorable DEF SolvingInv
  <1>3. CASE LockVersion
    BY <1>1, <1>3 DEF LockVersion, LockOccurrence, UnlockOccurrence, version, SolvingInv
  <1>4. CASE ReviewVersion
    BY <1>1, <1>4 DEF ReviewVersion, ReviewMove, version, SolvingInv
  <1>5. CASE Reoptimize
    <2>1. /\ problem' \in SolverProblems /\ entries' \in Solutions[problem']
          /\ UNCHANGED <<problem, earlier>>
      BY <1>5, ReoptimizedKeepsLocks, SolvedAssumption DEF KeepingLocks
    <2> QED BY <1>1, <2>1, SolutionsOnTheGrid, GridIsStorable DEF SolvingInv
  <1>6. CASE Regenerate
    <2>1. /\ problem' \in Problems /\ problem' \in SolverProblems
          /\ entries' \in Solutions[problem'] /\ earlier' \in Solved
      BY <1>6, RegeneratedWithPins, SolvedAssumption
    <2> QED BY <1>1, <2>1, SolutionsOnTheGrid, GridIsStorable DEF SolvingInv
  <1>7. CASE Restore
    <2>1. /\ earlier \in Solved /\ UNCHANGED <<problem, earlier>>
          /\ entries' \in Solutions[earlier] /\ Storable(problem, entries')
      <3>1. PICK source \in VersionsOf(earlier) : Storable(problem, source.entries) /\ entries' = source.entries
        BY <1>7 DEF Restore
      <3>2. source.entries \in Solutions[earlier]
        BY DEF VersionsOf
      <3>3. earlier \in Solved /\ UNCHANGED <<problem, earlier>>
        BY <1>7 DEF Restore, SolvingInv
      <3> QED BY <3>1, <3>2, <3>3
    <2>2. Triples(entries')
      BY <2>1, SolutionsOnTheGrid, GridIsStorable, SolvedAssumption
    <2> QED BY <1>1, <2>1, <2>2 DEF SolvingInv
  <1>8. CASE UNCHANGED allVars
    BY <1>1, <1>8 DEF allVars, vars, version, SolvingInv
  <1> QED BY <1>2, <1>3, <1>4, <1>5, <1>6, <1>7, <1>8 DEF SolvingNext

-----------------------------------------------------------------------------
(***************************************************************************)
(* Locked lessons.                                                         *)
(***************************************************************************)
\* A lock that names the first lesson of its block, in the timetable.
Names(e, k) == k \in e /\ k \in OccurrenceKeys(problem, e, k[1], k[2], k[3])

LEMMA LockedLesson ==
    ASSUME SolvingInv, NEW k, Names(entries, k)
    PROVE  /\ k = <<k[1], k[2], k[3]>> /\ k[1] \in problem.req /\ k[1] \in Branches(problem, k[1])
           /\ k[3] \in PeriodsOn(entries, k[1], k[2])
           /\ k[3] \in BlockPeriods(problem, entries, k[1], k[2], k[3])
           /\ k[3] = Min(BlockPeriods(problem, entries, k[1], k[2], k[3]))
           /\ \A p \in BlockPeriods(problem, entries, k[1], k[2], k[3]) : <<k[1], k[2], p>> \in entries
  <1>1. k = <<k[1], k[2], k[3]>> /\ k \in entries
    BY DEF SolvingInv, Triples, Names
  <1>2. k[1] \in Branches(problem, k[1]) /\ k[3] = Min(BlockPeriods(problem, entries, k[1], k[2], k[3]))
    BY <1>1 DEF OccurrenceKeys, Names
  <1>3. k[3] \in PeriodsOn(entries, k[1], k[2])
    BY <1>1, PeriodsOnMembers DEF SolvingInv
  <1>4. k[3] \in BlockPeriods(problem, entries, k[1], k[2], k[3])
    BY <1>3 DEF BlockPeriods
  <1>5. BlockPeriods(problem, entries, k[1], k[2], k[3]) \subseteq PeriodsOn(entries, k[1], k[2])
    BY <1>3 DEF BlockPeriods
  <1>6. \A p \in BlockPeriods(problem, entries, k[1], k[2], k[3]) : <<k[1], k[2], p>> \in entries
    BY <1>5, PeriodsOnMembers DEF SolvingInv
  <1>7. k[1] \in problem.req
    BY <1>2 DEF Branches
  <1> QED BY <1>1, <1>2, <1>3, <1>4, <1>6, <1>7

\* What is free to move has no lesson of a locked occurrence.
LEMMA FreeHasNoLocked ==
    ASSUME SolvingInv, SplitsSynchronized(problem, entries), NEW k \in locked, Names(entries, k),
           NEW q \in BlockPeriods(problem, entries, k[1], k[2], k[3]),
           NEW r \in problem.req, NEW d, NEW p, Free(entries, r, d, p)
    PROVE  <<k[1], k[2], q>> \notin Occurrence(problem, entries, r, d, p)
  <1> SUFFICES ASSUME <<k[1], k[2], q>> \in Occurrence(problem, entries, r, d, p)
               PROVE  FALSE
    OBVIOUS
  <1>1. OccurrenceKeys(problem, entries, k[1], k[2], k[3]) = OccurrenceKeys(problem, entries, r, d, p)
    BY MemberHasKeys DEF SolvingInv
  <1> QED BY <1>1 DEF Free, Names

\* An exchange leaves the lessons of locked occurrences alone.
LEMMA ExchangeLeavesLocked ==
    ASSUME SolvingInv, SplitsSynchronized(problem, entries), NEW m, MoveAllowed(entries, m),
           NEW k \in locked, Names(entries, k),
           NEW q \in BlockPeriods(problem, entries, k[1], k[2], k[3])
    PROVE  <<k[1], k[2], q>> \in Applied(entries, MovePlan(entries, m))
  <1>1. <<k[1], k[2], q>> \in entries
    BY LockedLesson
  <1>2. CASE StaysPut(entries, m)
    BY <1>1, <1>2 DEF MovePlan, NoChange, Applied
  <1>3. CASE ~StaysPut(entries, m)
    <2> DEFINE other == Occupant(entries, m)
               from == Occurrence(problem, entries, m.lesson[1], m.lesson[2], m.lesson[3])
               to == Occurrence(problem, entries, other, m.day, m.period)
    <2>1. /\ m.lesson[1] \in problem.req /\ Free(entries, m.lesson[1], m.lesson[2], m.lesson[3])
          /\ other \in problem.req /\ Free(entries, other, m.day, m.period)
      BY <1>3 DEF MoveAllowed, CanExchange, IsOccurrence
    <2>2. <<k[1], k[2], q>> \notin from /\ <<k[1], k[2], q>> \notin to
      BY <2>1, FreeHasNoLocked
    <2>3. MovePlan(entries, m).removed = from \cup to
      BY <1>3 DEF MovePlan, SwapPlan
    <2> QED BY <1>1, <2>2, <2>3 DEF Applied
  <1> QED BY <1>2, <1>3

\* A reoptimization pins all lessons of a lock that names their first.
LEMMA ReoptimizedWithLocked ==
    ASSUME SolvingInv, Reoptimize, NEW k \in locked, Names(entries, k),
           NEW q \in BlockPeriods(problem, entries, k[1], k[2], k[3])
    PROVE  <<k[1], k[2], q>> \in entries'
  <1> DEFINE block == BlockPeriods(problem, entries, k[1], k[2], k[3])
             group == Occurrence(problem, entries, k[1], k[2], k[3])
  <1>1. /\ k = <<k[1], k[2], k[3]>> /\ k[1] \in problem.req /\ k[1] \in Branches(problem, k[1])
        /\ k[3] \in block /\ k[3] = Min(block)
    BY LockedLesson
  <1>2. k \in LessonsOf(problem, entries)
    BY <1>1, ProblemAssumption DEF LessonsOf, ReservedEntries, SolvingInv, Names
  <1>3. IsOccurrence(problem, entries, k[1], k[2], k[3])
    BY <1>2 DEF Reoptimize, Resolvable
  <1>4. block \in SUBSET Nat
    <2>1. Periods(problem) \subseteq Nat
      BY ProblemAssumption DEF SolvingInv
    <2> QED BY <1>3, <2>1 DEF IsOccurrence, BlockPeriods
  <1> HIDE DEF block
  <1>5. \A y \in block : k[3] <= y
    BY <1>1, <1>4, Smallest
  <1>6. group = Branches(problem, k[1]) \X {k[2]} \X block
    BY DEF Occurrence, block
  <1>7. group \in Groups(problem, entries)
    BY <1>2 DEF Groups
  <1>8. k \in Anchor(group)
    <2>1. k \in group
      BY <1>1, <1>6
    <2>2. \A y \in group : y[3] \in block
      BY <1>6
    <2> HIDE DEF group
    <2> QED BY <1>5, <2>1, <2>2 DEF Anchor
  <1>9. group \in LockedGroups(problem, entries, locked)
    BY <1>7, <1>8 DEF LockedGroups
  <1>10. group \subseteq entries'
    BY <1>9, ReoptimizedKeepsLocks DEF KeepingLocks
  <1>11. <<k[1], k[2], q>> \in group
    BY <1>1, <1>6 DEF block
  <1> QED BY <1>10, <1>11

(***************************************************************************)
(* The lessons of a locked occurrence stay where they are under every      *)
(* move, reoptimization and regeneration that keeps the lock, for any      *)
(* problem, timetable and solver.                                          *)
(***************************************************************************)
THEOREM LocksHold == SolvingSpec => KeptLocksStay
  <1> DEFINE Stay == \A k \in locked \cap locked' :
                         (k \in entries /\ k \in OccurrenceKeys(problem', entries, k[1], k[2], k[3]))
                             => \A p \in BlockPeriods(problem', entries, k[1], k[2], k[3]) :
                                    <<k[1], k[2], p>> \in entries'
  <1>1. ASSUME SolvingInv, [SolvingNext]_allVars, ~Restore
        PROVE  Stay
    <2> SUFFICES ASSUME NEW k \in locked, k \in locked',
                        k \in entries, k \in OccurrenceKeys(problem', entries, k[1], k[2], k[3]),
                        NEW p \in BlockPeriods(problem', entries, k[1], k[2], k[3])
                 PROVE  <<k[1], k[2], p>> \in entries'
      OBVIOUS
    <2>1. CASE MoveVersion
      <3>1. problem' = problem /\ Verified(problem, entries)
        BY <2>1, MovesExchange
      <3>2. PICK m : MoveAllowed(entries, m) /\ entries' = Applied(entries, MovePlan(entries, m))
        BY <2>1, MovesExchange
      <3>3. SplitsSynchronized(problem, entries) /\ Names(entries, k)
        BY <3>1 DEF Verified, Names
      <3> QED BY <1>1, <3>1, <3>2, <3>3, ExchangeLeavesLocked
    <2>2. CASE LockVersion \/ ReviewVersion \/ UNCHANGED allVars
      <3>1. problem' = problem /\ entries' = entries
        BY <2>2 DEF LockVersion, LockOccurrence, UnlockOccurrence, ReviewVersion, ReviewMove, allVars, vars
      <3>2. Names(entries, k)
        BY <3>1 DEF Names
      <3> QED BY <1>1, <3>1, <3>2, LockedLesson
    <2>3. CASE Reoptimize
      <3>1. problem' = problem
        BY <2>3, ReoptimizedKeepsLocks
      <3>2. Names(entries, k)
        BY <3>1 DEF Names
      <3> QED BY <1>1, <2>3, <3>1, <3>2, ReoptimizedWithLocked
    <2>4. CASE Regenerate
      <3>1. Pins(problem', locked') \subseteq entries'
        BY <1>1, <2>4, RegeneratedWithPins
      <3>2. Occurrence(problem', entries, k[1], k[2], k[3]) \subseteq Pins(problem', locked')
        BY DEF Pins, CompatibleMembers
      <3>3. <<k[1], k[2], p>> \in Occurrence(problem', entries, k[1], k[2], k[3])
        BY DEF Occurrence, OccurrenceKeys
      <3> QED BY <3>1, <3>2, <3>3
    <2> QED BY <1>1, <2>1, <2>2, <2>3, <2>4 DEF SolvingNext
  <1>2. SolvingInv /\ [SolvingNext]_allVars => [Stay \/ Restore]_allVars
    BY <1>1
  <1>3. Generate => SolvingInv
    BY GenerateInv
  <1>4. SolvingInv /\ [SolvingNext]_allVars => SolvingInv'
    BY SolvingInvKept
  <1> QED BY <1>2, <1>3, <1>4, PTL DEF SolvingSpec, KeptLocksStay

-----------------------------------------------------------------------------
(***************************************************************************)
(* What an exchange does to the days of a requirement.                     *)
(***************************************************************************)
\* What a class has in the slot of a lesson is a branch of the same split.
LEMMA SharedCellSameSplit ==
    ASSUME NEW pr \in Problems, NEW e, Triples(e), Storable(pr, e), ClassesFullyOccupied(pr, e),
           NEW r \in pr.req, NEW s \in pr.req \cup pr.reserved, pr.classes[s] \cap pr.classes[r] # {},
           NEW d \in pr.day, NEW p \in Periods(pr), <<r, d, p>> \in e, <<s, d, p>> \in e
    PROVE  s \in Branches(pr, r)
  <1>1. PICK c \in pr.class : c \in pr.classes[r] /\ c \in pr.classes[s]
    <2>1. pr.classes[r] \subseteq pr.class
      BY ProblemAssumption
    <2> QED BY <2>1
  <1> DEFINE units == {OccupancyUnit(pr, x[1]) :
                          x \in {y \in e : <<y[2], y[3]>> = <<d, p>> /\ c \in pr.classes[y[1]]}}
             A == pr.req \cup pr.reserved
             unit == [a \in A |-> OccupancyUnit(pr, a)]
             all == {unit[a] : a \in A}
  <1>2. Cardinality(units) = 1
    BY DEF ClassesFullyOccupied, Slots
  <1>3. IsFiniteSet(all)
    <2>1. IsFiniteSet(A)
      BY ProblemAssumption, FS_Union
    <2>2. unit \in Surjection(A, all)
      BY DEF Surjection
    <2> HIDE DEF A, unit, all
    <2> QED BY <2>1, <2>2, FS_Surjection
  <1>4. units \in SUBSET all
    BY DEF Storable, Slots
  <1>5. PICK u : units = {u}
    <2> HIDE DEF units, all
    <2> QED BY <1>2, <1>3, <1>4, FS_Subset, FS_Singleton
  <1>6. OccupancyUnit(pr, r) \in units /\ OccupancyUnit(pr, s) \in units
    BY <1>1
  <1>7. OccupancyUnit(pr, r) = OccupancyUnit(pr, s)
    BY <1>5, <1>6
  <1>8. s \in pr.reserved => pr.split[s] = None
    BY ProblemAssumption
  <1> QED BY <1>7, <1>8 DEF OccupancyUnit, Branches

LEMMA SameCellSameSplit ==
    ASSUME NEW pr \in Problems, NEW e, Triples(e), Storable(pr, e), ClassesFullyOccupied(pr, e),
           NEW r \in pr.req, NEW s \in pr.req, pr.classes[s] = pr.classes[r],
           NEW d \in pr.day, NEW p \in Periods(pr), <<r, d, p>> \in e, <<s, d, p>> \in e
    PROVE  s \in Branches(pr, r)
  <1>1. pr.classes[r] # {}
    BY ProblemAssumption
  <1> QED BY <1>1, SharedCellSameSplit

\* The block of a day cannot be joined to that of another one: there would be a
\* block more of the bigger size.
LEMMA BlocksNotJoined ==
    ASSUME NEW pr \in Problems, NEW e, NEW f, RequiredBlocksKept(pr, e), RequiredBlocksKept(pr, f),
           NEW r \in pr.req, pr.mode[r] = "REQUIRED",
           NEW b \in pr.day, NEW c \in pr.day, b # c,
           NEW W \in SUBSET Periods(pr), W \cap PeriodsOn(e, r, c) = {},
           PeriodsOn(e, r, b) # {}, PeriodsOn(e, r, c) # {},
           Cardinality(W) = Cardinality(PeriodsOn(e, r, b)),
           PeriodsOn(f, r, b) = {}, PeriodsOn(f, r, c) = PeriodsOn(e, r, c) \cup W,
           \A d \in pr.day \ {b, c} : PeriodsOn(f, r, d) = PeriodsOn(e, r, d)
    PROVE  FALSE
  <1> DEFINE E(d) == PeriodsOn(e, r, d)
             F(d) == PeriodsOn(f, r, d)
             N == Cardinality(F(c))
             before == {d \in pr.day : Cardinality(E(d)) = N}
             after == {d \in pr.day : Cardinality(F(d)) = N}
  <1>1. E(b) \in SUBSET Periods(pr) /\ E(c) \in SUBSET Periods(pr) /\ F(c) \in SUBSET Periods(pr)
    BY DEF RequiredBlocksKept, IsRun
  <1>2. IsFiniteSet(pr.day) /\ IsFiniteSet(Periods(pr))
    BY ProblemAssumption
  <1>3. /\ IsFiniteSet(E(b)) /\ IsFiniteSet(E(c)) /\ IsFiniteSet(W)
        /\ N <= Cardinality(Periods(pr))
    <2> HIDE DEF E, F
    <2> QED BY <1>1, <1>2, FS_Subset
  <1>4. /\ Cardinality(E(b)) \in Nat \ {0} /\ Cardinality(E(c)) \in Nat \ {0}
        /\ Cardinality(Periods(pr)) \in Nat
    BY <1>2, <1>3, FS_CardinalityType, FS_EmptySet
  <1>5. N = Cardinality(E(c)) + Cardinality(E(b))
    <2>1. Cardinality(E(c) \cup W) = Cardinality(E(c)) + Cardinality(W) - Cardinality(E(c) \cap W)
      <3> HIDE DEF E
      <3> QED BY <1>3, FS_Union
    <2>2. Cardinality(E(c) \cap W) = 0
      <3>1. E(c) \cap W = {}
        OBVIOUS
      <3> QED BY <3>1, FS_EmptySet
    <2>3. Cardinality(W) = Cardinality(E(b)) /\ N = Cardinality(E(c) \cup W)
      OBVIOUS
    <2> DEFINE both == Cardinality(E(c) \cup W)
               common == Cardinality(E(c) \cap W)
               low == Cardinality(E(c))
               high == Cardinality(E(b))
    <2>4. both = low + high - common /\ common = 0 /\ low \in Nat /\ high \in Nat /\ N = both
      BY <1>4, <2>1, <2>2, <2>3
    <2> HIDE DEF both, common, low, high, N
    <2>5. N = low + high
      BY <2>4
    <2> QED BY <2>5 DEF low, high
  <1>6. N \in 1 .. Cardinality(Periods(pr)) /\ N # Cardinality(E(b)) /\ N # Cardinality(E(c))
    BY <1>3, <1>4, <1>5
  <1>7. Cardinality(F(b)) # N
    BY <1>6, FS_EmptySet
  <1>8. after = before \cup {c} /\ c \notin before
    <2>1. \A d \in pr.day : d \in after <=> d \in before \/ d = c
      BY <1>6, <1>7
    <2> QED BY <1>6, <2>1
  <1>9. IsFiniteSet(before) /\ Cardinality(before) \in Nat
    BY <1>2, FS_Subset, FS_CardinalityType
  <1>10. Cardinality(after) = Cardinality(before) + 1
    <2> HIDE DEF before, after
    <2> QED BY <1>8, <1>9, FS_AddElement
  <1>11. Cardinality(after) = Cardinality(before)
    <2> DEFINE count == Cardinality({i \in DOMAIN pr.sizes[r] : pr.sizes[r][i] = N})
    <2>1. Cardinality(before) = count
      <3> HIDE DEF N
      <3> QED BY <1>6 DEF RequiredBlocksKept
    <2>2. Cardinality(after) = count
      <3> HIDE DEF N
      <3> QED BY <1>6 DEF RequiredBlocksKept
    <2> QED BY <2>1, <2>2
  <1> QED BY <1>9, <1>10, <1>11

\* The periods of a requirement on a day, after an exchange.
LEMMA ExchangeOnDay ==
    ASSUME SolvingInv, NEW m, MoveAllowed(entries, m), ~StaysPut(entries, m), NEW x, NEW c
    PROVE  LET R == Branches(problem, m.lesson[1])
               O == Branches(problem, Occupant(entries, m))
               block == BlockPeriods(problem, entries, m.lesson[1], m.lesson[2], m.lesson[3])
               window == TargetWindow(entries, m)
           IN  \A p : p \in PeriodsOn(Applied(entries, MovePlan(entries, m)), x, c) <=>
                   \/ /\ p \in PeriodsOn(entries, x, c)
                      /\ ~(x \in R /\ c = m.lesson[2] /\ p \in block)
                      /\ ~(x \in O /\ c = m.day /\ p \in window)
                   \/ x \in R /\ c = m.day /\ p \in window
                   \/ x \in O /\ c = m.lesson[2] /\ p \in block
  <1> DEFINE R == Branches(problem, m.lesson[1])
             O == Branches(problem, Occupant(entries, m))
             block == BlockPeriods(problem, entries, m.lesson[1], m.lesson[2], m.lesson[3])
             window == TargetWindow(entries, m)
             plan == MovePlan(entries, m)
             f == Applied(entries, plan)
  <1>1. /\ plan.removed = (R \X {m.lesson[2]} \X block) \cup (O \X {m.day} \X window)
        /\ plan.added = (R \X {m.day} \X window) \cup (O \X {m.lesson[2]} \X block)
    BY ExchangePlaces
  <1>2. Triples(f)
    BY ExchangeIsStorable
  <1> HIDE DEF R, O, block, window, plan, f
  <1>3. \A p : p \in PeriodsOn(f, x, c) <=> <<x, c, p>> \in f
    BY <1>2, PeriodsOnMembers
  <1>4. \A p : p \in PeriodsOn(entries, x, c) <=> <<x, c, p>> \in entries
    BY PeriodsOnMembers DEF SolvingInv
  <1>5. \A p : <<x, c, p>> \in f <=>
            (<<x, c, p>> \in entries /\ <<x, c, p>> \notin plan.removed) \/ <<x, c, p>> \in plan.added
    BY DEF f, Applied
  <1>6. \A p : /\ <<x, c, p>> \in plan.removed <=> \/ x \in R /\ c = m.lesson[2] /\ p \in block
                                                   \/ x \in O /\ c = m.day /\ p \in window
               /\ <<x, c, p>> \in plan.added <=> \/ x \in R /\ c = m.day /\ p \in window
                                                 \/ x \in O /\ c = m.lesson[2] /\ p \in block
    <2>1. ASSUME NEW S, NEW d, NEW T, NEW p
          PROVE  <<x, c, p>> \in S \X {d} \X T <=> x \in S /\ c = d /\ p \in T
      OBVIOUS
    <2>2. ASSUME NEW p
          PROVE  <<x, c, p>> \in plan.removed <=> \/ x \in R /\ c = m.lesson[2] /\ p \in block
                                                  \/ x \in O /\ c = m.day /\ p \in window
      <3>1. /\ <<x, c, p>> \in R \X {m.lesson[2]} \X block <=> x \in R /\ c = m.lesson[2] /\ p \in block
            /\ <<x, c, p>> \in O \X {m.day} \X window <=> x \in O /\ c = m.day /\ p \in window
        BY <2>1
      <3> QED BY <1>1, <3>1
    <2>3. ASSUME NEW p
          PROVE  <<x, c, p>> \in plan.added <=> \/ x \in R /\ c = m.day /\ p \in window
                                                \/ x \in O /\ c = m.lesson[2] /\ p \in block
      <3>1. /\ <<x, c, p>> \in R \X {m.day} \X window <=> x \in R /\ c = m.day /\ p \in window
            /\ <<x, c, p>> \in O \X {m.lesson[2]} \X block <=> x \in O /\ c = m.lesson[2] /\ p \in block
        BY <2>1
      <3> QED BY <1>1, <3>1
    <2> QED BY <2>2, <2>3
  <1> HIDE DEF SolvingInv
  <1>7. \A p : p \in PeriodsOn(f, x, c) <=>
                   \/ /\ p \in PeriodsOn(entries, x, c)
                      /\ ~(x \in R /\ c = m.lesson[2] /\ p \in block)
                      /\ ~(x \in O /\ c = m.day /\ p \in window)
                   \/ x \in R /\ c = m.day /\ p \in window
                   \/ x \in O /\ c = m.lesson[2] /\ p \in block
    BY <1>3, <1>4, <1>5, <1>6, Zenon
  <1> QED BY <1>7 DEF R, O, block, window, plan, f

\* So the lessons that leave a day do not join those of another one, in the
\* cells of a requirement of the same classes.
LEMMA DaysNotJoined ==
    ASSUME SolvingInv, Verified(problem, entries), NEW f, RequiredBlocksKept(problem, f),
           NEW a \in problem.req, problem.mode[a] = "REQUIRED",
           NEW s \in problem.req, problem.classes[a] = problem.classes[s], a \notin Branches(problem, s),
           NEW b \in problem.day, NEW c \in problem.day, b # c,
           NEW W \in SUBSET Periods(problem), \A p \in W : <<s, c, p>> \in entries,
           PeriodsOn(entries, a, b) # {}, PeriodsOn(entries, a, c) # {},
           Cardinality(W) = Cardinality(PeriodsOn(entries, a, b)),
           PeriodsOn(f, a, b) = {}, PeriodsOn(f, a, c) = PeriodsOn(entries, a, c) \cup W,
           \A d \in problem.day \ {b, c} : PeriodsOn(f, a, d) = PeriodsOn(entries, a, d)
    PROVE  FALSE
  <1>1. problem \in Problems /\ Triples(entries) /\ Storable(problem, entries)
    BY DEF SolvingInv
  <1>2. ClassesFullyOccupied(problem, entries) /\ RequiredBlocksKept(problem, entries)
    BY DEF Verified
  <1>3. ASSUME NEW p \in W, p \in PeriodsOn(entries, a, c)
        PROVE  FALSE
    <2>1. <<a, c, p>> \in entries /\ <<s, c, p>> \in entries
      BY <1>1, <1>3, PeriodsOnMembers
    <2> QED BY <1>1, <1>2, <2>1, SameCellSameSplit
  <1>4. W \cap PeriodsOn(entries, a, c) = {}
    BY <1>3
  <1> QED BY <1>1, <1>2, <1>4, BlocksNotJoined

\* The day of a locked REQUIRED block keeps its lessons, and gets no more.
LEMMA LockedDayStays ==
    ASSUME SolvingInv, Verified(problem, entries), NEW m, MoveAllowed(entries, m), ~StaysPut(entries, m),
           NEW k \in locked, Names(entries, k), problem.mode[k[1]] = "REQUIRED"
    PROVE  PeriodsOn(Applied(entries, MovePlan(entries, m)), k[1], k[2]) = PeriodsOn(entries, k[1], k[2])
  <1> DEFINE r == m.lesson[1]
             d == m.lesson[2]
             other == Occupant(entries, m)
             block == BlockPeriods(problem, entries, r, d, m.lesson[3])
             window == TargetWindow(entries, m)
             plan == MovePlan(entries, m)
             f == Applied(entries, plan)
             R == Branches(problem, r)
             O == Branches(problem, other)
             a == k[1]
             E(c) == PeriodsOn(entries, a, c)
             F(c) == PeriodsOn(f, a, c)
  <1>1. /\ IsOccurrence(problem, entries, r, d, m.lesson[3]) /\ Free(entries, r, d, m.lesson[3])
        /\ IsOccurrence(problem, entries, other, m.day, m.period) /\ Free(entries, other, m.day, m.period)
        /\ BlockPeriods(problem, entries, other, m.day, m.period) = window
        /\ problem.classes[other] = problem.classes[r]
        /\ block \subseteq Periods(problem) /\ window \subseteq Periods(problem)
        /\ Cardinality(window) = Cardinality(block)
        /\ SwapAccepted(entries, plan)
    BY ExchangePlaces
  <1>2. problem \in Problems /\ Triples(entries) /\ Storable(problem, entries)
    BY DEF SolvingInv
  <1>3. SplitsSynchronized(problem, entries) /\ RequiredBlocksKept(problem, f)
    BY <1>1 DEF Verified, SwapAccepted
  <1>4. r \in problem.req /\ other \in problem.req /\ a \in problem.req /\ k[3] \in E(k[2])
    BY <1>1, LockedLesson DEF IsOccurrence
  <1>5. \A c : E(c) = BlockPeriods(problem, entries, a, c, k[3])
    BY DEF BlockPeriods, WholeDay
  <1>6. m.lesson[3] \in block /\ m.period \in window
    BY <1>1 DEF BlockPeriods, IsOccurrence
  <1>7. /\ \A p \in block : <<r, d, p>> \in entries
        /\ \A p \in window : <<other, m.day, p>> \in entries
    <2>1. block \subseteq PeriodsOn(entries, r, d) /\ window \subseteq PeriodsOn(entries, other, m.day)
      BY <1>1, BlockOnTheDay
    <2> QED BY <1>2, <2>1, PeriodsOnMembers
  <1>8. d \in problem.day /\ m.day \in problem.day
    <2>1. <<r, d, m.lesson[3]>> \in entries /\ <<other, m.day, m.period>> \in entries
      BY <1>6, <1>7
    <2> QED BY <1>2, <2>1 DEF Storable, Slots
  <1>9. a \in R => E(d) = block /\ k[2] # d
    <2> SUFFICES ASSUME a \in R PROVE E(d) = block /\ k[2] # d
      OBVIOUS
    <2>1. BlockPeriods(problem, entries, a, d, m.lesson[3]) = block
      BY <1>2, <1>3, <1>4, <1>6, BlockOfMember
    <2>2. E(d) = block
      BY <2>1 DEF BlockPeriods, WholeDay
    <2>3. k[2] = d => <<a, k[2], k[3]>> \in Occurrence(problem, entries, r, d, m.lesson[3])
      BY <1>4, <2>2 DEF Occurrence
    <2>4. <<a, k[2], k[3]>> \notin Occurrence(problem, entries, r, d, m.lesson[3])
      <3>1. k[3] \in BlockPeriods(problem, entries, a, k[2], k[3])
        BY <1>4, <1>5
      <3> QED BY <1>1, <1>3, <1>4, <3>1, FreeHasNoLocked
    <2> QED BY <2>2, <2>3, <2>4
  <1>10. a \in O => E(m.day) = window /\ k[2] # m.day
    <2> SUFFICES ASSUME a \in O PROVE E(m.day) = window /\ k[2] # m.day
      OBVIOUS
    <2>1. BlockPeriods(problem, entries, a, m.day, m.period) = window
      BY <1>1, <1>2, <1>3, <1>4, <1>6, BlockOfMember
    <2>2. E(m.day) = window
      BY <2>1 DEF BlockPeriods, WholeDay
    <2>3. k[2] = m.day => <<a, k[2], k[3]>> \in Occurrence(problem, entries, other, m.day, m.period)
      BY <1>1, <1>4, <2>2 DEF Occurrence
    <2>4. <<a, k[2], k[3]>> \notin Occurrence(problem, entries, other, m.day, m.period)
      <3>1. k[3] \in BlockPeriods(problem, entries, a, k[2], k[3])
        BY <1>4, <1>5
      <3> QED BY <1>1, <1>3, <1>4, <3>1, FreeHasNoLocked
    <2> QED BY <2>2, <2>3, <2>4
  <1>11. ASSUME NEW c
         PROVE  \A p : p \in F(c) <=>
                    \/ p \in E(c) /\ ~(a \in R /\ c = d /\ p \in block) /\ ~(a \in O /\ c = m.day /\ p \in window)
                    \/ a \in R /\ c = m.day /\ p \in window
                    \/ a \in O /\ c = d /\ p \in block
    BY ExchangeOnDay
  <1>12. /\ a \in R => problem.classes[a] = problem.classes[r]
         /\ a \in O => problem.classes[a] = problem.classes[other]
    BY <1>2, <1>4, ProblemAssumption
  <1> HIDE DEF r, d, other, block, window, plan, f, R, O, a, E, F
  <1>13. ASSUME a \in R, k[2] = m.day
         PROVE  FALSE
    <2>1. a \notin O /\ E(d) = block /\ m.day # d
      BY <1>9, <1>10, <1>13
    <2>2. F(d) = {}
      BY <1>11, <1>13, <2>1
    <2>3. F(m.day) = E(m.day) \cup window
      BY <1>11, <1>13, <2>1
    <2>4. \A c \in problem.day \ {d, m.day} : F(c) = E(c)
      BY <1>11, <1>13, <2>1
    <2>5. E(d) # {} /\ E(m.day) # {} /\ Cardinality(window) = Cardinality(E(d))
      BY <1>1, <1>4, <1>6, <1>13, <2>1
    <2>6. problem.classes[a] = problem.classes[other]
      BY <1>1, <1>12, <1>13
    <2> QED BY <1>1, <1>3, <1>4, <1>7, <1>8, <2>1, <2>2, <2>3, <2>4, <2>5, <2>6, DaysNotJoined DEF a, E, F, O
  <1>14. ASSUME a \in O, k[2] = d
         PROVE  FALSE
    <2>1. a \notin R /\ E(m.day) = window /\ m.day # d
      BY <1>9, <1>10, <1>14
    <2>2. F(m.day) = {}
      BY <1>11, <1>14, <2>1
    <2>3. F(d) = E(d) \cup block
      BY <1>11, <1>14, <2>1
    <2>4. \A c \in problem.day \ {m.day, d} : F(c) = E(c)
      BY <1>11, <1>14, <2>1
    <2>5. E(d) # {} /\ E(m.day) # {} /\ Cardinality(block) = Cardinality(E(m.day))
      BY <1>1, <1>4, <1>6, <1>14, <2>1
    <2>6. problem.classes[a] = problem.classes[r]
      BY <1>1, <1>12, <1>14
    <2> QED BY <1>1, <1>3, <1>4, <1>7, <1>8, <2>1, <2>2, <2>3, <2>4, <2>5, <2>6, DaysNotJoined DEF a, E, F, R
  <1>15. F(k[2]) = E(k[2])
    <2>1. \A p : p \in F(k[2]) <=> p \in E(k[2])
      BY <1>9, <1>10, <1>11, <1>13, <1>14
    <2> QED BY <2>1 DEF E, F, PeriodsOn
  <1> QED BY <1>15 DEF E, F, a, f, plan

-----------------------------------------------------------------------------
(***************************************************************************)
(* Finding locks.                                                          *)
(***************************************************************************)
\* Every key of a lock that can be found names its lesson.
LEMMA FindableNames ==
    ASSUME SolvingInv, SplitsSynchronized(problem, entries), NEW k, IsFindable(problem, entries, locked, k)
    PROVE  /\ Names(entries, k) /\ k[1] \in problem.req
           /\ \A s \in Branches(problem, k[1]) :
                 /\ <<s, k[2], k[3]>> \in locked /\ Names(entries, <<s, k[2], k[3]>>)
                 /\ BlockPeriods(problem, entries, s, k[2], k[3])
                        = BlockPeriods(problem, entries, k[1], k[2], k[3])
  <1> DEFINE block == BlockPeriods(problem, entries, k[1], k[2], k[3])
  <1>1. problem \in Problems /\ Triples(entries)
    BY DEF SolvingInv
  <1>2. /\ k[1] \in problem.req /\ k[3] \in PeriodsOn(entries, k[1], k[2]) /\ k[3] \in block
        /\ \A s \in Branches(problem, k[1]) : block \subseteq PeriodsOn(entries, s, k[2])
    BY DEF IsFindable, IsOccurrence, BlockPeriods
  <1>3. /\ k = <<k[1], k[2], k[3]>> /\ k[3] = Min(block)
        /\ k \in OccurrenceKeys(problem, entries, k[1], k[2], k[3])
    BY DEF IsFindable, OccurrenceKeys
  <1>4. Names(entries, k)
    BY <1>1, <1>2, <1>3, PeriodsOnMembers DEF Names
  <1>5. ASSUME NEW s \in Branches(problem, k[1])
        PROVE  /\ <<s, k[2], k[3]>> \in locked /\ Names(entries, <<s, k[2], k[3]>>)
               /\ BlockPeriods(problem, entries, s, k[2], k[3]) = block
    <2>1. BlockPeriods(problem, entries, s, k[2], k[3]) = block
      BY <1>1, <1>2, BlockOfMember
    <2>2. s \in problem.req /\ s \in Branches(problem, s)
      BY <1>2 DEF Branches
    <2>3. <<s, k[2], k[3]>> \in entries
      BY <1>1, <1>2, PeriodsOnMembers
    <2>4. <<s, k[2], k[3]>> \in OccurrenceKeys(problem, entries, k[1], k[2], k[3])
      BY <1>3 DEF OccurrenceKeys
    <2>5. <<s, k[2], k[3]>> \in OccurrenceKeys(problem, entries, s, k[2], k[3])
      BY <1>3, <2>1, <2>2 DEF OccurrenceKeys
    <2> QED BY <2>1, <2>3, <2>4, <2>5 DEF IsFindable, Names
  <1> QED BY <1>2, <1>4, <1>5

\* An exchange leaves locks where they are found.
LEMMA ExchangeKeepsFindable ==
    ASSUME SolvingInv, Verified(problem, entries), NEW m, MoveAllowed(entries, m),
           NEW k \in locked, IsFindable(problem, entries, locked, k), ~PrefersDouble(problem, k[1])
    PROVE  IsFindable(problem, Applied(entries, MovePlan(entries, m)), locked, k)
  <1> DEFINE f == Applied(entries, MovePlan(entries, m))
             block == BlockPeriods(problem, entries, k[1], k[2], k[3])
  <1>1. CASE StaysPut(entries, m)
    <2>1. f = entries
      BY <1>1 DEF MovePlan, NoChange, Applied
    <2> QED BY <2>1
  <1>2. CASE ~StaysPut(entries, m)
    <2>1. /\ problem \in Problems /\ Triples(entries) /\ SplitsSynchronized(problem, entries)
          /\ IsOccurrence(problem, entries, k[1], k[2], k[3])
      BY DEF SolvingInv, Verified, IsFindable
    <2>2. Triples(f)
      BY <2>1, ExchangeIsStorable
    <2>3. /\ Names(entries, k) /\ k[1] \in problem.req /\ k[1] \in Branches(problem, k[1])
          /\ \A s \in Branches(problem, k[1]) :
                /\ <<s, k[2], k[3]>> \in locked /\ Names(entries, <<s, k[2], k[3]>>)
                /\ BlockPeriods(problem, entries, s, k[2], k[3]) = block
      BY <2>1, FindableNames, LockedLesson
    <2>4. ASSUME NEW s \in Branches(problem, k[1]), NEW q \in block
          PROVE  q \in PeriodsOn(f, s, k[2])
      <3> DEFINE key == <<s, k[2], k[3]>>
      <3>1. key \in locked /\ Names(entries, key) /\ key[1] = s /\ key[2] = k[2] /\ key[3] = k[3]
        BY <2>3
      <3>2. q \in BlockPeriods(problem, entries, key[1], key[2], key[3])
        BY <2>3, <3>1
      <3> HIDE DEF key, f
      <3>3. <<s, k[2], q>> \in f
        BY <2>1, <3>1, <3>2, ExchangeLeavesLocked DEF f
      <3> QED BY <2>2, <3>3, PeriodsOnMembers
    <2>5. k[3] \in block
      BY <2>1 DEF IsOccurrence, BlockPeriods
    <2>6. PeriodsOn(f, k[1], k[2]) \subseteq Periods(problem)
      <3>1. PeriodsOn(entries, k[1], k[2]) \subseteq Periods(problem)
        BY <2>1 DEF IsOccurrence
      <3>2. /\ BlockPeriods(problem, entries, m.lesson[1], m.lesson[2], m.lesson[3]) \subseteq Periods(problem)
            /\ TargetWindow(entries, m) \subseteq Periods(problem)
        BY <1>2, ExchangePlaces
      <3>3. ASSUME NEW p \in PeriodsOn(f, k[1], k[2])
            PROVE  \/ p \in PeriodsOn(entries, k[1], k[2]) \/ p \in TargetWindow(entries, m)
                   \/ p \in BlockPeriods(problem, entries, m.lesson[1], m.lesson[2], m.lesson[3])
        BY <1>2, ExchangeOnDay
      <3> HIDE DEF f
      <3> QED BY <3>1, <3>2, <3>3
    <2>7. /\ BlockPeriods(problem, f, k[1], k[2], k[3]) = block
          /\ WholeDay(problem, k[1]) => IsRun(problem, PeriodsOn(f, k[1], k[2]))
      <3>1. CASE problem.mode[k[1]] = "REQUIRED"
        <4>1. PeriodsOn(f, k[1], k[2]) = PeriodsOn(entries, k[1], k[2])
          BY <1>2, <2>3, <3>1, LockedDayStays
        <4> HIDE DEF f
        <4> QED BY <2>1, <4>1 DEF BlockPeriods, IsOccurrence
      <3>2. CASE problem.mode[k[1]] # "REQUIRED"
        BY <3>2 DEF WholeDay, BlockPeriods
      <3> QED BY <3>1, <3>2
    <2>8. IsOccurrence(problem, f, k[1], k[2], k[3])
      <3> HIDE DEF f, block
      <3> QED BY <2>3, <2>4, <2>5, <2>6, <2>7 DEF IsOccurrence
    <2>9. OccurrenceKeys(problem, f, k[1], k[2], k[3]) = OccurrenceKeys(problem, entries, k[1], k[2], k[3])
      BY <2>7 DEF OccurrenceKeys
    <2> QED BY <2>8, <2>9 DEF IsFindable
  <1> QED BY <1>1, <1>2

\* All keys of an occurrence find it.
LEMMA LockIsFindable ==
    ASSUME SolvingInv, Verified(problem, entries), NEW r, NEW d, NEW p,
           IsOccurrence(problem, entries, r, d, p),
           NEW keys, OccurrenceKeys(problem, entries, r, d, p) \subseteq keys,
           NEW k \in OccurrenceKeys(problem, entries, r, d, p), ~PrefersDouble(problem, k[1])
    PROVE  IsFindable(problem, entries, keys, k)
  <1> DEFINE block == BlockPeriods(problem, entries, r, d, p)
  <1>1. problem \in Problems /\ Triples(entries) /\ SplitsSynchronized(problem, entries)
    BY DEF SolvingInv, Verified
  <1>2. r \in problem.req /\ block \subseteq PeriodsOn(entries, r, d) /\ Min(block) \in block
    BY <1>1, BlockIsInterval DEF IsOccurrence
  <1>3. k = <<k[1], k[2], k[3]>> /\ k[1] \in Branches(problem, r) /\ k[2] = d /\ k[3] = Min(block)
    BY DEF OccurrenceKeys
  <1>4. /\ k[1] \in problem.req /\ Branches(problem, k[1]) = Branches(problem, r)
        /\ WholeDay(problem, k[1]) <=> WholeDay(problem, r)
    BY <1>1, <1>2, <1>3, BranchesOfBranch, ProblemAssumption
  <1>5. BlockPeriods(problem, entries, k[1], d, k[3]) = block
    BY <1>1, <1>2, <1>3, BlockOfMember
  <1>6. PeriodsOn(entries, k[1], d) = PeriodsOn(entries, r, d)
    BY <1>1, <1>2, <1>3, BranchesTogether
  <1>7. IsOccurrence(problem, entries, k[1], d, k[3])
    <2>1. \A s \in Branches(problem, k[1]) : BlockPeriods(problem, entries, k[1], d, k[3]) \subseteq PeriodsOn(entries, s, d)
      BY <1>4, <1>5 DEF IsOccurrence
    <2> QED BY <1>2, <1>3, <1>4, <1>6, <2>1 DEF IsOccurrence
  <1>8. OccurrenceKeys(problem, entries, k[1], d, k[3]) = OccurrenceKeys(problem, entries, r, d, p)
    BY <1>4, <1>5 DEF OccurrenceKeys
  <1> QED BY <1>3, <1>7, <1>8 DEF IsFindable

\* Taking one lock away takes no key of another one.
LEMMA UnlockedApart ==
    ASSUME NEW r \in problem.req, NEW d, NEW p,
           NEW k, IsFindable(problem, entries, locked, k), k \notin OccurrenceKeys(problem, entries, r, d, p)
    PROVE  IsFindable(problem, entries, locked \ OccurrenceKeys(problem, entries, r, d, p), k)
  <1> DEFINE here == OccurrenceKeys(problem, entries, k[1], k[2], k[3])
             there == OccurrenceKeys(problem, entries, r, d, p)
             n == Min(BlockPeriods(problem, entries, k[1], k[2], k[3]))
             l == Min(BlockPeriods(problem, entries, r, d, p))
  <1>1. k[1] \in problem.req /\ k \in here /\ here \subseteq locked
    BY DEF IsFindable, IsOccurrence
  <1>2. here = Branches(problem, k[1]) \X {k[2]} \X {n} /\ there = Branches(problem, r) \X {d} \X {l}
    BY DEF OccurrenceKeys
  <1> HIDE DEF here, there, n, l
  <1>3. ASSUME NEW y \in here, y \in there
        PROVE  FALSE
    <2>1. /\ y[1] \in Branches(problem, k[1]) /\ y[1] \in Branches(problem, r)
          /\ k[2] = d /\ n = l
      BY <1>2, <1>3
    <2>2. Branches(problem, k[1]) = Branches(problem, r)
      BY <1>1, <2>1, BranchesOfBranch
    <2> QED BY <1>1, <1>2, <2>1, <2>2 DEF there
  <1>4. here \subseteq locked \ there
    BY <1>1, <1>3
  <1> QED BY <1>4 DEF IsFindable, here, there

\* An edit by hand leaves locks where they are found.
LEMMA EditsFind ==
    ASSUME SolvingInv, MoveVersion \/ LockVersion
    PROVE  \A k \in locked' :
              \/ IsFindable(problem', entries', locked', k)
              \/ k \in locked /\ ~IsFindable(problem, entries, locked, k)
              \/ PrefersDouble(problem, k[1])
  <1>1. CASE MoveVersion
    <2>1. Verified(problem, entries) /\ UNCHANGED <<problem, locked>>
      BY <1>1, MovesExchange
    <2>2. PICK m : MoveAllowed(entries, m) /\ entries' = Applied(entries, MovePlan(entries, m))
      BY <1>1, MovesExchange
    <2> QED BY <1>1, <2>1, <2>2, ExchangeKeepsFindable
  <1>2. CASE LockVersion
    <2>1. Verified(problem, entries) /\ UNCHANGED <<problem, entries>>
      BY <1>2 DEF LockVersion, LockOccurrence, UnlockOccurrence
    <2>2. CASE LockOccurrence
      <3>1. PICK x \in entries \cap Lessons(problem) :
                /\ IsOccurrence(problem, entries, x[1], x[2], x[3])
                /\ locked' = locked \cup OccurrenceKeys(problem, entries, x[1], x[2], x[3])
        BY <2>2 DEF LockOccurrence
      <3>2. ASSUME NEW k \in OccurrenceKeys(problem, entries, x[1], x[2], x[3]), ~PrefersDouble(problem, k[1])
            PROVE  IsFindable(problem, entries, locked', k)
        BY <1>2, <2>1, <3>1, <3>2, LockIsFindable
      <3>3. ASSUME NEW k, IsFindable(problem, entries, locked, k)
            PROVE  IsFindable(problem, entries, locked', k)
        BY <3>1, <3>3 DEF IsFindable
      <3> QED BY <2>1, <3>1, <3>2, <3>3
    <2>3. CASE UnlockOccurrence
      <3>1. PICK x \in entries \cap Lessons(problem) :
                /\ IsOccurrence(problem, entries, x[1], x[2], x[3])
                /\ locked' = locked \ OccurrenceKeys(problem, entries, x[1], x[2], x[3])
        BY <2>3 DEF UnlockOccurrence
      <3>2. x[1] \in problem.req
        BY <3>1 DEF IsOccurrence
      <3>3. ASSUME NEW k \in locked', IsFindable(problem, entries, locked, k)
            PROVE  IsFindable(problem, entries, locked', k)
        BY <3>1, <3>2, <3>3, UnlockedApart
      <3> QED BY <2>1, <3>1, <3>3
    <2> QED BY <1>2, <2>2, <2>3 DEF LockVersion
  <1> QED BY <1>1, <1>2

(***************************************************************************)
(* For any problem and timetable, no move, lock or unlock puts a lock out  *)
(* of reach that could be found, but one of a PREFERRED double.            *)
(***************************************************************************)
THEOREM LocksStayInReach == SolvingSpec => EditsKeepLocksFindable
  <1> DEFINE Found == \A k \in locked' :
                          \/ IsFindable(problem', entries', locked', k)
                          \/ k \in locked /\ ~IsFindable(problem, entries, locked, k)
                          \/ PrefersDouble(problem, k[1])
             Kept == Found \/ ~(MoveVersion \/ LockVersion)
  <1>1. SolvingInv /\ [SolvingNext]_allVars => [Kept]_allVars
    BY EditsFind
  <1>2. Generate => SolvingInv
    BY GenerateInv
  <1>3. SolvingInv /\ [SolvingNext]_allVars => SolvingInv'
    BY SolvingInvKept
  <1> QED BY <1>1, <1>2, <1>3, PTL DEF SolvingSpec, EditsKeepLocksFindable

-----------------------------------------------------------------------------
(***************************************************************************)
(* Locks kept under a changed configuration.                               *)
(***************************************************************************)
\* The block of a requirement on a day on which it is pinned.
LEMMA PinnedBlock ==
    ASSUME NEW pr \in Problems, NEW keys,
           \A k \in keys : IsOccurrence(pr, entries, k[1], k[2], k[3]),
           NEW r \in pr.req, pr.mode[r] = "REQUIRED", NEW d,
           NEW k \in keys, r \in Branches(pr, k[1]), k[2] = d
    PROVE  /\ PeriodsOn(Pins(pr, keys), r, d) # {}
           /\ PeriodsOn(Pins(pr, keys), r, d) \subseteq Periods(pr)
           /\ Occurrence(pr, entries, k[1], k[2], k[3])
                = Branches(pr, k[1]) \X {d} \X PeriodsOn(Pins(pr, keys), r, d)
  <1> DEFINE W == PeriodsOn(Pins(pr, keys), r, d)
             Of(j) == Occurrence(pr, entries, j[1], j[2], j[3])
             E(j) == PeriodsOn(entries, j[1], j[2])
  <1>1. ASSUME NEW j \in keys, r \in Branches(pr, j[1])
        PROVE  /\ Of(j) = Branches(pr, j[1]) \X {j[2]} \X E(j)
               /\ Branches(pr, j[1]) = Branches(pr, r) /\ j[1] \in Branches(pr, r)
               /\ \A s \in Branches(pr, r) : E(j) \subseteq PeriodsOn(entries, s, j[2])
               /\ E(j) # {}
    <2>1. j[1] \in pr.req /\ IsOccurrence(pr, entries, j[1], j[2], j[3])
      BY DEF IsOccurrence
    <2>2. /\ Branches(pr, j[1]) = Branches(pr, r) /\ j[1] \in Branches(pr, r)
          /\ WholeDay(pr, j[1])
      <3>1. WholeDay(pr, r)
        BY DEF WholeDay
      <3> QED BY <1>1, <2>1, <3>1, BranchesOfBranch, ProblemAssumption
    <2>3. BlockPeriods(pr, entries, j[1], j[2], j[3]) = E(j)
      BY <2>2 DEF BlockPeriods
    <2> QED BY <2>1, <2>2, <2>3 DEF IsOccurrence, Occurrence
  <1>2. ASSUME NEW j \in keys, r \in Branches(pr, j[1]), j[2] = d
        PROVE  E(j) = E(k)
    <2>1. E(j) \subseteq E(k)
      BY <1>1, <1>2
    <2>2. E(k) \subseteq E(j)
      BY <1>1, <1>2
    <2> QED BY <2>1, <2>2
  <1>3. ASSUME NEW p \in W
        PROVE  p \in E(k)
    <2>1. PICK j \in keys : \E x \in Of(j) : x[1] = r /\ x[2] = d /\ x[3] = p
      BY DEF PeriodsOn, Pins, CompatibleMembers
    <2>2. r \in Branches(pr, j[1]) /\ j[2] = d
      BY <2>1 DEF Occurrence
    <2>3. p \in E(j)
      <3>1. Of(j) = Branches(pr, j[1]) \X {j[2]} \X E(j)
        BY <1>1, <2>2
      <3> HIDE DEF Of, E
      <3> QED BY <2>1, <3>1
    <2> QED BY <1>2, <2>2, <2>3
  <1>4. ASSUME NEW p \in E(k)
        PROVE  p \in W
    <2>1. <<r, d, p>> \in Of(k)
      <3>1. Of(k) = Branches(pr, k[1]) \X {k[2]} \X E(k)
        BY <1>1
      <3> HIDE DEF Of, E
      <3> QED BY <3>1
    <2>2. <<r, d, p>> \in Pins(pr, keys)
      BY <2>1 DEF Pins, CompatibleMembers
    <2> QED BY <2>2 DEF PeriodsOn
  <1>5. W = E(k)
    <2> HIDE DEF W, E
    <2> QED BY <1>3, <1>4
  <1>6. E(k) \subseteq Periods(pr)
    BY DEF IsOccurrence
  <1> QED BY <1>1, <1>5, <1>6

LEMMA BlockSize ==
    ASSUME NEW W, IsFiniteSet(W), NEW r, NEW d
    PROVE  Cardinality({r} \X {d} \X W) = Cardinality(W)
  <1> DEFINE f == [p \in W |-> <<r, d, p>>]
             block == {r} \X {d} \X W
  <1>1. f \in [W -> block]
    OBVIOUS
  <1>2. \A p, q \in W : f[p] = f[q] => p = q
    OBVIOUS
  <1>3. ASSUME NEW x \in block
        PROVE  x[3] \in W /\ f[x[3]] = x
    OBVIOUS
  <1>4. f \in Bijection(W, block)
    BY <1>1, <1>2, <1>3 DEF Bijection, Injection, IsInjective, Surjection
  <1> HIDE DEF f, block
  <1>5. ExistsBijection(W, block)
    BY <1>4 DEF ExistsBijection
  <1>6. Cardinality(block) = Cardinality(W)
    BY <1>5, FS_Bijection
  <1> QED BY <1>6 DEF block

\* The blocks of a REQUIRED requirement that are pinned are part of its pattern:
\* the one whose key was classified last was still one too few.
LEMMA PinnedPattern ==
    ASSUME NEW pr \in Problems, NEW days, IsFiniteSet(days), IsFiniteSet(locked),
           NEW order \in KeyOrders(locked), NEW keys \in SUBSET locked, Classified(pr, entries, order, keys),
           NEW r \in pr.req, pr.mode[r] = "REQUIRED", NEW n \in Nat \ {0}
    PROVE  Cardinality({d \in days : Cardinality(PeriodsOn(Pins(pr, keys), r, d)) = n})
               <= Cardinality({i \in DOMAIN pr.sizes[r] : pr.sizes[r][i] = n})
  <1> DEFINE N == Cardinality(locked)
             W(d) == PeriodsOn(Pins(pr, keys), r, d)
             D == {d \in days : Cardinality(W(d)) = n}
             count == Cardinality({i \in DOMAIN pr.sizes[r] : pr.sizes[r][i] = n})
             Turns(d) == {i \in 1 .. N : order[i] \in keys /\ r \in Branches(pr, order[i][1]) /\ order[i][2] = d}
             first(d) == Min(Turns(d))
             Of(k) == Occurrence(pr, entries, k[1], k[2], k[3])
             Block(lessons) == {x \in lessons : x[1] = r}
             block(d) == {r} \X {d} \X W(d)
  <1>1. N \in Nat /\ DOMAIN order = 1 .. N
    BY FS_CardinalityType DEF KeyOrders, SetToSeqs
  <1>2. ASSUME NEW i \in 1 .. N, order[i] \in keys
        PROVE  StaysLocked(pr, entries, order[i], keys \cap {order[j] : j \in 1 .. i - 1})
    BY <1>1, <1>2 DEF Classified
  <1>3. \A k \in keys : \E i \in 1 .. N : order[i] = k
    BY <1>1 DEF Classified, Range
  <1>4. \A k \in keys : IsOccurrence(pr, entries, k[1], k[2], k[3])
    BY <1>2, <1>3 DEF StaysLocked
  <1>5. ASSUME NEW k \in keys, r \in Branches(pr, k[1])
        PROVE  /\ W(k[2]) # {} /\ W(k[2]) \subseteq Periods(pr)
               /\ Of(k) = Branches(pr, k[1]) \X {k[2]} \X W(k[2])
    <2> DEFINE d == k[2]
    <2>1. d = k[2]
      OBVIOUS
    <2> HIDE DEF d
    <2>2. /\ PeriodsOn(Pins(pr, keys), r, d) # {}
          /\ PeriodsOn(Pins(pr, keys), r, d) \subseteq Periods(pr)
          /\ Occurrence(pr, entries, k[1], k[2], k[3])
                = Branches(pr, k[1]) \X {d} \X PeriodsOn(Pins(pr, keys), r, d)
      BY <1>4, <1>5, <2>1, PinnedBlock
    <2> QED BY <2>1, <2>2
  <1>6. count \in Nat
    <2>1. pr.sizes[r] \in Seq(Nat)
      BY ProblemAssumption
    <2>2. DOMAIN pr.sizes[r] = 1 .. Len(pr.sizes[r]) /\ Len(pr.sizes[r]) \in Nat
      BY <2>1
    <2>3. IsFiniteSet(1 .. Len(pr.sizes[r]))
      BY <2>2, FS_Interval
    <2> QED BY <2>2, <2>3, FS_Subset, FS_CardinalityType
  <1>7. ASSUME NEW d \in D
        PROVE  /\ first(d) \in Turns(d) /\ first(d) \in 1 .. N
               /\ \A i \in Turns(d) : first(d) <= i
    <2>1. W(d) # {}
      BY FS_EmptySet
    <2>2. PICK x \in Pins(pr, keys) : x[1] = r /\ x[2] = d
      BY <2>1 DEF PeriodsOn
    <2>3. PICK k \in keys : x \in Of(k)
      BY DEF Pins, CompatibleMembers
    <2>4. r \in Branches(pr, k[1]) /\ k[2] = d
      BY <2>2, <2>3 DEF Occurrence
    <2>5. Turns(d) # {}
      BY <1>3, <2>4
    <2>6. Turns(d) \in SUBSET Nat
      OBVIOUS
    <2> HIDE DEF Turns
    <2>7. first(d) \in Turns(d) /\ \A i \in Turns(d) : first(d) <= i
      BY <2>5, <2>6, Smallest
    <2> QED BY <2>7 DEF Turns
  <1>8. IsFiniteSet(D)
    BY FS_Subset
  <1>9. CASE D = {}
    BY <1>6, <1>9, FS_EmptySet
  <1>10. CASE D # {}
    <2> DEFINE S == {first(d) : d \in D}
    <2>1. S \in SUBSET (0 .. N) /\ S # {}
      <3>1. \A d \in D : first(d) \in 0 .. N
        BY <1>1, <1>7
      <3> HIDE DEF first, D
      <3> QED BY <1>10, <3>1
    <2>2. Max(S) \in S /\ \A y \in S : Max(S) >= y
      <3> HIDE DEF S
      <3> QED BY <1>1, <2>1, Largest
    <2>3. PICK c \in D : Max(S) = first(c)
      <3> HIDE DEF first, D
      <3> QED BY <2>2
    <2>4. \A d \in D : first(c) >= first(d)
      <3> HIDE DEF first, D
      <3> QED BY <2>2, <2>3
    <2> DEFINE k == order[first(c)]
               kept == keys \cap {order[j] : j \in 1 .. first(c) - 1}
               K == {Block(o) : o \in {Of(j) : j \in kept}} \ {{}}
               Kn == {b \in K : Cardinality(b) = n}
    <2>5. first(c) \in 1 .. N /\ k \in keys /\ r \in Branches(pr, k[1]) /\ k[2] = c
      <3> HIDE DEF first, D
      <3> QED BY <1>7
    <2>6. StaysLocked(pr, entries, k, kept)
      <3> HIDE DEF first
      <3> QED BY <1>2, <2>5
    <2>7. ASSUME NEW j \in keys, r \in Branches(pr, j[1]), j[2] \in D
          PROVE  Block(Of(j)) = block(j[2]) /\ block(j[2]) # {} /\ Cardinality(block(j[2])) = n
      <3>1. Of(j) = Branches(pr, j[1]) \X {j[2]} \X W(j[2]) /\ W(j[2]) # {}
        BY <1>5, <2>7
      <3>2. IsFiniteSet(W(j[2]))
        BY <1>5, <2>7, FS_Subset, ProblemAssumption
      <3>3. Cardinality(W(j[2])) = n
        BY <2>7
      <3> HIDE DEF W, Of, D
      <3>4. Cardinality(block(j[2])) = n
        BY <3>2, <3>3, BlockSize
      <3>5. Block(Of(j)) = block(j[2])
        BY <2>7, <3>1
      <3>6. block(j[2]) # {}
        <4>1. PICK p : p \in W(j[2])
          BY <3>1
        <4>2. <<r, j[2], p>> \in block(j[2])
          BY <4>1
        <4> QED BY <4>2
      <3> QED BY <3>4, <3>5, <3>6
    <2>8. Block(Of(k)) = block(c) /\ block(c) # {} /\ Cardinality(block(c)) = n
      <3> HIDE DEF k, Block, Of, block, D
      <3> QED BY <2>5, <2>7
    <2>9. ASSUME block(c) \in K
          PROVE  FALSE
      <3>1. PICK j \in kept : block(c) = Block(Of(j))
        <4> HIDE DEF block, Block, Of, kept
        <4> QED BY <2>9
      <3>2. PICK x : x \in block(c)
        <4> HIDE DEF block
        <4> QED BY <2>8
      <3>3. x[1] = r /\ x[2] = c /\ x \in Of(j)
        <4> HIDE DEF Of
        <4> QED BY <3>1, <3>2
      <3>4. r \in Branches(pr, j[1]) /\ j[2] = c
        BY <3>3 DEF Occurrence
      <3>5. PICK l \in 1 .. first(c) - 1 : j = order[l] /\ j \in keys
        <4> HIDE DEF first
        <4> QED OBVIOUS
      <3> HIDE DEF first
      <3>6. l \in 1 .. N /\ l < first(c)
        BY <1>1, <2>5
      <3>7. l \in Turns(c)
        BY <3>4, <3>5, <3>6
      <3> HIDE DEF Turns, D
      <3>8. first(c) <= l
        BY <1>7, <3>7
      <3> QED BY <1>1, <2>5, <3>6, <3>8
    <2>10. ~(Cardinality(Kn) >= count)
      <3>1. ~RequiredPatternViolated(pr, Of(k), {Of(j) : j \in kept})
        BY <2>6 DEF StaysLocked
      <3>2. r \in {x[1] : x \in Of(k)}
        <4>1. PICK x : x \in Block(Of(k))
          <5> HIDE DEF Block, Of, block
          <5> QED BY <2>8
        <4> HIDE DEF Of
        <4> QED BY <4>1
      <3>3. block(c) \notin K
        BY <2>9
      <3> HIDE DEF Of, k, kept, block
      <3> QED BY <2>8, <3>1, <3>2, <3>3 DEF RequiredPatternViolated
    <2>11. IsFiniteSet(Kn)
      <3> DEFINE found == [l \in 1 .. N |-> Block(Of(order[l]))]
                 all == {found[l] : l \in 1 .. N}
      <3>1. found \in Surjection(1 .. N, all) /\ IsFiniteSet(1 .. N)
        <4>1. found \in [1 .. N -> all]
          OBVIOUS
        <4>2. \A y \in all : \E l \in 1 .. N : found[l] = y
          <5> HIDE DEF found
          <5> QED OBVIOUS
        <4>3. IsFiniteSet(1 .. N)
          <5> HIDE DEF N
          <5> QED BY <1>1, FS_Interval
        <4> HIDE DEF found, all
        <4> QED BY <4>1, <4>2, <4>3 DEF Surjection
      <3>2. \A j \in kept : \E l \in 1 .. N : j = order[l]
        BY <1>3
      <3>3. Kn \in SUBSET all
        <4> HIDE DEF Block, Of, kept
        <4> QED BY <3>2
      <3>4. IsFiniteSet(all)
        <4> HIDE DEF found, all
        <4> QED BY <3>1, FS_Surjection
      <3> HIDE DEF Kn, all
      <3> QED BY <3>3, <3>4, FS_Subset
    <2> DEFINE E == D \ {c}
               g == [d \in E |-> block(d)]
    <2>12. ASSUME NEW d \in E
           PROVE  block(d) \in Kn /\ block(d) # {}
      <3> DEFINE j == order[first(d)]
      <3>1. first(d) \in 1 .. N /\ j \in keys /\ r \in Branches(pr, j[1]) /\ j[2] = d
        <4> HIDE DEF first, D
        <4> QED BY <1>7
      <3>2. first(d) # first(c) /\ first(d) <= first(c)
        <4>1. first(c) >= first(d)
          BY <2>4
        <4>2. c # d
          OBVIOUS
        <4> HIDE DEF first, D
        <4> QED BY <1>1, <2>5, <3>1, <4>1, <4>2
      <3>3. j \in kept
        <4>1. first(d) \in 1 .. first(c) - 1
          <5> HIDE DEF first
          <5> QED BY <1>1, <2>5, <3>1, <3>2
        <4> HIDE DEF first
        <4> QED BY <3>1, <4>1
      <3>4. Block(Of(j)) = block(d) /\ block(d) # {} /\ Cardinality(block(d)) = n
        <4> HIDE DEF Block, Of, block, j
        <4> QED BY <2>7, <3>1
      <3> HIDE DEF Block, Of, block, j, kept
      <3> QED BY <3>3, <3>4
    <2>13. g \in Injection(E, Kn)
      <3>1. g \in [E -> Kn]
        <4> HIDE DEF E, Kn, block
        <4> QED BY <2>12
      <3>2. ASSUME NEW d1 \in E, NEW d2 \in E, g[d1] = g[d2]
            PROVE  d1 = d2
        <4>1. block(d1) = block(d2)
          BY <3>2
        <4>2. PICK x : x \in block(d1)
          <5> HIDE DEF block, E
          <5> QED BY <2>12
        <4> HIDE DEF W
        <4> QED BY <4>1, <4>2
      <3> HIDE DEF g, E, Kn
      <3> QED BY <3>1, <3>2 DEF Injection, IsInjective
    <2>14. Cardinality(E) <= Cardinality(Kn)
      <3> HIDE DEF g, E, Kn
      <3> QED BY <2>11, <2>13, FS_Injection
    <2>15. Cardinality(E) = Cardinality(D) - 1 /\ Cardinality(D) \in Nat
      <3> HIDE DEF D
      <3> QED BY <1>8, FS_RemoveElement, FS_CardinalityType
    <2>16. Cardinality(Kn) \in Nat
      <3> HIDE DEF Kn
      <3> QED BY <2>11, FS_CardinalityType
    <2> HIDE DEF E, Kn, D, count
    <2>17. Cardinality(D) <= count
      BY <1>6, <2>10, <2>14, <2>15, <2>16
    <2> QED BY <2>17 DEF D, count
  <1> QED BY <1>9, <1>10

\* What is pinned is a lesson of the draft, but for its day.
LEMMA PinnedLessons ==
    ASSUME NEW pr, NEW order, NEW keys, Classified(pr, entries, order, keys), NEW x \in Pins(pr, keys)
    PROVE  x \in Lessons(pr) \/ x[2] \notin pr.day
  <1>1. PICK k \in keys : x \in Occurrence(pr, entries, k[1], k[2], k[3])
    BY DEF Pins, CompatibleMembers
  <1>2. PICK i \in DOMAIN order : order[i] = k
    BY DEF Classified, Range
  <1>3. IsOccurrence(pr, entries, k[1], k[2], k[3])
    BY <1>2 DEF Classified, StaysLocked
  <1>4. /\ x = <<x[1], x[2], x[3]>> /\ x[1] \in Branches(pr, k[1])
        /\ x[3] \in BlockPeriods(pr, entries, k[1], k[2], k[3])
    BY <1>1 DEF Occurrence
  <1>5. x[1] \in pr.req /\ x[3] \in Periods(pr)
    BY <1>3, <1>4 DEF IsOccurrence, BlockPeriods, Branches
  <1> QED BY <1>4, <1>5 DEF Lessons

(***************************************************************************)
(* For any timetable, draft and locks: the locks that are classified       *)
(* compatible, in any order, are lessons of the draft but for their days,  *)
(* and as blocks part of its REQUIRED patterns.                            *)
(***************************************************************************)
THEOREM CompatibleLocksFit == SolvingSpec => []CompatibleLocksCanBePinned
  <1>1. ASSUME SolvingInv
        PROVE  CompatibleLocksCanBePinned
    <2> SUFFICES ASSUME problem \in Solved, NEW pr \in Drafts[problem],
                        NEW order \in KeyOrders(locked), NEW keys \in SUBSET locked,
                        Classified(pr, entries, order, keys)
                 PROVE  /\ \A x \in Pins(pr, keys) : x \in Lessons(pr) \/ x[2] \notin pr.day
                        /\ \A r \in pr.req : pr.mode[r] = "REQUIRED" =>
                               \A n \in 1 .. Cardinality(Periods(pr)) :
                                   Cardinality({d \in problem.day : Cardinality(PeriodsOn(Pins(pr, keys), r, d)) = n})
                                       <= Cardinality({i \in DOMAIN pr.sizes[r] : pr.sizes[r][i] = n})
      BY DEF CompatibleLocksCanBePinned
    <2>1. pr \in Problems /\ IsFiniteSet(problem.day) /\ IsFiniteSet(locked)
      BY <1>1, SolvedAssumption, ProblemAssumption DEF SolvingInv
    <2>2. \A x \in Pins(pr, keys) : x \in Lessons(pr) \/ x[2] \notin pr.day
      BY PinnedLessons
    <2>3. ASSUME NEW r \in pr.req, pr.mode[r] = "REQUIRED", NEW n \in 1 .. Cardinality(Periods(pr))
          PROVE  Cardinality({d \in problem.day : Cardinality(PeriodsOn(Pins(pr, keys), r, d)) = n})
                     <= Cardinality({i \in DOMAIN pr.sizes[r] : pr.sizes[r][i] = n})
      <3>1. Cardinality(Periods(pr)) \in Nat
        BY <2>1, ProblemAssumption, FS_CardinalityType
      <3>2. n \in Nat \ {0}
        BY <3>1
      <3> QED BY <2>1, <2>3, <3>2, PinnedPattern
    <2> QED BY <2>2, <2>3
  <1>2. Generate => SolvingInv
    BY GenerateInv
  <1>3. SolvingInv /\ [SolvingNext]_allVars => SolvingInv'
    BY SolvingInvKept
  <1> QED BY <1>1, <1>2, <1>3, PTL DEF SolvingSpec

(***************************************************************************)
(* Taking a move back.                                                     *)
(***************************************************************************)
\* What is edited and not solved is given, stays on its grid, and its locks are
\* found.
EditingInv ==
    /\ SolvingInv
    /\ earlier # NoProblem => problem \in Solved
    /\ reviewed # NoMove => problem \notin Solved
    /\ problem \notin Solved =>
          /\ Timetables[problem] # {}
          /\ entries \subseteq Lessons(problem) \cup ReservedEntries(problem)
          /\ \A k \in locked : IsFindable(problem, entries, locked, k) \/ PrefersDouble(problem, k[1])

\* A verified timetable that is edited.
Edited == EditingInv /\ problem \notin Solved /\ Verified(problem, entries)

Lay(r, d, B) == At(Branches(problem, r), d, B)

\* The lessons of r on d in B have changed places with those of o on c in W.
Exchange(f, r, d, B, o, c, W) ==
    /\ r \in problem.req /\ o \in problem.req /\ problem.classes[o] = problem.classes[r]
    /\ d \in problem.day /\ c \in problem.day /\ ~(d = c /\ B = W)
    /\ B \in SUBSET Periods(problem) /\ W \in SUBSET Periods(problem)
    /\ B # {} /\ W # {} /\ Cardinality(B) = Cardinality(W)
    /\ \A p \in B : /\ <<r, d, p>> \in entries /\ BlockPeriods(problem, entries, r, d, p) = B
                    /\ Free(entries, r, d, p)
    /\ \A p \in W : /\ <<o, c, p>> \in entries /\ BlockPeriods(problem, entries, o, c, p) = W
                    /\ Free(entries, o, c, p)
    /\ f = (entries \ (Lay(r, d, B) \cup Lay(o, c, W))) \cup (Lay(r, c, W) \cup Lay(o, d, B))
    /\ SlotsAccept(entries \ (Lay(r, d, B) \cup Lay(o, c, W)), Lay(r, c, W) \cup Lay(o, d, B))
    /\ RequiredBlocksKept(problem, f)
    /\ \A s \in Branches(problem, r) \cup Branches(problem, o) : DailyCapKept(problem, f, s)

\* Of two requirements and their branches none is a PREFERRED double.
NotDoubled(r, o) == \A s \in Branches(problem, r) \cup Branches(problem, o) : ~PrefersDouble(problem, s)

LEMMA ExchangeSymmetric ==
    ASSUME NEW f, NEW r, NEW d, NEW B, NEW o, NEW c, NEW W, Exchange(f, r, d, B, o, c, W)
    PROVE  Exchange(f, o, c, W, r, d, B)
  <1>1. f = (entries \ (Lay(o, c, W) \cup Lay(r, d, B))) \cup (Lay(o, d, B) \cup Lay(r, c, W))
    <2>1. f = (entries \ (Lay(r, d, B) \cup Lay(o, c, W))) \cup (Lay(r, c, W) \cup Lay(o, d, B))
      BY DEF Exchange
    <2> QED BY <2>1
  <1>2. SlotsAccept(entries \ (Lay(o, c, W) \cup Lay(r, d, B)), Lay(o, d, B) \cup Lay(r, c, W))
    <2>1. SlotsAccept(entries \ (Lay(r, d, B) \cup Lay(o, c, W)), Lay(r, c, W) \cup Lay(o, d, B))
      BY DEF Exchange
    <2>2. /\ Lay(r, d, B) \cup Lay(o, c, W) = Lay(o, c, W) \cup Lay(r, d, B)
          /\ Lay(r, c, W) \cup Lay(o, d, B) = Lay(o, d, B) \cup Lay(r, c, W)
      OBVIOUS
    <2> QED BY <2>1, <2>2, Zenon
  <1> QED BY <1>1, <1>2 DEF Exchange

LEMMA AtMember ==
    ASSUME NEW S, NEW d, NEW B, NEW x
    PROVE  /\ x \in At(S, d, B) => x = <<x[1], x[2], x[3]>> /\ x[1] \in S /\ x[2] = d /\ x[3] \in B
           /\ \A a, c, p : <<a, c, p>> \in At(S, d, B) <=> a \in S /\ c = d /\ p \in B
  BY DEF At

\* What the classes of a requirement do in the periods of its lessons is of its
\* split.
LEMMA TakenBySplit ==
    ASSUME Edited, NEW r \in problem.req, NEW d \in problem.day, NEW B \in SUBSET Periods(problem),
           \A p \in B : <<r, d, p>> \in entries,
           NEW x \in entries, x[2] = d, x[3] \in B, problem.classes[x[1]] \cap problem.classes[r] # {}
    PROVE  x \in Lay(r, d, B)
  <1>1. /\ problem \in Problems /\ Triples(entries) /\ Storable(problem, entries)
        /\ ClassesFullyOccupied(problem, entries)
    BY DEF Edited, EditingInv, SolvingInv, Verified
  <1>2. x = <<x[1], d, x[3]>> /\ x[1] \in problem.req \cup problem.reserved /\ x[3] \in Periods(problem)
    BY <1>1 DEF Triples, Storable
  <1>3. x[1] \in Branches(problem, r)
    <2>1. <<x[1], d, x[3]>> \in entries /\ <<r, d, x[3]>> \in entries
      BY <1>2
    <2> QED BY <1>1, <1>2, <2>1, SharedCellSameSplit
  <1> QED BY <1>2, <1>3, AtMember DEF Lay

LEMMA BranchFacts ==
    ASSUME Edited, NEW r \in problem.req, NEW s \in Branches(problem, r)
    PROVE  /\ s \in problem.req /\ problem.classes[s] = problem.classes[r] /\ problem.classes[s] # {}
           /\ r \in Branches(problem, s) /\ Branches(problem, s) = Branches(problem, r)
           /\ \A d : PeriodsOn(entries, s, d) = PeriodsOn(entries, r, d)
           /\ \A d, p : \A q \in BlockPeriods(problem, entries, r, d, p) :
                  BlockPeriods(problem, entries, s, d, q) = BlockPeriods(problem, entries, r, d, p)
  <1>1. problem \in Problems /\ Triples(entries) /\ SplitsSynchronized(problem, entries)
    BY DEF Edited, EditingInv, SolvingInv, Verified
  <1>2. s \in problem.req /\ r \in Branches(problem, s) /\ Branches(problem, s) = Branches(problem, r)
    BY BranchesOfBranch
  <1>3. problem.classes[s] = problem.classes[r] /\ problem.classes[s] # {}
    BY <1>1, <1>2, ProblemAssumption
  <1> QED BY <1>1, <1>2, <1>3, BranchesTogether, BlockOfMember

\* Two occurrences that exchange places have no period in common.
LEMMA ExchangedApart ==
    ASSUME Edited, NEW f, NEW r, NEW d, NEW B, NEW o, NEW c, NEW W, Exchange(f, r, d, B, o, c, W), c = d
    PROVE  B \cap W = {}
  <1> SUFFICES ASSUME NEW p \in B, p \in W PROVE FALSE
    OBVIOUS
  <1>1. /\ r \in problem.req /\ o \in problem.req /\ problem.classes[o] = problem.classes[r]
        /\ d \in problem.day /\ B \in SUBSET Periods(problem) /\ B # W
        /\ \A q \in B : <<r, d, q>> \in entries /\ BlockPeriods(problem, entries, r, d, q) = B
        /\ <<o, d, p>> \in entries /\ BlockPeriods(problem, entries, o, d, p) = W
    BY DEF Exchange
  <1>2. problem.classes[o] # {}
    BY <1>1, BranchFacts DEF Branches
  <1>3. o \in Branches(problem, r)
    <2> DEFINE x == <<o, d, p>>
    <2>1. x \in entries /\ x[1] = o /\ x[2] = d /\ x[3] \in B
      BY <1>1
    <2> HIDE DEF x
    <2>2. x \in Lay(r, d, B)
      BY <1>1, <1>2, <2>1, TakenBySplit
    <2> QED BY <2>1, <2>2, AtMember DEF Lay
  <1>4. p \in BlockPeriods(problem, entries, r, d, p)
    BY <1>1
  <1>5. BlockPeriods(problem, entries, o, d, p) = B
    <2>1. \A q \in BlockPeriods(problem, entries, r, d, p) :
              BlockPeriods(problem, entries, o, d, q) = BlockPeriods(problem, entries, r, d, p)
      BY <1>1, <1>3, BranchFacts
    <2> QED BY <1>1, <1>4, <2>1
  <1> QED BY <1>1, <1>5

\* What is exchanged is there, and what it is exchanged for is not.
LEMMA ExchangedLessons ==
    ASSUME Edited, NEW f, NEW r, NEW d, NEW B, NEW o, NEW c, NEW W, Exchange(f, r, d, B, o, c, W)
    PROVE  /\ Lay(r, d, B) \subseteq entries
           /\ Lay(r, c, W) \cap entries \subseteq Lay(o, c, W)
  <1>1. /\ r \in problem.req /\ o \in problem.req /\ problem.classes[o] = problem.classes[r]
        /\ c \in problem.day /\ W \in SUBSET Periods(problem)
        /\ \A q \in B : <<r, d, q>> \in entries
        /\ \A q \in W : <<o, c, q>> \in entries
    BY DEF Exchange
  <1>2. Triples(entries)
    BY DEF Edited, EditingInv, SolvingInv
  <1>3. ASSUME NEW x \in Lay(r, d, B)
        PROVE  x \in entries
    <2>1. x = <<x[1], d, x[3]>> /\ x[1] \in Branches(problem, r) /\ x[3] \in B
      BY AtMember DEF Lay
    <2>2. x[3] \in PeriodsOn(entries, r, d)
      BY <1>1, <1>2, <2>1, PeriodsOnMembers
    <2>3. x[3] \in PeriodsOn(entries, x[1], d)
      BY <1>1, <2>1, <2>2, BranchFacts
    <2>4. <<x[1], d, x[3]>> \in entries
      BY <1>2, <2>3, PeriodsOnMembers
    <2> QED BY <2>1, <2>4
  <1>4. ASSUME NEW x \in Lay(r, c, W), x \in entries
        PROVE  x \in Lay(o, c, W)
    <2>1. x[1] \in Branches(problem, r) /\ x[2] = c /\ x[3] \in W
      BY AtMember DEF Lay
    <2>2. problem.classes[x[1]] = problem.classes[o] /\ problem.classes[x[1]] # {}
      BY <1>1, <2>1, BranchFacts
    <2>3. problem.classes[x[1]] \cap problem.classes[o] # {}
      BY <2>2
    <2> QED BY <1>1, <1>4, <2>1, <2>3, TakenBySplit
  <1> QED BY <1>3, <1>4


LEMMA ExchangedGrid ==
    ASSUME Edited, NEW f, NEW r, NEW d, NEW B, NEW o, NEW c, NEW W, Exchange(f, r, d, B, o, c, W)
    PROVE  f \subseteq Lessons(problem) \cup ReservedEntries(problem) /\ Triples(f)
  <1>1. entries \subseteq Lessons(problem) \cup ReservedEntries(problem)
    BY DEF Edited, EditingInv
  <1>2. ASSUME NEW s \in problem.req, NEW b \in problem.day, NEW V \in SUBSET Periods(problem), NEW x \in Lay(s, b, V)
        PROVE  x \in Lessons(problem)
    <2>1. x = <<x[1], b, x[3]>> /\ x[1] \in Branches(problem, s) /\ x[3] \in V
      BY AtMember DEF Lay
    <2>2. x[1] \in problem.req
      BY <2>1 DEF Branches
    <2> QED BY <2>1, <2>2 DEF Lessons
  <1>3. /\ r \in problem.req /\ o \in problem.req /\ d \in problem.day /\ c \in problem.day
        /\ B \in SUBSET Periods(problem) /\ W \in SUBSET Periods(problem)
        /\ f = (entries \ (Lay(r, d, B) \cup Lay(o, c, W))) \cup (Lay(r, c, W) \cup Lay(o, d, B))
    BY DEF Exchange
  <1>4. Lay(r, c, W) \subseteq Lessons(problem) /\ Lay(o, d, B) \subseteq Lessons(problem)
    BY <1>2, <1>3
  <1>5. f \subseteq Lessons(problem) \cup ReservedEntries(problem)
    BY <1>1, <1>3, <1>4
  <1> QED BY <1>5, GridIsStorable

LEMMA ExchangedPeriods ==
    ASSUME Edited, NEW f, NEW r, NEW d, NEW B, NEW o, NEW c, NEW W, Exchange(f, r, d, B, o, c, W),
           NEW x, NEW e, NEW p
    PROVE  p \in PeriodsOn(f, x, e) <=>
               \/ /\ p \in PeriodsOn(entries, x, e)
                  /\ ~(x \in Branches(problem, r) /\ e = d /\ p \in B)
                  /\ ~(x \in Branches(problem, o) /\ e = c /\ p \in W)
               \/ x \in Branches(problem, r) /\ e = c /\ p \in W
               \/ x \in Branches(problem, o) /\ e = d /\ p \in B
  <1> DEFINE y == <<x, e, p>>
  <1>1. Triples(f) /\ Triples(entries)
    BY ExchangedGrid DEF Edited, EditingInv, SolvingInv
  <1>2. (p \in PeriodsOn(f, x, e) <=> y \in f) /\ (p \in PeriodsOn(entries, x, e) <=> y \in entries)
    BY <1>1, PeriodsOnMembers
  <1>3. f = (entries \ (Lay(r, d, B) \cup Lay(o, c, W))) \cup (Lay(r, c, W) \cup Lay(o, d, B))
    BY DEF Exchange
  <1>4. /\ y \in Lay(r, d, B) <=> x \in Branches(problem, r) /\ e = d /\ p \in B
        /\ y \in Lay(o, c, W) <=> x \in Branches(problem, o) /\ e = c /\ p \in W
        /\ y \in Lay(r, c, W) <=> x \in Branches(problem, r) /\ e = c /\ p \in W
        /\ y \in Lay(o, d, B) <=> x \in Branches(problem, o) /\ e = d /\ p \in B
    BY AtMember DEF Lay
  <1> HIDE DEF y
  <1>5. y \in f <=> \/ y \in entries /\ y \notin Lay(r, d, B) /\ y \notin Lay(o, c, W)
                    \/ y \in Lay(r, c, W) \/ y \in Lay(o, d, B)
    BY <1>3
  <1> QED BY <1>2, <1>4, <1>5

\* The block of a requirement that has come to a day is all it has there.
LEMMA ExchangedBlock ==
    ASSUME Edited, NEW f, NEW r, NEW d, NEW B, NEW o, NEW c, NEW W, Exchange(f, r, d, B, o, c, W),
           NotDoubled(r, o), NEW p \in W
    PROVE  BlockPeriods(problem, f, r, c, p) = W
  <1> DEFINE R == Branches(problem, r)
             O == Branches(problem, o)
             E(b) == PeriodsOn(entries, r, b)
             F(b) == PeriodsOn(f, r, b)
  <1>1. /\ r \in problem.req /\ o \in problem.req /\ problem.classes[o] = problem.classes[r] /\ r \in R
        /\ d \in problem.day /\ c \in problem.day /\ W \in SUBSET Periods(problem)
        /\ B # {} /\ W # {} /\ Cardinality(W) = Cardinality(B) /\ RequiredBlocksKept(problem, f)
        /\ \A q \in B : BlockPeriods(problem, entries, r, d, q) = B
        /\ \A q \in W : <<o, c, q>> \in entries /\ BlockPeriods(problem, entries, o, c, q) = W
        /\ (d = c) => B # W
    BY DEF Exchange, Branches
  <1>2. PICK q \in B : TRUE
    BY <1>1
  <1>3. CASE ~WholeDay(problem, r)
    <2>1. B = {q} /\ BlockPeriods(problem, f, r, c, p) = {p}
      BY <1>1, <1>2, <1>3 DEF BlockPeriods
    <2>2. Cardinality(W) = 1 /\ IsFiniteSet(W)
      <3>1. Cardinality(B) = 1
        BY <2>1, FS_Singleton
      <3>2. IsFiniteSet(Periods(problem))
        BY ProblemAssumption DEF Edited, EditingInv, SolvingInv
      <3> QED BY <1>1, <3>1, <3>2, FS_Subset
    <2>3. PICK u : W = {u}
      BY <2>2, FS_Singleton
    <2> QED BY <2>1, <2>3
  <1>4. CASE WholeDay(problem, r)
    <2>1. problem.mode[r] = "REQUIRED"
      BY <1>1, <1>4 DEF WholeDay, NotDoubled
    <2>2. E(d) = B
      BY <1>1, <1>2, <1>4 DEF BlockPeriods
    <2>3. r \in O => E(c) = W
      <3> SUFFICES ASSUME r \in O PROVE E(c) = W
        OBVIOUS
      <3>1. BlockPeriods(problem, entries, o, c, p) = W /\ p \in BlockPeriods(problem, entries, o, c, p)
        BY <1>1
      <3>2. BlockPeriods(problem, entries, r, c, p) = W
        BY <1>1, <3>1, BranchFacts
      <3> QED BY <1>4, <3>2 DEF BlockPeriods
    <2>4. ASSUME NEW b, NEW n
          PROVE  n \in F(b) <=> \/ n \in E(b) /\ ~(r \in R /\ b = d /\ n \in B) /\ ~(r \in O /\ b = c /\ n \in W)
                                \/ r \in R /\ b = c /\ n \in W
                                \/ r \in O /\ b = d /\ n \in B
      BY ExchangedPeriods
    <2> HIDE DEF R, O, E, F
    <2>5. CASE r \in O
      <3>1. d # c
        BY <1>1, <2>2, <2>3, <2>5
      <3>2. F(c) = W
        BY <1>1, <2>3, <2>4, <2>5, <3>1
      <3> QED BY <1>4, <3>2 DEF BlockPeriods, F
    <2>6. CASE r \notin O /\ d = c
      <3>1. r \in R /\ \A n : n \in E(c) => n \in B
        BY <1>1, <2>2, <2>6
      <3>2. ASSUME NEW n PROVE n \in F(c) <=> n \in W
        BY <2>4, <2>6, <3>1
      <3>3. F(c) = W
        BY <3>2
      <3> QED BY <1>4, <3>3 DEF BlockPeriods, F
    <2>7. CASE r \notin O /\ d # c
      <3>1. F(d) = {}
        BY <2>2, <2>4, <2>7, <1>1
      <3>2. F(c) = E(c) \cup W
        BY <1>1, <2>4, <2>7
      <3>3. \A b \in problem.day \ {d, c} : F(b) = E(b)
        BY <1>1, <2>4, <2>7
      <3>4. E(c) = {}
        <4>1. SolvingInv /\ Verified(problem, entries)
          BY DEF Edited, EditingInv
        <4> SUFFICES ASSUME E(c) # {} PROVE FALSE
          OBVIOUS
        <4>2. E(d) # {} /\ Cardinality(W) = Cardinality(E(d))
          BY <1>1, <2>2
        <4> QED BY <1>1, <2>1, <2>7, <3>1, <3>2, <3>3, <4>1, <4>2, DaysNotJoined DEF E, F, O
      <3>5. F(c) = W
        BY <3>2, <3>4
      <3> QED BY <1>4, <3>5 DEF BlockPeriods, F
    <2> QED BY <2>5, <2>6, <2>7
  <1> QED BY <1>3, <1>4

\* A requirement that has come to a day is an occurrence there, free to go back.
LEMMA ExchangedOccurrence ==
    ASSUME Edited, NEW f, NEW r, NEW d, NEW B, NEW o, NEW c, NEW W, Exchange(f, r, d, B, o, c, W),
           NotDoubled(r, o), NEW p \in W
    PROVE  /\ IsOccurrence(problem, f, r, c, p) /\ Free(f, r, c, p)
           /\ Occurrence(problem, f, r, c, p) = Lay(r, c, W)
  <1>1. /\ r \in problem.req /\ o \in problem.req /\ c \in problem.day
        /\ W \in SUBSET Periods(problem) /\ RequiredBlocksKept(problem, f)
        /\ \A q \in W : Free(entries, o, c, q) /\ BlockPeriods(problem, entries, o, c, q) = W
    BY DEF Exchange
  <1>2. \A s \in Branches(problem, r) : ~PrefersDouble(problem, s)
    BY DEF NotDoubled
  <1>3. BlockPeriods(problem, f, r, c, p) = W
    BY ExchangedBlock
  <1>4. \A s \in Branches(problem, r) : W \subseteq PeriodsOn(f, s, c)
    BY ExchangedPeriods
  <1>5. r \in Branches(problem, r)
    BY <1>1 DEF Branches
  <1>6. PeriodsOn(f, r, c) \subseteq Periods(problem)
    <2> SUFFICES ASSUME NEW q \in PeriodsOn(f, r, c) PROVE q \in Periods(problem)
      OBVIOUS
    <2> DEFINE x == <<r, c, q>>
    <2>1. x \in f /\ x[3] = q
      BY ExchangedGrid, PeriodsOnMembers
    <2> HIDE DEF x
    <2>2. x \in Lessons(problem) \cup ReservedEntries(problem)
      BY <2>1, ExchangedGrid
    <2> QED BY <2>1, <2>2 DEF Lessons, ReservedEntries
  <1>7. IsOccurrence(problem, f, r, c, p)
    <2>1. WholeDay(problem, r) => IsRun(problem, PeriodsOn(f, r, c))
      BY <1>2, <1>1, <1>5 DEF WholeDay, RequiredBlocksKept
    <2> QED BY <1>2, <1>1, <1>3, <1>4, <1>5, <1>6, <2>1 DEF IsOccurrence
  <1>8. Occurrence(problem, f, r, c, p) = Lay(r, c, W)
    BY <1>3 DEF Occurrence, Lay, At
  <1>9. \A q \in W : Occurrence(problem, entries, o, c, q) = Lay(o, c, W)
    BY <1>1 DEF Occurrence, Lay, At
  <1>10. ASSUME NEW x \in Occurrence(problem, f, r, c, p), x \in problem.fixed
        PROVE  FALSE
    <2>1. x \in entries
      BY <1>10 DEF Edited, Verified, FixedPlacementsRespected
    <2>2. x \in Lay(o, c, W)
      BY <1>8, <1>10, <2>1, ExchangedLessons
    <2> QED BY <1>1, <1>9, <1>10, <2>2 DEF Free
  <1>11. ASSUME NEW k \in OccurrenceKeys(problem, f, r, c, p), k \in locked
         PROVE  FALSE
    <2>1. k = <<k[1], k[2], k[3]>> /\ k[1] \in Branches(problem, r) /\ k[2] = c /\ k[3] = Min(W)
      BY <1>3 DEF OccurrenceKeys
    <2>2. Min(W) \in W
      <3>1. W \in SUBSET Nat
        BY <1>1, ProblemAssumption DEF Edited, EditingInv, SolvingInv
      <3> QED BY <3>1, Smallest
    <2>3. IsFindable(problem, entries, locked, k)
      BY <1>2, <1>11, <2>1 DEF Edited, EditingInv
    <2>4. k \in entries
      <3>1. SolvingInv /\ SplitsSynchronized(problem, entries)
        BY DEF Edited, EditingInv, Verified
      <3> QED BY <2>3, <3>1, FindableNames DEF Names
    <2>5. k \in Lay(r, c, W)
      BY <2>1, <2>2, AtMember DEF Lay
    <2>6. k \in Lay(o, c, W)
      BY <2>4, <2>5, ExchangedLessons
    <2>7. k[1] \in Branches(problem, o)
      BY <2>6, AtMember DEF Lay
    <2>8. k \in OccurrenceKeys(problem, entries, o, c, p)
      BY <1>1, <2>1, <2>7 DEF OccurrenceKeys
    <2> QED BY <1>1, <1>11, <2>8 DEF Free
  <1>12. Free(f, r, c, p)
    BY <1>10, <1>11 DEF Free
  <1> QED BY <1>7, <1>8, <1>12

\* Back in their places the lessons break no rule.
LEMMA OldPlacesAccepted ==
    ASSUME Edited, NEW lessons, lessons \subseteq entries, \A x \in lessons : x[1] \in problem.req
    PROVE  SlotsAccept(entries \ lessons, lessons)
  <1> DEFINE rest == entries \ lessons
  <1>1. /\ TeachersNotDoubleBooked(problem, entries) /\ GroupsNotDoubleBooked(problem, entries)
        /\ TeachersAvailable(problem, entries) /\ ResourceCapacityKept(problem, entries)
        /\ problem \in Problems /\ Triples(entries) /\ Storable(problem, entries)
    BY DEF Edited, EditingInv, SolvingInv, Verified
  <1> SUFFICES ASSUME NEW x \in lessons
               PROVE  /\ <<problem.teacher[x[1]], x[2], x[3]>> \notin problem.unavailable
                      /\ \A y \in rest : SameSlot(x, y) =>
                            problem.teacher[y[1]] # problem.teacher[x[1]] /\ problem.group[y[1]] # problem.group[x[1]]
                      /\ problem.resource[x[1]] # None =>
                            1 + ResourceUse(problem, rest, problem.resource[x[1]], x[2], x[3])
                                <= problem.capacity[problem.resource[x[1]]]
    BY DEF SlotsAccept
  <1>2. <<problem.teacher[x[1]], x[2], x[3]>> \notin problem.unavailable
    BY <1>1 DEF TeachersAvailable
  <1>3. ASSUME NEW y \in rest, SameSlot(x, y)
        PROVE  problem.teacher[y[1]] # problem.teacher[x[1]] /\ problem.group[y[1]] # problem.group[x[1]]
    <2>1. x \in entries /\ y \in entries /\ x # y
      OBVIOUS
    <2>2. problem.teacher[x[1]] # None /\ problem.group[x[1]] # None
      BY <1>1, ProblemAssumption
    <2> QED BY <1>1, <1>3, <2>1, <2>2 DEF TeachersNotDoubleBooked, GroupsNotDoubleBooked
  <1>4. ASSUME problem.resource[x[1]] # None
        PROVE  1 + ResourceUse(problem, rest, problem.resource[x[1]], x[2], x[3])
                   <= problem.capacity[problem.resource[x[1]]]
    <2> DEFINE res == problem.resource[x[1]]
               Using(e) == {y \in e : problem.resource[y[1]] = res /\ y[2] = x[2] /\ y[3] = x[3]}
               A == problem.req \cup problem.reserved
               entry == [a \in A |-> <<a, x[2], x[3]>>]
               all == {entry[a] : a \in A}
    <2>1. IsFiniteSet(all)
      <3>1. IsFiniteSet(A)
        BY <1>1, ProblemAssumption, FS_Union
      <3>2. entry \in Surjection(A, all)
        BY DEF Surjection
      <3> HIDE DEF A, entry, all
      <3> QED BY <3>1, <3>2, FS_Surjection
    <2>2. Using(entries) \in SUBSET all
      <3> SUFFICES ASSUME NEW y \in entries, y[2] = x[2], y[3] = x[3] PROVE y \in all
        OBVIOUS
      <3>1. y = <<y[1], x[2], x[3]>> /\ y[1] \in A
        BY <1>1 DEF Triples, Storable
      <3> QED BY <3>1
    <2> HIDE DEF all
    <2>3. x \in Using(entries) /\ x \notin Using(rest) /\ Using(rest) \in SUBSET Using(entries)
      OBVIOUS
    <2>4. /\ ResourceUse(problem, rest, res, x[2], x[3]) = Cardinality(Using(rest))
          /\ ResourceUse(problem, entries, res, x[2], x[3]) = Cardinality(Using(entries))
      BY DEF ResourceUse
    <2> DEFINE U == Using(entries)
               V == Using(rest)
    <2> HIDE DEF Using, U, V
    <2>5. IsFiniteSet(U) /\ x \in U /\ V \in SUBSET (U \ {x})
      BY <2>1, <2>2, <2>3, FS_Subset DEF U, V
    <2>6. IsFiniteSet(U \ {x}) /\ Cardinality(U \ {x}) = Cardinality(U) - 1
      BY <2>5, FS_RemoveElement
    <2>7. IsFiniteSet(V) /\ Cardinality(V) <= Cardinality(U) - 1
      BY <2>5, <2>6, FS_Subset
    <2>8. Cardinality(V) \in Nat /\ Cardinality(U) \in Nat
      BY <2>5, <2>7, FS_CardinalityType
    <2>9. Cardinality(U) <= problem.capacity[res]
      <3>1. x \in entries
        OBVIOUS
      <3> QED BY <1>1, <1>4, <2>4, <3>1 DEF ResourceCapacityKept, U
    <2>10. problem.capacity[res] \in Nat
      BY <1>1, <1>4, ProblemAssumption
    <2> DEFINE v == Cardinality(V)
               u == Cardinality(U)
               capacity == problem.capacity[res]
    <2>11. v \in Nat /\ u \in Nat /\ capacity \in Nat /\ v <= u - 1 /\ u <= capacity
      BY <2>7, <2>8, <2>9, <2>10
    <2> HIDE DEF v, u, capacity
    <2>12. 1 + v <= capacity
      BY <2>11
    <2> QED BY <2>4, <2>12 DEF v, V, capacity
  <1> QED BY <1>2, <1>3, <1>4

LEMMA OccurrenceIsRun ==
    ASSUME NEW pr \in Problems, NEW e, NEW r, NEW d, NEW p, IsOccurrence(pr, e, r, d, p)
    PROVE  IsRun(pr, BlockPeriods(pr, e, r, d, p))
  <1>1. CASE WholeDay(pr, r)
    BY <1>1 DEF IsOccurrence, BlockPeriods
  <1>2. CASE ~WholeDay(pr, r)
    <2>1. BlockPeriods(pr, e, r, d, p) = {p} /\ p \in Periods(pr) /\ p \in Nat
      BY <1>2, ProblemAssumption DEF IsOccurrence, BlockPeriods
    <2>2. p .. p = {p}
      BY <2>1
    <2> QED BY <2>1, <2>2 DEF IsRun
  <1> QED BY <1>1, <1>2

\* Only the occurrence that came is where a requirement wants to go back to.
LEMMA OccupantsBack ==
    ASSUME Edited, NEW f, NEW r, NEW d, NEW B, NEW o, NEW c, NEW W, Exchange(f, r, d, B, o, c, W),
           Branches(problem, o) = {o}
    PROVE  Occupants(f, r, d, B) = {o}
  <1>1. /\ r \in problem.req /\ o \in problem.req /\ problem.classes[o] = problem.classes[r]
        /\ d \in problem.day /\ B \in SUBSET Periods(problem) /\ B # {}
        /\ \A q \in B : <<r, d, q>> \in entries
        /\ f = (entries \ (Lay(r, d, B) \cup Lay(o, c, W))) \cup (Lay(r, c, W) \cup Lay(o, d, B))
    BY DEF Exchange
  <1>2. problem.classes[o] # {}
    BY <1>1, BranchFacts DEF Branches
  <1>3. ASSUME NEW x \in f, x[2] = d, x[3] \in B, problem.classes[x[1]] \cap problem.classes[r] # {}
        PROVE  x[1] = o
    <2>1. CASE x \in Lay(o, d, B)
      BY <2>1, AtMember DEF Lay
    <2>2. CASE x \in Lay(r, c, W)
      <3>1. c = d /\ x[3] \in W
        BY <1>3, <2>2, AtMember DEF Lay
      <3> QED BY <1>3, <3>1, ExchangedApart
    <2>3. CASE x \in entries /\ x \notin Lay(r, d, B)
      BY <1>1, <1>3, <2>3, TakenBySplit
    <2> QED BY <1>1, <2>1, <2>2, <2>3
  <1>4. PICK q \in B : TRUE
    BY <1>1
  <1>5. <<o, d, q>> \in f
    <2>1. <<o, d, q>> \in Lay(o, d, B)
      BY <1>4, AtMember DEF Lay
    <2> QED BY <1>1, <2>1
  <1>6. o \in Occupants(f, r, d, B)
    <2> DEFINE x == <<o, d, q>>
    <2>1. x \in f /\ x[1] = o /\ x[2] = d /\ x[3] \in B
      BY <1>5
    <2> HIDE DEF x
    <2>2. problem.classes[x[1]] \cap problem.classes[r] # {}
      BY <1>1, <1>2, <2>1
    <2> QED BY <2>1, <2>2 DEF Occupants
  <1> QED BY <1>3, <1>6 DEF Occupants

\* An exchange can be taken back.
LEMMA ExchangeBack ==
    ASSUME Edited, NEW f, NEW r, NEW d, NEW B, NEW o, NEW c, NEW W, Exchange(f, r, d, B, o, c, W),
           NotDoubled(r, o), Branches(problem, o) = {o},
           NEW m, NEW w \in W, m.lesson = <<r, c, w>>, m.day = d, m.period = Min(B)
    PROVE  /\ MoveAllowed(f, m)
           /\ Applied(f, MovePlan(f, m)) = entries
           /\ MovePlan(f, m).added = Lay(r, d, B) \cup Lay(o, c, W)
  <1> DEFINE low == Min(B)
             high == Min(W)
             n == Cardinality(B)
             plan == MovePlan(f, m)
  <1>1. /\ r \in problem.req /\ o \in problem.req /\ problem.classes[o] = problem.classes[r]
        /\ B # {} /\ Cardinality(W) = Cardinality(B) /\ (c = d => B # W)
        /\ f = (entries \ (Lay(r, d, B) \cup Lay(o, c, W))) \cup (Lay(r, c, W) \cup Lay(o, d, B))
    BY DEF Exchange
  <1>2. problem \in Problems /\ Verified(problem, entries)
    BY DEF Edited, EditingInv, SolvingInv
  <1>3. Exchange(f, o, c, W, r, d, B) /\ NotDoubled(o, r)
    BY ExchangeSymmetric DEF NotDoubled
  <1>4. /\ IsOccurrence(problem, f, r, c, w) /\ Free(f, r, c, w)
        /\ Occurrence(problem, f, r, c, w) = Lay(r, c, W) /\ BlockPeriods(problem, f, r, c, w) = W
    BY ExchangedOccurrence, ExchangedBlock
  <1>5. \A q \in B : /\ IsOccurrence(problem, f, o, d, q) /\ Free(f, o, d, q)
                     /\ Occurrence(problem, f, o, d, q) = Lay(o, d, B) /\ BlockPeriods(problem, f, o, d, q) = B
    BY <1>3, ExchangedOccurrence, ExchangedBlock
  <1>6. PICK q \in B : TRUE
    BY <1>1
  <1>7. high \in Nat /\ n \in Nat \ {0} /\ W = high .. high + n - 1
    BY <1>1, <1>2, <1>4, BlockIsInterval
  <1>8. low \in Nat /\ low \in B /\ B = low .. low + n - 1 /\ IsRun(problem, B)
    <2>1. IsOccurrence(problem, f, o, d, q) /\ BlockPeriods(problem, f, o, d, q) = B
      BY <1>5, <1>6
    <2> QED BY <1>2, <2>1, BlockIsInterval, OccurrenceIsRun
  <1>9. m.lesson[1] = r /\ m.lesson[2] = c /\ m.lesson[3] = w /\ m.day = d /\ m.period = low
    OBVIOUS
  <1>10. TargetWindow(f, m) = B
    BY <1>1, <1>4, <1>8, <1>9 DEF TargetWindow, WindowStartingAt
  <1>11. ~StaysPut(f, m)
    BY <1>1, <1>4, <1>9, <1>10 DEF StaysPut
  <1>12. Occupants(f, r, d, B) = {o}
    BY OccupantsBack
  <1>13. Occupant(f, m) = o
    BY <1>9, <1>10, <1>12 DEF Occupant
  <1>14. /\ plan.removed = Lay(r, c, W) \cup Lay(o, d, B)
         /\ plan.added = Shifted(Lay(r, c, W), d, low - high) \cup Shifted(Lay(o, d, B), c, -(low - high))
    <2>1. Occurrence(problem, f, o, d, low) = Lay(o, d, B)
      BY <1>5, <1>8
    <2> QED BY <1>4, <1>9, <1>11, <1>13, <2>1 DEF MovePlan, SwapPlan
  <1> DEFINE k == low - high
             j == -(low - high)
  <1> HIDE DEF low, high, n, plan
  <1>15. Shifted(Lay(r, c, W), d, k) = Lay(r, d, B)
    <2>1. k \in Int /\ W \in SUBSET Int /\ B \in SUBSET Int
      BY <1>7, <1>8
    <2>2. \A p \in W : p + k \in B
      BY <1>7, <1>8
    <2>3. \A p \in B : p - k \in W
      BY <1>7, <1>8
    <2> HIDE DEF k
    <2> QED BY <2>1, <2>2, <2>3, BlockShifted DEF Lay
  <1>16. Shifted(Lay(o, d, B), c, j) = Lay(o, c, W)
    <2>1. j \in Int /\ W \in SUBSET Int /\ B \in SUBSET Int
      BY <1>7, <1>8
    <2>2. \A p \in B : p + j \in W
      BY <1>7, <1>8
    <2>3. \A p \in W : p - j \in B
      BY <1>7, <1>8
    <2> HIDE DEF j
    <2> QED BY <2>1, <2>2, <2>3, BlockShifted DEF Lay
  <1>17. plan.added = Lay(r, d, B) \cup Lay(o, c, W)
    BY <1>14, <1>15, <1>16
  <1>18. /\ Lay(r, d, B) \subseteq entries /\ Lay(o, c, W) \subseteq entries
         /\ Lay(r, c, W) \cap entries \subseteq Lay(o, c, W)
         /\ Lay(o, d, B) \cap entries \subseteq Lay(r, d, B)
    BY <1>3, ExchangedLessons
  <1>19. Applied(f, plan) = entries /\ f \ plan.removed = entries \ plan.added
    <2> DEFINE gone == Lay(r, d, B) \cup Lay(o, c, W)
               come == Lay(r, c, W) \cup Lay(o, d, B)
    <2>1. gone \subseteq entries /\ come \cap entries \subseteq gone
      BY <1>18
    <2>2. f = (entries \ gone) \cup come /\ plan.removed = come /\ plan.added = gone
      BY <1>1, <1>14, <1>17
    <2> HIDE DEF gone, come
    <2> QED BY <2>1, <2>2 DEF Applied
  <1>20. SwapAccepted(f, plan)
    <2>1. \A x \in plan.added : x[1] \in problem.req
      BY <1>17, AtMember DEF Lay, Branches
    <2>2. SlotsAccept(entries \ plan.added, plan.added)
      BY <1>17, <1>18, <2>1, OldPlacesAccepted
    <2>3. RequiredBlocksKept(problem, entries) /\ \A a \in problem.req : DailyCapKept(problem, entries, a)
      BY <1>2 DEF Verified
    <2> QED BY <1>19, <2>1, <2>2, <2>3 DEF SwapAccepted
  <1>21. CanExchange(f, m)
    <2>1. IsOccurrence(problem, f, o, d, low) /\ BlockPeriods(problem, f, o, d, low) = B /\ Free(f, o, d, low)
      BY <1>5, <1>8
    <2>2. Occupants(f, m.lesson[1], m.day, TargetWindow(f, m)) = {o}
      BY <1>9, <1>10, <1>12
    <2>3. Cardinality({o}) = 1 /\ {o} \subseteq problem.req
      BY <1>1, FS_Singleton
    <2>4. SwapAccepted(f, MovePlan(f, m))
      BY <1>20 DEF plan
    <2> QED BY <1>1, <1>9, <1>10, <1>13, <2>1, <2>2, <2>3, <2>4 DEF CanExchange
  <1>22. MoveAllowed(f, m)
    BY <1>4, <1>8, <1>9, <1>10, <1>21 DEF MoveAllowed
  <1> QED BY <1>17, <1>19, <1>22 DEF plan

\* An allowed move makes an exchange, with an occupant that is in no split.
LEMMA MoveExchanges ==
    ASSUME Edited, NEW m, MoveAllowed(entries, m), ~StaysPut(entries, m)
    PROVE  LET o == Occupant(entries, m)
               B == BlockPeriods(problem, entries, m.lesson[1], m.lesson[2], m.lesson[3])
               W == TargetWindow(entries, m)
           IN  /\ Exchange(Applied(entries, MovePlan(entries, m)), m.lesson[1], m.lesson[2], B, o, m.day, W)
               /\ MovePlan(entries, m).removed = Lay(m.lesson[1], m.lesson[2], B) \cup Lay(o, m.day, W)
               /\ Branches(problem, o) = {o}
               /\ m.period \in W
  <1> DEFINE r == m.lesson[1]
             d == m.lesson[2]
             c == m.day
             o == Occupant(entries, m)
             B == BlockPeriods(problem, entries, r, d, m.lesson[3])
             W == TargetWindow(entries, m)
             plan == MovePlan(entries, m)
             f == Applied(entries, plan)
  <1>1. SolvingInv /\ problem \in Problems /\ Triples(entries) /\ Storable(problem, entries)
    BY DEF Edited, EditingInv, SolvingInv
  <1>2. /\ IsOccurrence(problem, entries, r, d, m.lesson[3]) /\ Free(entries, r, d, m.lesson[3])
        /\ IsOccurrence(problem, entries, o, c, m.period) /\ Free(entries, o, c, m.period)
        /\ BlockPeriods(problem, entries, o, c, m.period) = W
        /\ problem.classes[o] = problem.classes[r] /\ SwapAccepted(entries, plan)
        /\ B \subseteq Periods(problem) /\ W \subseteq Periods(problem) /\ Cardinality(W) = Cardinality(B)
        /\ plan.removed = Lay(r, d, B) \cup Lay(o, c, W)
        /\ plan.added = Lay(r, c, W) \cup Lay(o, d, B)
    BY <1>1, ExchangePlaces DEF Lay, At
  <1>3. r \in problem.req /\ o \in problem.req /\ m.lesson[3] \in B /\ m.period \in W
        /\ B \subseteq PeriodsOn(entries, r, d) /\ W \subseteq PeriodsOn(entries, o, c)
    <2>1. r \in problem.req /\ o \in problem.req
      BY <1>2 DEF IsOccurrence
    <2>2. m.lesson[3] \in B /\ B \subseteq PeriodsOn(entries, r, d)
      BY <1>2, BlockOnTheDay
    <2>3. m.period \in W /\ W \subseteq PeriodsOn(entries, o, c)
      BY <1>2, BlockOnTheDay
    <2> QED BY <2>1, <2>2, <2>3
  <1>4. (\A p \in B : <<r, d, p>> \in entries) /\ (\A p \in W : <<o, c, p>> \in entries)
    BY <1>1, <1>3, PeriodsOnMembers
  <1>5. d \in problem.day /\ c \in problem.day
    <2>1. <<r, d, m.lesson[3]>> \in entries /\ <<o, c, m.period>> \in entries
      BY <1>3, <1>4
    <2> QED BY <1>1, <2>1 DEF Storable, Slots
  <1>6. ASSUME NEW s \in problem.req, NEW b, NEW t, NEW q \in BlockPeriods(problem, entries, s, b, t),
               Free(entries, s, b, t)
        PROVE  /\ BlockPeriods(problem, entries, s, b, q) = BlockPeriods(problem, entries, s, b, t)
               /\ Free(entries, s, b, q)
    <2>1. BlockPeriods(problem, entries, s, b, q) = BlockPeriods(problem, entries, s, b, t)
      BY BranchFacts DEF Branches
    <2> QED BY <1>6, <2>1 DEF Free, Occurrence, OccurrenceKeys
  <1>7. ~(d = c /\ B = W)
    BY DEF StaysPut
  <1>8. ASSUME NEW s \in Branches(problem, r) \cup Branches(problem, o)
        PROVE  DailyCapKept(problem, f, s)
    <2>1. \A x \in plan.added : DailyCapKept(problem, f, x[1])
      BY <1>2 DEF SwapAccepted
    <2>2. <<s, c, m.period>> \in plan.added \/ <<s, d, m.lesson[3]>> \in plan.added
      BY <1>2, <1>3, AtMember DEF Lay
    <2> HIDE DEF r, d, c, o, B, W, plan, f
    <2> QED BY <2>1, <2>2
  <1>9. Exchange(f, r, d, B, o, c, W)
    <2>1. f = (entries \ (Lay(r, d, B) \cup Lay(o, c, W))) \cup (Lay(r, c, W) \cup Lay(o, d, B))
      BY <1>2 DEF Applied
    <2>2. RequiredBlocksKept(problem, f) /\ SlotsAccept(entries \ plan.removed, plan.added)
      BY <1>2 DEF SwapAccepted
    <2>3. \A p \in B : BlockPeriods(problem, entries, r, d, p) = B /\ Free(entries, r, d, p)
      BY <1>2, <1>3, <1>6
    <2>4. \A p \in W : BlockPeriods(problem, entries, o, c, p) = W /\ Free(entries, o, c, p)
      BY <1>2, <1>3, <1>6
    <2> HIDE DEF r, d, c, o, B, W, plan, f
    <2> QED BY <1>2, <1>3, <1>4, <1>5, <1>7, <1>8, <2>1, <2>2, <2>3, <2>4 DEF Exchange
  <1>10. Branches(problem, o) = {o}
    <2> DEFINE there == Occupants(entries, r, c, W)
               A == problem.req \cup problem.reserved
    <2>1. Cardinality(there) = 1
      BY DEF MoveAllowed, CanExchange
    <2>2. there \in SUBSET A
      BY <1>1 DEF Occupants, Storable
    <2>3. IsFiniteSet(A)
      BY <1>1, ProblemAssumption, FS_Union
    <2>4. PICK u : there = {u}
      <3> HIDE DEF there, A
      <3> QED BY <2>1, <2>2, <2>3, FS_Subset, FS_Singleton
    <2>5. ASSUME NEW s \in Branches(problem, o)
          PROVE  s \in there
      <3> DEFINE x == <<s, c, m.period>>
      <3>1. x \in entries
        <4>1. m.period \in PeriodsOn(entries, s, c)
          BY <1>3, BranchFacts
        <4> QED BY <1>1, <4>1, PeriodsOnMembers
      <3>2. problem.classes[s] = problem.classes[r] /\ problem.classes[s] # {}
        BY <1>2, <1>3, BranchFacts
      <3>3. x \in entries /\ x[1] = s /\ x[2] = c /\ x[3] \in W
        BY <1>3, <3>1
      <3> HIDE DEF x, W, c, r
      <3> QED BY <3>2, <3>3 DEF Occupants
    <2>6. o \in Branches(problem, o)
      BY <1>3 DEF Branches
    <2> HIDE DEF there
    <2> QED BY <2>4, <2>5, <2>6
  <1> QED BY <1>2, <1>3, <1>9, <1>10

LEMMA GenerateEdited == ASSUME Generate PROVE EditingInv
  <1>1. SolvingInv
    BY GenerateInv
  <1>2. problem \in Problems /\ locked = {} /\ reviewed = NoMove /\ earlier = NoProblem
    BY DEF Generate
  <1>3. problem \notin Solved =>
            Timetables[problem] # {} /\ entries \subseteq Lessons(problem) \cup ReservedEntries(problem)
    <2> SUFFICES ASSUME problem \notin Solved
                 PROVE  Timetables[problem] # {} /\ entries \subseteq Lessons(problem) \cup ReservedEntries(problem)
      OBVIOUS
    <2>1. PICK result \in GivenResults(problem) : entries = result.entries
      BY DEF Generate
    <2>2. entries \in Timetables[problem]
      BY <2>1 DEF GivenResults
    <2> QED BY <1>2, <2>2, GeneratedAssumption
  <1> QED BY <1>1, <1>2, <1>3 DEF EditingInv

\* A move puts lessons on the grid.
LEMMA ExchangeOnGrid ==
    ASSUME SolvingInv, entries \subseteq Lessons(problem) \cup ReservedEntries(problem),
           NEW m, MoveAllowed(entries, m)
    PROVE  Applied(entries, MovePlan(entries, m)) \subseteq Lessons(problem) \cup ReservedEntries(problem)
  <1>1. CASE StaysPut(entries, m)
    BY <1>1 DEF MovePlan, NoChange, Applied
  <1>2. CASE ~StaysPut(entries, m)
    <2> DEFINE B == BlockPeriods(problem, entries, m.lesson[1], m.lesson[2], m.lesson[3])
               W == TargetWindow(entries, m)
               plan == MovePlan(entries, m)
    <2>1. /\ B \subseteq Periods(problem) /\ W \subseteq Periods(problem)
          /\ plan.added = At(Branches(problem, m.lesson[1]), m.day, W)
                              \cup At(Branches(problem, Occupant(entries, m)), m.lesson[2], B)
      BY <1>2, ExchangePlaces DEF At
    <2> HIDE DEF B, W, plan
    <2>2. \A x \in plan.added : x = <<x[1], x[2], x[3]>> /\ x[1] \in problem.req /\ x[3] \in Periods(problem)
      BY <2>1, AtMember DEF Branches
    <2>3. \A x \in Applied(entries, plan) : x[2] \in problem.day
      <3>1. Storable(problem, Applied(entries, plan))
        BY ExchangeIsStorable DEF plan
      <3> QED BY <3>1 DEF Storable, Slots
    <2>4. \A x \in plan.added : x \in Lessons(problem)
      <3>1. plan.added \subseteq Applied(entries, plan)
        BY DEF Applied
      <3> QED BY <2>2, <2>3, <3>1 DEF Lessons
    <2> QED BY <2>4 DEF Applied, plan
  <1> QED BY <1>1, <1>2

LEMMA EditingInvKept == ASSUME EditingInv, [SolvingNext]_allVars PROVE EditingInv'
  <1>1. SolvingInv /\ SolvingInv'
    BY SolvingInvKept DEF EditingInv
  <1>2. CASE MoveVersion
    <2>1. PICK m : MoveAllowed(entries, m) /\ entries' = Applied(entries, MovePlan(entries, m))
      BY <1>2, MovesExchange
    <2>2. UNCHANGED <<problem, locked, reviewed, earlier>>
      BY <1>2, MovesExchange
    <2>3. problem \notin Solved => entries' \subseteq Lessons(problem) \cup ReservedEntries(problem)
      BY <1>1, <2>1, ExchangeOnGrid DEF EditingInv
    <2>4. \A k \in locked' : \/ IsFindable(problem', entries', locked', k)
                             \/ k \in locked /\ ~IsFindable(problem, entries, locked, k)
                             \/ PrefersDouble(problem, k[1])
      BY <1>1, <1>2, EditsFind
    <2> QED BY <1>1, <2>2, <2>3, <2>4 DEF EditingInv
  <1>3. CASE LockVersion
    <2>1. UNCHANGED <<problem, entries, reviewed, earlier>>
      BY <1>3 DEF LockVersion, LockOccurrence, UnlockOccurrence, version
    <2>2. \A k \in locked' : \/ IsFindable(problem', entries', locked', k)
                             \/ k \in locked /\ ~IsFindable(problem, entries, locked, k)
                             \/ PrefersDouble(problem, k[1])
      BY <1>1, <1>3, EditsFind
    <2> QED BY <1>1, <2>1, <2>2 DEF EditingInv
  <1>4. CASE ReviewVersion
    BY <1>1, <1>4 DEF ReviewVersion, ReviewMove, version, EditingInv
  <1>5. CASE Reoptimize
    BY <1>1, <1>5, ReoptimizedKeepsLocks DEF EditingInv
  <1>6. CASE Regenerate
    <2>1. problem \in Solved /\ problem' \in Solved /\ reviewed' = reviewed
      BY <1>1, <1>6, RegeneratedWithPins DEF Regenerate
    <2> QED BY <1>1, <2>1 DEF EditingInv
  <1>7. CASE Restore
    BY <1>1, <1>7 DEF Restore, EditingInv
  <1>8. CASE UNCHANGED allVars
    BY <1>1, <1>8 DEF allVars, vars, version, EditingInv
  <1> QED BY <1>2, <1>3, <1>4, <1>5, <1>6, <1>7, <1>8 DEF SolvingNext

(***************************************************************************)
(* For any problem and timetable, a reviewed move that is applied, however *)
(* late, can be taken back, unless a PREFERRED double is moved.            *)
(***************************************************************************)
THEOREM MovesAreUndone == SolvingSpec => MovesCanBeUndone
  <1> DEFINE m == reviewed.move
             B == BlockPeriods(problem, entries, m.lesson[1], m.lesson[2], m.lesson[3])
             back == [lesson |-> <<m.lesson[1], m.day, m.period>>, day |-> m.lesson[2], period |-> Min(B)]
             Undone == (/\ ApplyMove /\ reviewed.plan # NoChange
                        /\ \A x \in reviewed.plan.removed : ~PrefersDouble(problem, x[1])) =>
                           /\ MoveAllowed(entries', back)
                           /\ Applied(entries', MovePlan(entries', back)) = entries
                           /\ MovePlan(entries', back).added = reviewed.plan.removed
  <1>1. ASSUME EditingInv
        PROVE  Undone
    <2> SUFFICES ASSUME ApplyMove, reviewed.plan # NoChange,
                        \A x \in reviewed.plan.removed : ~PrefersDouble(problem, x[1])
                 PROVE  /\ MoveAllowed(entries', back)
                        /\ Applied(entries', MovePlan(entries', back)) = entries
                        /\ MovePlan(entries', back).added = reviewed.plan.removed
      OBVIOUS
    <2> DEFINE o == Occupant(entries, m)
               W == TargetWindow(entries, m)
    <2>1. /\ MoveAllowed(entries, m) /\ MovePlan(entries, m) = reviewed.plan
          /\ entries' = Applied(entries, MovePlan(entries, m))
          /\ Verified(problem, entries) /\ reviewed # NoMove
      BY DEF ApplyMove
    <2>2. Edited
      BY <1>1, <2>1 DEF Edited, EditingInv
    <2>3. ~StaysPut(entries, m)
      BY <2>1 DEF MovePlan
    <2>4. /\ Exchange(entries', m.lesson[1], m.lesson[2], B, o, m.day, W)
          /\ reviewed.plan.removed = Lay(m.lesson[1], m.lesson[2], B) \cup Lay(o, m.day, W)
          /\ Branches(problem, o) = {o} /\ m.period \in W
      BY <2>1, <2>2, <2>3, MoveExchanges
    <2>5. NotDoubled(m.lesson[1], o)
      <3>1. m.lesson[3] \in B
        BY <2>1 DEF MoveAllowed, IsOccurrence, BlockPeriods
      <3> HIDE DEF m, B, o, W, back
      <3>2. /\ \A s \in Branches(problem, m.lesson[1]) : <<s, m.lesson[2], m.lesson[3]>> \in reviewed.plan.removed
            /\ \A s \in Branches(problem, o) : <<s, m.day, m.period>> \in reviewed.plan.removed
        BY <2>4, <3>1, AtMember DEF Lay
      <3>3. \A s, e, p : <<s, e, p>> \in reviewed.plan.removed => ~PrefersDouble(problem, s)
        OBVIOUS
      <3> QED BY <3>2, <3>3 DEF NotDoubled
    <2>6. /\ back.lesson = <<m.lesson[1], m.day, m.period>>
          /\ back.day = m.lesson[2] /\ back.period = Min(B)
      OBVIOUS
    <2> HIDE DEF m, B, o, W, back
    <2> QED BY <2>2, <2>4, <2>6, <2>5, ExchangeBack
  <1>2. EditingInv /\ [SolvingNext]_allVars => [Undone]_vars
    BY <1>1
  <1>3. Generate => EditingInv
    BY GenerateEdited
  <1>4. EditingInv /\ [SolvingNext]_allVars => EditingInv'
    BY EditingInvKept
  <1> QED BY <1>2, <1>3, <1>4, PTL DEF SolvingSpec, MovesCanBeUndone

LEMMA FiniteTriples ==
    ASSUME NEW A, NEW D, NEW P, IsFiniteSet(A), IsFiniteSet(D), IsFiniteSet(P)
    PROVE  IsFiniteSet(A \X D \X P)
  <1> DEFINE G == A \X (D \X P)
             triple == [g \in G |-> <<g[1], g[2][1], g[2][2]>>]
  <1>1. IsFiniteSet(G)
    <2>1. IsFiniteSet(D \X P)
      BY FS_Product
    <2> QED BY <2>1, FS_Product
  <1>2. triple \in Surjection(G, A \X D \X P)
    <2>1. triple \in [G -> A \X D \X P]
      OBVIOUS
    <2>2. ASSUME NEW x \in A \X D \X P
          PROVE  \E g \in G : triple[g] = x
      <3>1. <<x[1], <<x[2], x[3]>>>> \in G /\ triple[<<x[1], <<x[2], x[3]>>>>] = x
        OBVIOUS
      <3> HIDE DEF G, triple
      <3> QED BY <3>1
    <2> HIDE DEF G, triple
    <2> QED BY <2>1, <2>2 DEF Surjection
  <1> HIDE DEF G, triple
  <1> QED BY <1>1, <1>2, FS_Surjection

\* A timetable on the grid is finite.
LEMMA GridFinite ==
    ASSUME NEW pr \in Problems, NEW e, e \subseteq Lessons(pr) \cup ReservedEntries(pr)
    PROVE  IsFiniteSet(e)
  <1>1. /\ IsFiniteSet(pr.req) /\ IsFiniteSet(pr.reserved)
        /\ IsFiniteSet(pr.day) /\ IsFiniteSet(Periods(pr))
    BY ProblemAssumption
  <1>2. IsFiniteSet(pr.req \cup pr.reserved)
    BY <1>1, FS_Union
  <1>3. IsFiniteSet((pr.req \cup pr.reserved) \X pr.day \X Periods(pr))
    BY <1>1, <1>2, FiniteTriples
  <1>4. e \in SUBSET ((pr.req \cup pr.reserved) \X pr.day \X Periods(pr))
    BY DEF Lessons, ReservedEntries
  <1> QED BY <1>3, <1>4, FS_Subset

\* No two branches of a split use the same resource, where timetables are edited.
SplitsShareNoResource ==
    \A pr \in Problems : Timetables[pr] # {} => \A r \in pr.req : \A s \in Branches(pr, r) :
        s # r /\ pr.resource[r] # None => pr.resource[s] # pr.resource[r]

\* What stays where it is, and what comes.
Rest(r, d, B, o, c, W) == entries \ (Lay(r, d, B) \cup Lay(o, c, W))

LEMMA ExchangeParts ==
    ASSUME Edited, NEW f, NEW r, NEW d, NEW B, NEW o, NEW c, NEW W, Exchange(f, r, d, B, o, c, W)
    PROVE  f = Rest(r, d, B, o, c, W) \cup Lay(r, c, W) \cup Lay(o, d, B)
  BY DEF Exchange, Rest

LEMMA NewPlacesAccepted ==
    ASSUME Edited, NEW f, NEW r, NEW d, NEW B, NEW o, NEW c, NEW W, Exchange(f, r, d, B, o, c, W)
    PROVE  SlotsAccept(Rest(r, d, B, o, c, W), Lay(r, c, W) \cup Lay(o, d, B))
  BY DEF Exchange, Rest

\* In one split there is nothing to exchange.
LEMMA ExchangeInSplit ==
    ASSUME Edited, NEW f, NEW r, NEW d, NEW B, NEW o, NEW c, NEW W, Exchange(f, r, d, B, o, c, W),
           Branches(problem, r) \cap Branches(problem, o) # {}
    PROVE  f = entries
  <1>1. r \in problem.req /\ o \in problem.req
    BY DEF Exchange
  <1>2. Branches(problem, o) = Branches(problem, r)
    <2>1. PICK s : s \in Branches(problem, r) /\ s \in Branches(problem, o)
      OBVIOUS
    <2> QED BY <1>1, <2>1, BranchFacts
  <1>3. Lay(o, d, B) = Lay(r, d, B) /\ Lay(o, c, W) = Lay(r, c, W)
    BY <1>2 DEF Lay
  <1>4. Lay(r, d, B) \subseteq entries /\ Lay(o, c, W) \subseteq entries
    BY ExchangeSymmetric, ExchangedLessons
  <1>5. f = (entries \ (Lay(r, d, B) \cup Lay(o, c, W))) \cup (Lay(r, c, W) \cup Lay(o, d, B))
    BY DEF Exchange
  <1> QED BY <1>3, <1>4, <1>5

LEMMA LayMember ==
    ASSUME Edited, NEW r \in problem.req, NEW d, NEW B, NEW x \in Lay(r, d, B)
    PROVE  /\ x = <<x[1], x[2], x[3]>> /\ x[2] = d /\ x[3] \in B
           /\ x[1] \in Branches(problem, r) /\ x[1] \in problem.req
           /\ problem.classes[x[1]] = problem.classes[r]
  <1>1. x = <<x[1], x[2], x[3]>> /\ x[1] \in Branches(problem, r) /\ x[2] = d /\ x[3] \in B
    BY AtMember DEF Lay
  <1> QED BY <1>1, BranchFacts

\* Lessons that come together were together before.
LEMMA ComeTogether ==
    ASSUME Edited, NEW f, NEW r, NEW d, NEW B, NEW o, NEW c, NEW W, Exchange(f, r, d, B, o, c, W),
           NEW x \in Lay(r, c, W), NEW y \in f, x # y, SameSlot(x, y)
    PROVE  problem.teacher[x[1]] # problem.teacher[y[1]] /\ problem.group[x[1]] # problem.group[y[1]]
  <1>1. /\ x[1] \in Branches(problem, r) /\ x[1] \in problem.req /\ x[2] = c /\ x[3] \in W
        /\ x = <<x[1], x[2], x[3]>> /\ r \in problem.req
    <2>1. r \in problem.req
      BY DEF Exchange
    <2> QED BY <2>1, LayMember
  <1>2. CASE y \in Rest(r, d, B, o, c, W)
    <2>1. SlotsAccept(Rest(r, d, B, o, c, W), Lay(r, c, W) \cup Lay(o, d, B))
      BY NewPlacesAccepted
    <2>2. x \in Lay(r, c, W) \cup Lay(o, d, B)
      OBVIOUS
    <2>3. problem.teacher[y[1]] # problem.teacher[x[1]] /\ problem.group[y[1]] # problem.group[x[1]]
      BY <1>2, <2>1, <2>2 DEF SlotsAccept
    <2> QED BY <2>3
  <1>3. CASE y \in Lay(r, c, W)
    <2>1. y[2] = c /\ y[1] \in Branches(problem, r) /\ y = <<y[1], y[2], y[3]>>
      BY <1>1, <1>3, LayMember
    <2>2. y[1] \in Branches(problem, r) /\ y[1] # x[1]
      BY <1>1, <2>1 DEF SameSlot
    <2>3. PICK q : q \in B
      BY DEF Exchange
    <2>4. <<x[1], d, q>> \in entries /\ <<y[1], d, q>> \in entries
      BY <1>1, <2>2, <2>3, AtMember, ExchangedLessons DEF Lay
    <2>5. /\ TeachersNotDoubleBooked(problem, entries) /\ GroupsNotDoubleBooked(problem, entries)
          /\ problem \in Problems
      BY DEF Edited, EditingInv, SolvingInv, Verified
    <2>6. problem.teacher[x[1]] # None /\ problem.group[x[1]] # None
      BY <1>1, <2>5, ProblemAssumption
    <2> DEFINE u == <<x[1], d, q>>
               v == <<y[1], d, q>>
    <2>7. u[1] = x[1] /\ v[1] = y[1] /\ u # v /\ SameSlot(u, v) /\ u \in entries /\ v \in entries
      BY <2>2, <2>4 DEF SameSlot
    <2> HIDE DEF u, v
    <2> QED BY <2>5, <2>6, <2>7 DEF TeachersNotDoubleBooked, GroupsNotDoubleBooked
  <1>4. CASE y \in Lay(o, d, B)
    <2>1. y[2] = d /\ y[3] \in B
      BY <1>4, AtMember DEF Lay
    <2>2. c = d /\ x[3] = y[3]
      BY <1>1, <2>1 DEF SameSlot
    <2> QED BY <1>1, <2>1, <2>2, ExchangedApart
  <1>5. f = Rest(r, d, B, o, c, W) \cup Lay(r, c, W) \cup Lay(o, d, B)
    BY ExchangeParts
  <1>6. y \in Rest(r, d, B, o, c, W) \/ y \in Lay(r, c, W) \/ y \in Lay(o, d, B)
    BY <1>5
  <1> QED BY <1>2, <1>3, <1>4, <1>6

LEMMA ExchangeNoClash ==
    ASSUME Edited, NEW f, NEW r, NEW d, NEW B, NEW o, NEW c, NEW W, Exchange(f, r, d, B, o, c, W),
           NEW x \in f, NEW y \in f, x # y, SameSlot(x, y)
    PROVE  /\ problem.teacher[x[1]] # None => problem.teacher[x[1]] # problem.teacher[y[1]]
           /\ problem.group[x[1]] # None => problem.group[x[1]] # problem.group[y[1]]
  <1>1. Exchange(f, o, c, W, r, d, B) /\ SameSlot(y, x)
    BY ExchangeSymmetric DEF SameSlot
  <1>2. CASE x \in Lay(r, c, W) \/ x \in Lay(o, d, B)
    <2>1. problem.teacher[x[1]] # problem.teacher[y[1]] /\ problem.group[x[1]] # problem.group[y[1]]
      BY <1>1, <1>2, ComeTogether
    <2> QED BY <2>1
  <1>3. CASE y \in Lay(r, c, W) \/ y \in Lay(o, d, B)
    <2>1. problem.teacher[x[1]] # problem.teacher[y[1]] /\ problem.group[x[1]] # problem.group[y[1]]
      BY <1>1, <1>3, ComeTogether
    <2> QED BY <2>1
  <1>4. CASE x \in entries /\ y \in entries
    BY <1>4 DEF Edited, Verified, TeachersNotDoubleBooked, GroupsNotDoubleBooked
  <1>5. f = Rest(r, d, B, o, c, W) \cup Lay(r, c, W) \cup Lay(o, d, B)
    BY ExchangeParts
  <1>6. /\ x \in entries \/ x \in Lay(r, c, W) \/ x \in Lay(o, d, B)
        /\ y \in entries \/ y \in Lay(r, c, W) \/ y \in Lay(o, d, B)
    BY <1>5 DEF Rest
  <1> QED BY <1>2, <1>3, <1>4, <1>6

\* A requirement has as many lessons as before.
LEMMA TakenCount ==
    ASSUME Edited, NEW f, NEW r, NEW d, NEW B, NEW o, NEW c, NEW W, Exchange(f, r, d, B, o, c, W),
           NEW a \in Branches(problem, r), a \notin Branches(problem, o)
    PROVE  Cardinality({x \in f : x[1] = a}) = Cardinality({x \in entries : x[1] = a})
  <1> DEFINE L == {x \in entries : x[1] = a}
             F == {x \in f : x[1] = a}
             out == At({a}, d, B)
             in == At({a}, c, W)
  <1>1. /\ problem \in Problems /\ Triples(entries)
        /\ entries \subseteq Lessons(problem) \cup ReservedEntries(problem)
    BY DEF Edited, EditingInv, SolvingInv
  <1>2. /\ r \in problem.req /\ B \in SUBSET Periods(problem) /\ W \in SUBSET Periods(problem)
        /\ Cardinality(B) = Cardinality(W) /\ IsFiniteSet(B) /\ IsFiniteSet(W)
    <2>1. /\ r \in problem.req /\ B \in SUBSET Periods(problem) /\ W \in SUBSET Periods(problem)
          /\ Cardinality(B) = Cardinality(W)
      BY DEF Exchange
    <2> QED BY <1>1, <2>1, ProblemAssumption, FS_Subset
  <1>3. /\ \A x : x \in Lay(r, d, B) /\ x[1] = a <=> x \in out
        /\ \A x : x \in Lay(r, c, W) /\ x[1] = a <=> x \in in
        /\ \A x : x[1] = a => x \notin Lay(o, d, B) /\ x \notin Lay(o, c, W)
    BY DEF Lay, At
  <1>4. /\ f = Rest(r, d, B, o, c, W) \cup Lay(r, c, W) \cup Lay(o, d, B)
        /\ Rest(r, d, B, o, c, W) = entries \ (Lay(r, d, B) \cup Lay(o, c, W))
    <2>1. f = Rest(r, d, B, o, c, W) \cup Lay(r, c, W) \cup Lay(o, d, B)
      BY ExchangeParts
    <2> QED BY <2>1 DEF Rest
  <1>5. Lay(r, d, B) \subseteq entries /\ Lay(r, c, W) \cap entries \subseteq Lay(o, c, W)
    BY ExchangedLessons
  <1>6. \A x : x \in in => x[1] = a
    BY DEF At
  <1>7. IsFiniteSet(L)
    <2>1. L \in SUBSET entries /\ IsFiniteSet(entries)
      BY <1>1, GridFinite
    <2> QED BY <2>1, FS_Subset
  <1>8. Cardinality(out) = Cardinality(B) /\ Cardinality(in) = Cardinality(W)
    BY <1>2, BlockSize DEF At
  <1>9. out \in SUBSET L /\ in \cap L = {} /\ F = (L \ out) \cup in
    <2> HIDE DEF out, in
    <2> QED BY <1>3, <1>4, <1>5, <1>6
  <1> HIDE DEF L, F, out, in
  <1>10. IsFiniteSet(out) /\ IsFiniteSet(in)
    <2>1. IsFiniteSet(out)
      BY <1>7, <1>9, FS_Subset
    <2>2. IsFiniteSet(in)
      BY <1>2, FiniteTriples, FS_Singleton DEF in, At
    <2> QED BY <2>1, <2>2
  <1>11. Cardinality(L \ out) = Cardinality(L) - Cardinality(out) /\ IsFiniteSet(L \ out)
    <2>1. L \cap out = out
      BY <1>9
    <2> QED BY <1>7, <2>1, FS_Difference
  <1>12. Cardinality(F) = Cardinality(L \ out) + Cardinality(in)
    <2>1. (L \ out) \cap in = {}
      BY <1>9
    <2>2. /\ F = (L \ out) \cup in
          /\ Cardinality((L \ out) \cup in) = Cardinality(L \ out) + Cardinality(in) - 0
      BY <1>9, <1>10, <1>11, <2>1, FS_Union, FS_EmptySet
    <2>3. Cardinality(L \ out) \in Nat /\ Cardinality(in) \in Nat
      BY <1>10, <1>11, FS_CardinalityType
    <2> QED BY <2>2, <2>3
  <1>13. Cardinality(L) \in Nat /\ Cardinality(in) \in Nat
    BY <1>7, <1>10, FS_CardinalityType
  <1>14. Cardinality(F) = Cardinality(L)
    BY <1>2, <1>8, <1>11, <1>12, <1>13
  <1> QED BY <1>14 DEF F, L

LEMMA ExchangeWeekly ==
    ASSUME Edited, NEW f, NEW r, NEW d, NEW B, NEW o, NEW c, NEW W, Exchange(f, r, d, B, o, c, W),
           Branches(problem, r) \cap Branches(problem, o) = {}
    PROVE  WeeklyLessonsPlaced(problem, f)
  <1> SUFFICES ASSUME NEW a \in problem.req
               PROVE  Cardinality({x \in f : x[1] = a}) = problem.weekly[a]
    BY DEF WeeklyLessonsPlaced
  <1>1. Cardinality({x \in entries : x[1] = a}) = problem.weekly[a]
    BY DEF Edited, Verified, WeeklyLessonsPlaced
  <1>2. Exchange(f, o, c, W, r, d, B)
    BY ExchangeSymmetric
  <1>3. CASE a \in Branches(problem, r)
    BY <1>1, <1>3, TakenCount
  <1>4. CASE a \in Branches(problem, o)
    BY <1>1, <1>2, <1>4, TakenCount
  <1>5. CASE a \notin Branches(problem, r) /\ a \notin Branches(problem, o)
    <2>1. \A S, e, V, x : x \in At(S, e, V) => x[1] \in S
      BY AtMember
    <2>2. f = Rest(r, d, B, o, c, W) \cup Lay(r, c, W) \cup Lay(o, d, B)
      BY ExchangeParts
    <2>3. {x \in f : x[1] = a} = {x \in entries : x[1] = a}
      BY <1>5, <2>1, <2>2 DEF Rest, Lay
    <2> QED BY <1>1, <2>3
  <1> QED BY <1>3, <1>4, <1>5

\* What is fixed does not go.
LEMMA FixedStay ==
    ASSUME Edited, NEW f, NEW r, NEW d, NEW B, NEW o, NEW c, NEW W, Exchange(f, r, d, B, o, c, W)
    PROVE  problem.fixed \cap Lay(r, d, B) = {}
  <1> SUFFICES ASSUME NEW x \in Lay(r, d, B), x \in problem.fixed PROVE FALSE
    OBVIOUS
  <1>1. /\ r \in problem.req
        /\ \A p \in B : BlockPeriods(problem, entries, r, d, p) = B /\ Free(entries, r, d, p)
    BY DEF Exchange
  <1>2. x = <<x[1], x[2], x[3]>> /\ x[2] = d /\ x[3] \in B /\ x[1] \in Branches(problem, r)
    BY <1>1, LayMember
  <1>3. x \in Occurrence(problem, entries, r, d, x[3])
    BY <1>1, <1>2 DEF Occurrence
  <1> QED BY <1>1, <1>2, <1>3 DEF Free

LEMMA ExchangeRespects ==
    ASSUME Edited, NEW f, NEW r, NEW d, NEW B, NEW o, NEW c, NEW W, Exchange(f, r, d, B, o, c, W)
    PROVE  TeachersAvailable(problem, f) /\ FixedPlacementsRespected(problem, f)
  <1>1. f = Rest(r, d, B, o, c, W) \cup Lay(r, c, W) \cup Lay(o, d, B)
    BY ExchangeParts
  <1>2. TeachersAvailable(problem, entries) /\ FixedPlacementsRespected(problem, entries)
    BY DEF Edited, Verified
  <1>3. SlotsAccept(Rest(r, d, B, o, c, W), Lay(r, c, W) \cup Lay(o, d, B))
    BY NewPlacesAccepted
  <1>4. problem.fixed \cap Lay(r, d, B) = {} /\ problem.fixed \cap Lay(o, c, W) = {}
    BY ExchangeSymmetric, FixedStay
  <1>5. TeachersAvailable(problem, f)
    <2> SUFFICES ASSUME NEW x \in f PROVE <<problem.teacher[x[1]], x[2], x[3]>> \notin problem.unavailable
      BY DEF TeachersAvailable
    <2>1. CASE x \in entries
      BY <1>2, <2>1 DEF TeachersAvailable
    <2>2. CASE x \in Lay(r, c, W) \cup Lay(o, d, B)
      BY <1>3, <2>2 DEF SlotsAccept
    <2> QED BY <1>1, <2>1, <2>2 DEF Rest
  <1>6. FixedPlacementsRespected(problem, f)
    BY <1>1, <1>2, <1>4 DEF FixedPlacementsRespected, Rest
  <1> QED BY <1>5, <1>6

\* A lesson that comes meets no reserved block, where one was before.
LEMMA ComesBesideReserved ==
    ASSUME Edited, NEW f, NEW r, NEW d, NEW B, NEW o, NEW c, NEW W, Exchange(f, r, d, B, o, c, W),
           NEW x \in Lay(r, c, W), NEW b \in ReservedEntries(problem), SameSlot(x, b)
    PROVE  problem.classes[x[1]] \cap problem.classes[b[1]] = {}
  <1>1. /\ r \in problem.req /\ o \in problem.req /\ problem.classes[o] = problem.classes[r]
        /\ \A p \in W : <<o, c, p>> \in entries
    BY DEF Exchange
  <1>2. x[2] = c /\ x[3] \in W /\ problem.classes[x[1]] = problem.classes[r]
    BY <1>1, LayMember
  <1> DEFINE y == <<o, c, x[3]>>
  <1>3. y \in entries /\ y[1] = o /\ SameSlot(y, b)
    BY <1>1, <1>2 DEF SameSlot
  <1>4. ReservedBlocksRespected(problem, entries)
    BY DEF Edited, Verified
  <1> HIDE DEF y
  <1> QED BY <1>1, <1>2, <1>3, <1>4 DEF ReservedBlocksRespected

LEMMA ExchangeReserved ==
    ASSUME Edited, NEW f, NEW r, NEW d, NEW B, NEW o, NEW c, NEW W, Exchange(f, r, d, B, o, c, W)
    PROVE  ReservedBlocksRespected(problem, f)
  <1> SUFFICES ASSUME NEW b \in ReservedEntries(problem)
               PROVE  /\ b \in f
                      /\ \A x \in f : x[1] \in problem.req /\ SameSlot(x, b)
                            => problem.classes[x[1]] \cap problem.classes[b[1]] = {}
    BY DEF ReservedBlocksRespected
  <1>1. f = Rest(r, d, B, o, c, W) \cup Lay(r, c, W) \cup Lay(o, d, B)
    BY ExchangeParts
  <1>2. ReservedBlocksRespected(problem, entries) /\ problem \in Problems
    BY DEF Edited, EditingInv, SolvingInv, Verified
  <1>3. r \in problem.req /\ o \in problem.req /\ b[1] \notin problem.req
    <2>1. r \in problem.req /\ o \in problem.req
      BY DEF Exchange
    <2> QED BY <1>2, <2>1, ProblemAssumption DEF ReservedEntries
  <1>4. b \in f
    <2>1. b \notin Lay(r, d, B) /\ b \notin Lay(o, c, W)
      BY <1>3, LayMember
    <2> QED BY <1>1, <1>2, <2>1 DEF ReservedBlocksRespected, Rest
  <1>5. ASSUME NEW x \in f, x[1] \in problem.req, SameSlot(x, b)
        PROVE  problem.classes[x[1]] \cap problem.classes[b[1]] = {}
    <2>1. CASE x \in entries
      BY <1>2, <1>5, <2>1 DEF ReservedBlocksRespected
    <2>2. CASE x \in Lay(r, c, W)
      BY <1>5, <2>2, ComesBesideReserved
    <2>3. CASE x \in Lay(o, d, B)
      <3>1. Exchange(f, o, c, W, r, d, B)
        BY ExchangeSymmetric
      <3> QED BY <1>5, <2>3, <3>1, ComesBesideReserved
    <2> QED BY <1>1, <2>1, <2>2, <2>3 DEF Rest
  <1> QED BY <1>4, <1>5

\* The slots of a requirement, by days.
LEMMA SlotsByDay ==
    ASSUME NEW e, Triples(e), NEW a, NEW b, \A d : PeriodsOn(e, a, d) = PeriodsOn(e, b, d)
    PROVE  {<<x[2], x[3]>> : x \in {y \in e : y[1] = a}} = {<<x[2], x[3]>> : x \in {y \in e : y[1] = b}}
  <1> DEFINE S(i) == {<<x[2], x[3]>> : x \in {y \in e : y[1] = i}}
  <1>1. ASSUME NEW i, NEW j, \A d : PeriodsOn(e, i, d) = PeriodsOn(e, j, d), NEW z \in S(i)
        PROVE  z \in S(j)
    <2>1. PICK x \in e : x[1] = i /\ z = <<x[2], x[3]>>
      OBVIOUS
    <2>2. x = <<i, x[2], x[3]>>
      BY <2>1 DEF Triples
    <2>3. <<j, x[2], x[3]>> \in e
      BY <1>1, <2>2, PeriodsOnMembers
    <2> QED BY <2>1, <2>3
  <1>2. S(a) \subseteq S(b) /\ S(b) \subseteq S(a)
    <2> HIDE DEF S
    <2> QED BY <1>1
  <1> QED BY <1>2

LEMMA ExchangeSynchronized ==
    ASSUME Edited, NEW f, NEW r, NEW d, NEW B, NEW o, NEW c, NEW W, Exchange(f, r, d, B, o, c, W)
    PROVE  SplitsSynchronized(problem, f)
  <1> SUFFICES ASSUME NEW a \in problem.req, NEW b \in Branches(problem, a)
               PROVE  {<<x[2], x[3]>> : x \in {y \in f : y[1] = a}} = {<<x[2], x[3]>> : x \in {y \in f : y[1] = b}}
    BY DEF SplitsSynchronized
  <1>1. Triples(f)
    BY ExchangedGrid
  <1>2. r \in problem.req /\ o \in problem.req
    BY DEF Exchange
  <1>3. /\ a \in Branches(problem, r) <=> b \in Branches(problem, r)
        /\ a \in Branches(problem, o) <=> b \in Branches(problem, o)
    BY <1>2 DEF Branches
  <1>4. ASSUME NEW e
        PROVE  PeriodsOn(f, a, e) = PeriodsOn(f, b, e)
    <2>1. PeriodsOn(entries, a, e) = PeriodsOn(entries, b, e)
      BY BranchFacts
    <2>2. \A p : p \in PeriodsOn(f, a, e) <=> p \in PeriodsOn(f, b, e)
      <3> TAKE p
      <3>1. p \in PeriodsOn(f, a, e) <=>
               \/ /\ p \in PeriodsOn(entries, a, e)
                  /\ ~(a \in Branches(problem, r) /\ e = d /\ p \in B)
                  /\ ~(a \in Branches(problem, o) /\ e = c /\ p \in W)
               \/ a \in Branches(problem, r) /\ e = c /\ p \in W
               \/ a \in Branches(problem, o) /\ e = d /\ p \in B
        BY ExchangedPeriods
      <3>2. p \in PeriodsOn(f, b, e) <=>
               \/ /\ p \in PeriodsOn(entries, b, e)
                  /\ ~(b \in Branches(problem, r) /\ e = d /\ p \in B)
                  /\ ~(b \in Branches(problem, o) /\ e = c /\ p \in W)
               \/ b \in Branches(problem, r) /\ e = c /\ p \in W
               \/ b \in Branches(problem, o) /\ e = d /\ p \in B
        BY ExchangedPeriods
      <3> QED BY <1>3, <2>1, <3>1, <3>2
    <2> QED BY <2>2
  <1> QED BY <1>1, <1>4, SlotsByDay

LEMMA ExchangeCaps ==
    ASSUME Edited, NEW f, NEW r, NEW d, NEW B, NEW o, NEW c, NEW W, Exchange(f, r, d, B, o, c, W),
           NEW a \in problem.req
    PROVE  DailyCapKept(problem, f, a)
  <1>1. CASE a \in Branches(problem, r) \cup Branches(problem, o)
    BY <1>1 DEF Exchange
  <1>2. CASE a \notin Branches(problem, r) \cup Branches(problem, o)
    <2>1. \A e, p : p \in PeriodsOn(f, a, e) <=> p \in PeriodsOn(entries, a, e)
      BY <1>2, ExchangedPeriods
    <2>2. \A e : PeriodsOn(f, a, e) = PeriodsOn(entries, a, e)
      BY <2>1
    <2>3. DailyCapKept(problem, entries, a)
      BY DEF Edited, Verified
    <2> QED BY <2>2, <2>3 DEF DailyCapKept
  <1> QED BY <1>1, <1>2

\* Beside a lesson that comes its resource is used by what stays.
LEMMA ComesToResource ==
    ASSUME Edited, SplitsShareNoResource,
           NEW f, NEW r, NEW d, NEW B, NEW o, NEW c, NEW W, Exchange(f, r, d, B, o, c, W),
           NEW z \in Lay(r, c, W), problem.resource[z[1]] # None
    PROVE  ResourceUse(problem, f, problem.resource[z[1]], z[2], z[3]) <= problem.capacity[problem.resource[z[1]]]
  <1> DEFINE res == problem.resource[z[1]]
             rest == Rest(r, d, B, o, c, W)
             Using(e) == {x \in e : problem.resource[x[1]] = res /\ x[2] = z[2] /\ x[3] = z[3]}
  <1>1. /\ problem \in Problems /\ entries \subseteq Lessons(problem) \cup ReservedEntries(problem)
    BY DEF Edited, EditingInv, SolvingInv
  <1>2. r \in problem.req /\ o \in problem.req
    BY DEF Exchange
  <1>3. /\ z = <<z[1], z[2], z[3]>> /\ z[2] = c /\ z[3] \in W
        /\ z[1] \in Branches(problem, r) /\ z[1] \in problem.req
    BY <1>2, LayMember
  <1>4. 1 + ResourceUse(problem, rest, res, z[2], z[3]) <= problem.capacity[res]
    BY NewPlacesAccepted DEF SlotsAccept
  <1>5. problem.capacity[res] \in Nat
    BY <1>1, <1>3, ProblemAssumption
  <1>6. Using(f) \in SUBSET (Using(rest) \cup {z})
    <2> SUFFICES ASSUME NEW x \in f, problem.resource[x[1]] = res, x[2] = z[2], x[3] = z[3]
                 PROVE  x \in rest \/ x = z
      OBVIOUS
    <2>1. f = rest \cup Lay(r, c, W) \cup Lay(o, d, B)
      BY ExchangeParts
    <2>2. CASE x \in Lay(r, c, W)
      <3>1. x = <<x[1], x[2], x[3]>> /\ x[1] \in Branches(problem, r)
        BY <1>2, <2>2, LayMember
      <3>2. z[1] \in Branches(problem, x[1]) /\ x[1] \in problem.req
        BY <1>2, <1>3, <3>1, BranchFacts
      <3>3. x[1] = z[1]
        BY <1>1, <3>2 DEF SplitsShareNoResource, Edited, EditingInv
      <3> QED BY <1>3, <3>1, <3>3
    <2>3. CASE x \in Lay(o, d, B)
      <3>1. x[2] = d /\ x[3] \in B
        BY <1>2, <2>3, LayMember
      <3>2. c = d /\ x[3] \in W
        BY <1>3, <3>1
      <3> QED BY <3>1, <3>2, ExchangedApart
    <2> QED BY <2>1, <2>2, <2>3
  <1>7. IsFiniteSet(Using(rest))
    <2>1. Using(rest) \in SUBSET entries
      BY DEF Rest
    <2>2. IsFiniteSet(entries)
      BY <1>1, GridFinite
    <2> QED BY <2>1, <2>2, FS_Subset
  <1>8. Cardinality(Using(f)) <= Cardinality(Using(rest)) + 1
    <2> DEFINE U == Using(rest)
               F == Using(f)
    <2> HIDE DEF U, F, Using
    <2>1. IsFiniteSet(U) /\ F \in SUBSET (U \cup {z})
      BY <1>6, <1>7 DEF U, F
    <2>2. IsFiniteSet(U \cup {z}) /\ Cardinality(U \cup {z}) <= Cardinality(U) + 1
      <3>1. CASE z \in U
        <4>1. U \cup {z} = U
          BY <3>1
        <4>2. Cardinality(U) \in Nat
          BY <2>1, FS_CardinalityType
        <4>3. Cardinality(U) <= Cardinality(U) + 1
          BY <4>2
        <4> QED BY <2>1, <4>1, <4>3
      <3>2. CASE z \notin U
        <4>1. IsFiniteSet(U \cup {z}) /\ Cardinality(U \cup {z}) = Cardinality(U) + 1
          BY <2>1, <3>2, FS_AddElement
        <4> QED BY <2>1, <4>1, FS_CardinalityType
      <3> QED BY <3>1, <3>2
    <2>3. IsFiniteSet(F) /\ Cardinality(F) <= Cardinality(U \cup {z})
      BY <2>1, <2>2, FS_Subset
    <2>4. Cardinality(F) \in Nat /\ Cardinality(U \cup {z}) \in Nat /\ Cardinality(U) \in Nat
      BY <2>1, <2>2, <2>3, FS_CardinalityType
    <2>5. Cardinality(F) <= Cardinality(U) + 1
      BY <2>2, <2>3, <2>4
    <2> QED BY <2>5 DEF U, F
  <1>9. IsFiniteSet(Using(f))
    <2>1. IsFiniteSet(f)
      BY <1>1, ExchangedGrid, GridFinite
    <2>2. Using(f) \in SUBSET f
      OBVIOUS
    <2> QED BY <2>1, <2>2, FS_Subset
  <1> DEFINE u == ResourceUse(problem, rest, res, z[2], z[3])
             n == ResourceUse(problem, f, res, z[2], z[3])
             capacity == problem.capacity[res]
  <1>10. u = Cardinality(Using(rest)) /\ n = Cardinality(Using(f))
    BY DEF ResourceUse
  <1>11. u \in Nat /\ n \in Nat /\ n <= u + 1
    BY <1>7, <1>8, <1>9, <1>10, FS_CardinalityType
  <1>12. capacity \in Nat /\ 1 + u <= capacity
    BY <1>4, <1>5
  <1> HIDE DEF u, n, capacity
  <1>13. n <= capacity
    BY <1>11, <1>12
  <1> QED BY <1>13 DEF n, capacity

LEMMA ExchangeCapacity ==
    ASSUME Edited, SplitsShareNoResource,
           NEW f, NEW r, NEW d, NEW B, NEW o, NEW c, NEW W, Exchange(f, r, d, B, o, c, W)
    PROVE  ResourceCapacityKept(problem, f)
  <1> SUFFICES ASSUME NEW x \in f, problem.resource[x[1]] # None
               PROVE  ResourceUse(problem, f, problem.resource[x[1]], x[2], x[3])
                          <= problem.capacity[problem.resource[x[1]]]
    BY DEF ResourceCapacityKept
  <1> DEFINE res == problem.resource[x[1]]
             Using(e) == {y \in e : problem.resource[y[1]] = res /\ y[2] = x[2] /\ y[3] = x[3]}
  <1>1. f = Rest(r, d, B, o, c, W) \cup Lay(r, c, W) \cup Lay(o, d, B)
    BY ExchangeParts
  <1>2. problem \in Problems /\ entries \subseteq Lessons(problem) \cup ReservedEntries(problem)
    BY DEF Edited, EditingInv, SolvingInv
  <1>3. Exchange(f, o, c, W, r, d, B)
    BY ExchangeSymmetric
  <1>4. ASSUME NEW z \in Lay(r, c, W) \cup Lay(o, d, B), z \in Using(f)
        PROVE  ResourceUse(problem, f, res, x[2], x[3]) <= problem.capacity[res]
    <2>1. problem.resource[z[1]] = res /\ z[2] = x[2] /\ z[3] = x[3]
      BY <1>4
    <2>2. ResourceUse(problem, f, problem.resource[z[1]], z[2], z[3]) <= problem.capacity[problem.resource[z[1]]]
      <3>1. problem.resource[z[1]] # None
        BY <2>1
      <3>2. CASE z \in Lay(r, c, W)
        BY <3>1, <3>2, ComesToResource
      <3>3. CASE z \in Lay(o, d, B)
        BY <1>3, <3>1, <3>3, ComesToResource
      <3> QED BY <3>2, <3>3
    <2> QED BY <2>1, <2>2
  <1>5. ASSUME \A z \in Lay(r, c, W) \cup Lay(o, d, B) : z \notin Using(f)
        PROVE  ResourceUse(problem, f, res, x[2], x[3]) <= problem.capacity[res]
    <2>1. x \in Using(f)
      OBVIOUS
    <2>2. x \in entries /\ Using(f) \in SUBSET Using(entries)
      BY <1>1, <1>5, <2>1 DEF Rest
    <2>3. IsFiniteSet(Using(entries))
      <3>1. IsFiniteSet(entries) /\ Using(entries) \in SUBSET entries
        BY <1>2, GridFinite
      <3> QED BY <3>1, FS_Subset
    <2>4. ResourceUse(problem, entries, res, x[2], x[3]) <= problem.capacity[res]
      BY <2>2 DEF Edited, Verified, ResourceCapacityKept
    <2>5. problem.capacity[res] \in Nat
      <3>1. x[1] \in problem.req \cup problem.reserved
        BY <1>2, <2>2 DEF Lessons, ReservedEntries
      <3> QED BY <1>2, <3>1, ProblemAssumption
    <2> DEFINE u == ResourceUse(problem, entries, res, x[2], x[3])
               n == ResourceUse(problem, f, res, x[2], x[3])
               capacity == problem.capacity[res]
    <2>6. u = Cardinality(Using(entries)) /\ n = Cardinality(Using(f))
      BY DEF ResourceUse
    <2>7. n <= u /\ n \in Nat /\ u \in Nat
      <3> HIDE DEF Using
      <3> QED BY <2>2, <2>3, <2>6, FS_Subset, FS_CardinalityType
    <2>8. u <= capacity /\ capacity \in Nat
      BY <2>4, <2>5
    <2> HIDE DEF u, n, capacity
    <2>9. n <= capacity
      BY <2>7, <2>8
    <2> QED BY <2>9 DEF n, capacity
  <1> QED BY <1>4, <1>5

\* What a class does in a slot.
Units(pr, e, k, slot) ==
    {OccupancyUnit(pr, x[1]) : x \in {y \in e : <<y[2], y[3]>> = slot /\ k \in pr.classes[y[1]]}}

\* A class that gets lessons had what it gives away in their place, and nothing else.
LEMMA ComesAlone ==
    ASSUME Edited, NEW f, NEW r, NEW d, NEW B, NEW o, NEW c, NEW W, Exchange(f, r, d, B, o, c, W),
           Branches(problem, r) \cap Branches(problem, o) = {},
           NEW k, k \in problem.classes[r], NEW p \in W
    PROVE  Units(problem, f, k, <<c, p>>) = {OccupancyUnit(problem, r)}
  <1>1. /\ r \in problem.req /\ o \in problem.req /\ problem.classes[o] = problem.classes[r]
        /\ c \in problem.day /\ W \in SUBSET Periods(problem)
        /\ \A q \in W : <<o, c, q>> \in entries
    BY DEF Exchange
  <1>2. f = Rest(r, d, B, o, c, W) \cup Lay(r, c, W) \cup Lay(o, d, B)
    BY ExchangeParts
  <1>3. ASSUME NEW y \in f, <<y[2], y[3]>> = <<c, p>>, k \in problem.classes[y[1]]
        PROVE  OccupancyUnit(problem, y[1]) = OccupancyUnit(problem, r)
    <2>1. y[2] = c /\ y[3] \in W
      BY <1>3
    <2>2. y \notin Rest(r, d, B, o, c, W)
      <3> SUFFICES ASSUME y \in entries PROVE y \in Lay(o, c, W)
        BY DEF Rest
      <3>1. problem.classes[y[1]] \cap problem.classes[o] # {}
        BY <1>1, <1>3
      <3> QED BY <1>1, <2>1, <3>1, TakenBySplit
    <2>3. y \notin Lay(o, d, B)
      <3> SUFFICES ASSUME y \in Lay(o, d, B) PROVE FALSE
        OBVIOUS
      <3>1. y[2] = d /\ y[3] \in B
        BY <1>1, LayMember
      <3>2. c = d
        BY <2>1, <3>1
      <3> QED BY <2>1, <3>1, <3>2, ExchangedApart
    <2>4. y[1] \in Branches(problem, r)
      BY <1>1, <1>2, <2>2, <2>3, LayMember
    <2> QED BY <2>4 DEF Branches, OccupancyUnit
  <1>4. <<r, c, p>> \in f
    <2>1. <<r, c, p>> \in Lay(r, c, W)
      BY <1>1, AtMember DEF Lay, Branches
    <2> QED BY <1>2, <2>1
  <1> DEFINE z == <<r, c, p>>
  <1>5. z \in f /\ z[1] = r /\ <<z[2], z[3]>> = <<c, p>> /\ k \in problem.classes[z[1]]
    BY <1>4
  <1> HIDE DEF z
  <1> QED BY <1>3, <1>5 DEF Units

LEMMA ExchangeOccupancy ==
    ASSUME Edited, NEW f, NEW r, NEW d, NEW B, NEW o, NEW c, NEW W, Exchange(f, r, d, B, o, c, W),
           Branches(problem, r) \cap Branches(problem, o) = {}
    PROVE  ClassesFullyOccupied(problem, f)
  <1> SUFFICES ASSUME NEW k \in problem.class, NEW slot \in Slots(problem)
               PROVE  Cardinality(Units(problem, f, k, slot)) = 1
    BY DEF ClassesFullyOccupied, Units
  <1> DEFINE e == slot[1]
             p == slot[2]
  <1>1. /\ r \in problem.req /\ o \in problem.req /\ problem.classes[o] = problem.classes[r]
        /\ slot = <<e, p>>
    BY DEF Exchange, Slots
  <1> HIDE DEF e, p
  <1>2. CASE e = c /\ p \in W /\ k \in problem.classes[r]
    <2>1. Units(problem, f, k, <<c, p>>) = {OccupancyUnit(problem, r)}
      BY <1>2, ComesAlone
    <2> QED BY <1>1, <1>2, <2>1, FS_Singleton
  <1>3. CASE e = d /\ p \in B /\ k \in problem.classes[r]
    <2>1. Exchange(f, o, c, W, r, d, B)
      BY ExchangeSymmetric
    <2>2. Units(problem, f, k, <<d, p>>) = {OccupancyUnit(problem, o)}
      BY <1>1, <1>3, <2>1, ComesAlone
    <2> QED BY <1>1, <1>3, <2>2, FS_Singleton
  <1>4. CASE /\ ~(e = c /\ p \in W /\ k \in problem.classes[r])
             /\ ~(e = d /\ p \in B /\ k \in problem.classes[r])
    <2>1. f = Rest(r, d, B, o, c, W) \cup Lay(r, c, W) \cup Lay(o, d, B)
      BY ExchangeParts
    <2>2. ASSUME NEW y, <<y[2], y[3]>> = <<e, p>>, k \in problem.classes[y[1]]
          PROVE  /\ y \notin Lay(r, d, B) /\ y \notin Lay(r, c, W)
                 /\ y \notin Lay(o, d, B) /\ y \notin Lay(o, c, W)
      <3>1. y[2] = e /\ y[3] = p
        BY <2>2
      <3> QED BY <1>1, <1>4, <2>2, <3>1, LayMember
    <2>3. Units(problem, f, k, <<e, p>>) = Units(problem, entries, k, <<e, p>>)
      BY <2>1, <2>2 DEF Rest, Units
    <2>4. ClassesFullyOccupied(problem, entries)
      BY DEF Edited, Verified
    <2>5. Cardinality(Units(problem, entries, k, slot)) = 1
      BY <2>4 DEF ClassesFullyOccupied, Units
    <2> QED BY <1>1, <2>3, <2>5
  <1> QED BY <1>2, <1>3, <1>4

LEMMA ExchangeVerified ==
    ASSUME Edited, SplitsShareNoResource,
           NEW f, NEW r, NEW d, NEW B, NEW o, NEW c, NEW W, Exchange(f, r, d, B, o, c, W)
    PROVE  Verified(problem, f)
  <1>1. CASE Branches(problem, r) \cap Branches(problem, o) # {}
    <2>1. f = entries
      BY <1>1, ExchangeInSplit
    <2> QED BY <2>1 DEF Edited
  <1>2. CASE Branches(problem, r) \cap Branches(problem, o) = {}
    <2>1. TeachersNotDoubleBooked(problem, f) /\ GroupsNotDoubleBooked(problem, f)
      BY ExchangeNoClash DEF TeachersNotDoubleBooked, GroupsNotDoubleBooked
    <2>2. WeeklyLessonsPlaced(problem, f)
      BY <1>2, ExchangeWeekly
    <2>3. TeachersAvailable(problem, f) /\ FixedPlacementsRespected(problem, f)
      BY ExchangeRespects
    <2>4. RequiredBlocksKept(problem, f)
      BY DEF Exchange
    <2>5. ReservedBlocksRespected(problem, f)
      BY ExchangeReserved
    <2>6. SplitsSynchronized(problem, f)
      BY ExchangeSynchronized
    <2>7. ResourceCapacityKept(problem, f)
      BY ExchangeCapacity
    <2>8. ClassesFullyOccupied(problem, f)
      BY <1>2, ExchangeOccupancy
    <2>9. \A a \in problem.req : DailyCapKept(problem, f, a)
      BY ExchangeCaps
    <2> QED BY <2>1, <2>2, <2>3, <2>4, <2>5, <2>6, <2>7, <2>8, <2>9 DEF Verified
  <1> QED BY <1>1, <1>2

(***************************************************************************)
(* What the solver returns.                                                *)
(***************************************************************************)
\* A timetable that is built from lessons.
Built(pr, L, e) == pr \in Problems /\ HardModel(pr, L) /\ e = L \cup ReservedEntries(pr)

LEMMA SolutionsAreBuilt ==
    ASSUME NEW pr \in Problems, pr \in SolverProblems, NEW e \in Solutions[pr]
    PROVE  \E L : Built(pr, L, e)
  <1>1. PICK f \in Candidates(pr) : HardModel(pr, LessonsOf(pr, f)) /\ e = BuiltEntries(pr, f)
    BY DEF Solutions
  <1> QED BY <1>1 DEF Built, BuiltEntries

LEMMA BuiltFacts ==
    ASSUME NEW pr, NEW L, NEW e, Built(pr, L, e)
    PROVE  /\ pr \in Problems /\ L \subseteq Lessons(pr)
           /\ e \subseteq Lessons(pr) \cup ReservedEntries(pr) /\ Triples(e)
           /\ IsFiniteSet(e) /\ IsFiniteSet(L)
  <1>1. pr \in Problems /\ L \subseteq Lessons(pr) /\ e \subseteq Lessons(pr) \cup ReservedEntries(pr)
    BY DEF Built, HardModel
  <1>2. IsFiniteSet(e) /\ IsFiniteSet(L)
    BY <1>1, GridFinite
  <1> QED BY <1>1, <1>2, GridIsStorable

LEMMA BuiltLessons ==
    ASSUME NEW pr, NEW L, NEW e, Built(pr, L, e), NEW x \in e
    PROVE  /\ x \in L <=> x[1] \in pr.req
           /\ x \in ReservedEntries(pr) <=> x[1] \in pr.reserved
           /\ x[1] \in pr.req \/ x[1] \in pr.reserved
           /\ x = <<x[1], x[2], x[3]>> /\ x[2] \in pr.day /\ x[3] \in Periods(pr)
  <1>1. pr \in Problems /\ L \subseteq Lessons(pr) /\ Triples(e) /\ e = L \cup ReservedEntries(pr)
    BY BuiltFacts DEF Built
  <1>2. pr.req \cap pr.reserved = {}
    BY <1>1, ProblemAssumption
  <1>3. x \in L => x[1] \in pr.req /\ x[2] \in pr.day /\ x[3] \in Periods(pr)
    BY <1>1 DEF Lessons
  <1>4. x \in ReservedEntries(pr) => x[1] \in pr.reserved /\ x[2] \in pr.day /\ x[3] \in Periods(pr)
    BY <1>1 DEF ReservedEntries
  <1>5. x = <<x[1], x[2], x[3]>>
    BY <1>1 DEF Triples
  <1> QED BY <1>1, <1>2, <1>3, <1>4, <1>5

\* Of two different members a set has a cardinality of two at least.
LEMMA OneMember ==
    ASSUME NEW S, IsFiniteSet(S), Cardinality(S) <= 1, NEW x \in S, NEW y \in S
    PROVE  x = y
  <1> SUFFICES ASSUME x # y PROVE FALSE
    OBVIOUS
  <1>1. IsFiniteSet({x, y}) /\ Cardinality({x, y}) = 2
    <2>1. IsFiniteSet({x}) /\ Cardinality({x}) = 1 /\ y \notin {x}
      BY FS_Singleton
    <2>2. IsFiniteSet({x} \cup {y}) /\ Cardinality({x} \cup {y}) = Cardinality({x}) + 1
      BY <2>1, FS_AddElement
    <2>3. {x} \cup {y} = {x, y}
      OBVIOUS
    <2> QED BY <2>1, <2>2, <2>3
  <1>2. {x, y} \in SUBSET S
    OBVIOUS
  <1>3. Cardinality({x, y}) <= Cardinality(S)
    BY <1>1, <1>2, FS_Subset
  <1>4. Cardinality(S) \in Nat
    BY FS_CardinalityType
  <1> QED BY <1>1, <1>3, <1>4

LEMMA BuiltReserved ==
    ASSUME NEW pr, NEW L, NEW e, Built(pr, L, e), NEW x \in e, x[1] \in pr.reserved
    PROVE  x[1] \in ReservedAt(pr, x[2], x[3])
  <1>1. x \in ReservedEntries(pr)
    BY BuiltLessons
  <1> QED BY <1>1 DEF ReservedEntries, ReservedAt

LEMMA BuiltTeachers ==
    ASSUME NEW pr, NEW L, NEW e, Built(pr, L, e), NEW x \in e, x[1] \in pr.req, NEW y \in e, x # y, SameSlot(x, y)
    PROVE  pr.teacher[x[1]] # pr.teacher[y[1]]
  <1> SUFFICES ASSUME pr.teacher[x[1]] = pr.teacher[y[1]] PROVE FALSE
    OBVIOUS
  <1> DEFINE d == x[2]
             p == x[3]
             t == pr.teacher[x[1]]
             S == {z \in LessonsAt(L, d, p) : pr.teacher[z[1]] = t}
             reserved == IF \E b \in ReservedAt(pr, d, p) : pr.teacher[b] = t THEN 1 ELSE 0
  <1>1. x \in L /\ d \in pr.day /\ p \in Periods(pr) /\ y[2] = d /\ y[3] = p
    BY BuiltLessons DEF SameSlot
  <1>2. Cardinality(S) + reserved <= 1
    <2>1. TeacherNonOverlap(pr, L) /\ t \in {pr.teacher[r] : r \in pr.req}
      BY DEF Built, HardModel
    <2> HIDE DEF d, p, t
    <2> QED BY <1>1, <2>1 DEF TeacherNonOverlap
  <1>3. x \in S /\ S \in SUBSET L
    BY <1>1 DEF LessonsAt
  <1>4. IsFiniteSet(S)
    <2>1. IsFiniteSet(L)
      BY BuiltFacts
    <2> HIDE DEF S
    <2> QED BY <1>3, <2>1, FS_Subset
  <1>5. CASE y[1] \in pr.req
    <2>1. y \in S
      BY <1>1, <1>5, BuiltLessons DEF LessonsAt
    <2>2. reserved \in {0, 1} /\ Cardinality(S) \in Nat
      BY <1>4, FS_CardinalityType
    <2> HIDE DEF S, reserved
    <2>3. Cardinality(S) <= 1
      BY <1>2, <2>2
    <2> QED BY <1>3, <1>4, <2>1, <2>3, OneMember
  <1>6. CASE y[1] \in pr.reserved
    <2>1. reserved = 1
      BY <1>1, <1>6, BuiltReserved
    <2>2. Cardinality(S) \in Nat
      BY <1>4, FS_CardinalityType
    <2> HIDE DEF S, reserved
    <2>3. Cardinality(S) = 0
      BY <1>2, <2>1, <2>2
    <2> QED BY <1>3, <1>4, <2>3, FS_EmptySet
  <1> QED BY <1>5, <1>6, BuiltLessons

LEMMA BuiltTeachersNotDoubleBooked ==
    ASSUME NEW pr, NEW L, NEW e, Built(pr, L, e) PROVE TeachersNotDoubleBooked(pr, e)
  <1> SUFFICES ASSUME NEW x \in e, NEW y \in e, x # y, SameSlot(x, y), pr.teacher[x[1]] # None
               PROVE  pr.teacher[x[1]] # pr.teacher[y[1]]
    BY DEF TeachersNotDoubleBooked
  <1>1. CASE x[1] \in pr.req
    BY <1>1, BuiltTeachers
  <1>2. CASE y[1] \in pr.req
    <2>1. pr.teacher[y[1]] # pr.teacher[x[1]]
      <3>1. SameSlot(y, x)
        BY DEF SameSlot
      <3> QED BY <1>2, <3>1, BuiltTeachers
    <2> QED BY <2>1
  <1>3. CASE x[1] \in pr.reserved /\ y[1] \in pr.reserved
    <2>1. /\ x = <<x[1], x[2], x[3]>> /\ y = <<y[1], y[2], y[3]>> /\ x[2] \in pr.day /\ x[3] \in Periods(pr)
      BY BuiltLessons
    <2>2. y[2] = x[2] /\ y[3] = x[3]
      BY DEF SameSlot
    <2>3. x[1] # y[1]
      BY <2>1, <2>2
    <2>4. x[1] \in ReservedAt(pr, x[2], x[3]) /\ y[1] \in ReservedAt(pr, x[2], x[3])
      BY <1>3, <2>2, BuiltReserved
    <2>5. pr \in Problems
      BY DEF Built
    <2> QED BY <2>1, <2>3, <2>4, <2>5, ReservedAssumption
  <1> QED BY <1>1, <1>2, <1>3, BuiltLessons

LEMMA BuiltGroupsNotDoubleBooked ==
    ASSUME NEW pr, NEW L, NEW e, Built(pr, L, e) PROVE GroupsNotDoubleBooked(pr, e)
  <1> SUFFICES ASSUME NEW x \in e, NEW y \in e, x # y, SameSlot(x, y), pr.group[x[1]] # None,
                      pr.group[x[1]] = pr.group[y[1]]
               PROVE  FALSE
    BY DEF GroupsNotDoubleBooked
  <1> DEFINE d == x[2]
             p == x[3]
             S == {z \in LessonsAt(L, d, p) : pr.group[z[1]] = pr.group[x[1]]}
  <1>1. pr \in Problems
    BY DEF Built
  <1>2. x[1] \in pr.req /\ y[1] \in pr.req
    BY <1>1, ReservedAssumption, BuiltLessons
  <1>3. x \in L /\ y \in L /\ d \in pr.day /\ p \in Periods(pr) /\ y[2] = d /\ y[3] = p
    BY <1>2, BuiltLessons DEF SameSlot
  <1>4. Cardinality(S) <= 1
    BY <1>2, <1>3 DEF Built, HardModel, GroupNonOverlap
  <1>5. x \in S /\ y \in S /\ S \in SUBSET L
    BY <1>3 DEF LessonsAt
  <1>6. IsFiniteSet(L)
    BY BuiltFacts
  <1> HIDE DEF S
  <1>7. IsFiniteSet(S)
    BY <1>5, <1>6, FS_Subset
  <1> QED BY <1>4, <1>5, <1>7, OneMember

\* What a requirement has is what the lessons give it.
LEMMA BuiltOfRequirement ==
    ASSUME NEW pr, NEW L, NEW e, Built(pr, L, e), NEW r \in pr.req
    PROVE  /\ {x \in e : x[1] = r} = {x \in L : x[1] = r}
           /\ \A d : PeriodsOn(e, r, d) = PeriodsOn(L, r, d)
  <1>1. \A x \in e : x[1] = r => x \in L
    BY BuiltLessons
  <1>2. L \subseteq e
    BY DEF Built
  <1>3. {x \in e : x[1] = r} = {x \in L : x[1] = r}
    BY <1>1, <1>2
  <1>4. ASSUME NEW d
        PROVE  PeriodsOn(e, r, d) = PeriodsOn(L, r, d)
    <2>1. {y \in e : y[1] = r /\ y[2] = d} = {y \in L : y[1] = r /\ y[2] = d}
      BY <1>1, <1>2
    <2> QED BY <2>1 DEF PeriodsOn
  <1> QED BY <1>3, <1>4

LEMMA BuiltWeekly ==
    ASSUME NEW pr, NEW L, NEW e, Built(pr, L, e) PROVE WeeklyLessonsPlaced(pr, e)
  <1> SUFFICES ASSUME NEW r \in pr.req PROVE Cardinality({x \in e : x[1] = r}) = pr.weekly[r]
    BY DEF WeeklyLessonsPlaced
  <1>1. Cardinality({x \in L : x[1] = r}) = pr.weekly[r]
    BY DEF Built, HardModel, WeeklyFulfillment
  <1>2. {x \in e : x[1] = r} = {x \in L : x[1] = r}
    BY BuiltOfRequirement
  <1> QED BY <1>1, <1>2

LEMMA BuiltRespects ==
    ASSUME NEW pr, NEW L, NEW e, Built(pr, L, e)
    PROVE  TeachersAvailable(pr, e) /\ FixedPlacementsRespected(pr, e) /\ ReservedBlocksRespected(pr, e)
  <1>1. /\ e = L \cup ReservedEntries(pr) /\ pr \in Problems
        /\ \A x \in L : LessonPossible(pr, x)
        /\ FixedPlacements(pr, L)
    BY DEF Built, HardModel
  <1>2. TeachersAvailable(pr, e)
    BY <1>1, ReservedAssumption DEF TeachersAvailable, LessonPossible
  <1>3. FixedPlacementsRespected(pr, e)
    BY <1>1 DEF FixedPlacements, FixedPlacementsRespected
  <1>4. ASSUME NEW b \in ReservedEntries(pr), NEW x \in e, x[1] \in pr.req, SameSlot(x, b)
        PROVE  pr.classes[x[1]] \cap pr.classes[b[1]] = {}
    <2>1. x \in L
      BY <1>4, BuiltLessons
    <2>2. b[1] \in ReservedAt(pr, x[2], x[3])
      <3>1. b \in e /\ b[1] \in pr.reserved
        BY <1>1, BuiltLessons
      <3>2. b[1] \in ReservedAt(pr, b[2], b[3])
        BY <3>1, BuiltReserved
      <3> QED BY <1>4, <3>2 DEF SameSlot
    <2> QED BY <1>1, <2>1, <2>2 DEF LessonPossible, ReservedForClass
  <1>5. ReservedBlocksRespected(pr, e)
    BY <1>1, <1>4 DEF ReservedBlocksRespected
  <1> QED BY <1>2, <1>3, <1>5

LEMMA BuiltSynchronized ==
    ASSUME NEW pr, NEW L, NEW e, Built(pr, L, e) PROVE SplitsSynchronized(pr, e)
  <1> SUFFICES ASSUME NEW a \in pr.req, NEW b \in Branches(pr, a)
               PROVE  {<<x[2], x[3]>> : x \in {y \in e : y[1] = a}} = {<<x[2], x[3]>> : x \in {y \in e : y[1] = b}}
    BY DEF SplitsSynchronized
  <1>1. Triples(e) /\ b \in pr.req
    BY BuiltFacts DEF Branches
  <1>2. ASSUME NEW d
        PROVE  PeriodsOn(e, a, d) = PeriodsOn(e, b, d)
    <2>1. CASE d \in pr.day
      <3>1. PeriodsOn(L, a, d) = PeriodsOn(L, b, d)
        BY <2>1 DEF Built, HardModel, SplitSync
      <3> QED BY <1>1, <3>1, BuiltOfRequirement
    <2>2. CASE d \notin pr.day
      <3>1. \A x \in e : x[2] # d
        BY <2>2, BuiltLessons
      <3> QED BY <3>1 DEF PeriodsOn
    <2> QED BY <2>1, <2>2
  <1> QED BY <1>1, <1>2, SlotsByDay

LEMMA BuiltCaps ==
    ASSUME NEW pr, NEW L, NEW e, Built(pr, L, e), NEW r \in pr.req PROVE DailyCapKept(pr, e, r)
  <1>1. DailyCapKept(pr, L, r)
    BY DEF Built, HardModel, MaxPeriodsPerDay
  <1> QED BY <1>1, BuiltOfRequirement DEF DailyCapKept

\* The periods of a day of a REQUIRED requirement are a window of it.
LEMMA WindowFilled ==
    ASSUME NEW pr, Periods(pr) \subseteq Nat, IsFiniteSet(Periods(pr)), NEW L, NEW r, NEW d,
           PeriodsOn(L, r, d) \subseteq Periods(pr),
           NEW k \in Nat \ {0, 1}, Cardinality(PeriodsOn(L, r, d)) = k,
           Cardinality(FullWindows(pr, L, r, d, k)) = 1
    PROVE  IsRun(pr, PeriodsOn(L, r, d))
  <1> DEFINE S == PeriodsOn(L, r, d)
             windows == FullWindows(pr, L, r, d, k)
  <1>1. windows \in SUBSET Periods(pr)
    BY DEF FullWindows
  <1>2. windows # {}
    <2>1. Cardinality({}) = 0
      BY FS_EmptySet
    <2> QED BY <2>1
  <1>3. PICK p \in Periods(pr) : IsRun(pr, p .. p + k - 1) /\ p .. p + k - 1 \subseteq S
    BY <1>2 DEF FullWindows
  <1> DEFINE window == p .. p + k - 1
  <1>4. p \in Int /\ k \in Int
    OBVIOUS
  <1>5. IsFiniteSet(window) /\ Cardinality(window) = k
    <2> DEFINE b == p + k - 1
    <2>1. b \in Int /\ p <= b /\ b - p + 1 = k
      BY <1>4
    <2> HIDE DEF b
    <2>2. IsFiniteSet(p .. b) /\ Cardinality(p .. b) = IF p > b THEN 0 ELSE b - p + 1
      BY <1>4, <2>1, FS_Interval
    <2>3. IsFiniteSet(p .. b) /\ Cardinality(p .. b) = k
      BY <1>4, <2>1, <2>2
    <2> QED BY <2>3 DEF b
  <1>6. IsFiniteSet(S)
    BY FS_Subset
  <1>7. window = S
    <2>1. window \in SUBSET S /\ Cardinality(window) = Cardinality(S)
      BY <1>3, <1>5
    <2> HIDE DEF window, S
    <2> QED BY <1>6, <2>1, FS_Subset
  <1> QED BY <1>3, <1>7

LEMMA BuiltBlocks ==
    ASSUME NEW pr, NEW L, NEW e, Built(pr, L, e), NEW r \in pr.req, pr.mode[r] = "REQUIRED", NEW d \in pr.day
    PROVE  IsRun(pr, PeriodsOn(e, r, d))
  <1> DEFINE Count(length) == Cardinality({i \in DOMAIN pr.sizes[r] : pr.sizes[r][i] = length})
             DaysWith(length) == {b \in pr.day : Cardinality(PeriodsOn(L, r, b)) = length}
             Lengths == Range(pr.sizes[r])
             S == PeriodsOn(L, r, d)
             k == Cardinality(S)
  <1>1. /\ k \in Lengths \cup {0}
        /\ \A length \in Lengths \ {1} :
               Cardinality(FullWindows(pr, L, r, d, length)) = IF d \in DaysWith(length) THEN 1 ELSE 0
    <2>1. RequiredBlocks(pr, L)
      BY DEF Built, HardModel
    <2> HIDE DEF Count
    <2> QED BY <2>1 DEF RequiredBlocks
  <1>2. pr \in Problems /\ L \subseteq Lessons(pr)
    BY BuiltFacts
  <1>3. S \subseteq Periods(pr) /\ Periods(pr) \subseteq Nat /\ IsFiniteSet(Periods(pr))
    BY <1>2, ProblemAssumption DEF PeriodsOn, Lessons
  <1>4. IsFiniteSet(S) /\ k \in Nat
    BY <1>3, FS_Subset, FS_CardinalityType
  <1>5. S = PeriodsOn(e, r, d)
    BY BuiltOfRequirement
  <1>6. IsRun(pr, S)
    <2>1. CASE k = 0
      <3>1. S = {}
        BY <1>4, <2>1, FS_EmptySet
      <3> QED BY <3>1 DEF IsRun
    <2>2. CASE k = 1
      <3>1. PICK p : S = {p}
        BY <1>4, <2>2, FS_Singleton
      <3>2. p \in Nat
        BY <1>3, <3>1
      <3>3. p .. p = {p}
        BY <3>2
      <3> HIDE DEF S
      <3> QED BY <1>3, <3>1, <3>3 DEF IsRun
    <2>3. CASE k \in Nat \ {0, 1}
      <3>1. k \in Lengths \ {1} /\ d \in DaysWith(k)
        BY <1>1, <2>3
      <3>2. Cardinality(FullWindows(pr, L, r, d, k)) = 1
        BY <1>1, <3>1
      <3> QED BY <1>3, <2>3, <3>2, WindowFilled
    <2> QED BY <1>4, <2>1, <2>2, <2>3
  <1> QED BY <1>5, <1>6

LEMMA BuiltBlocksKept ==
    ASSUME NEW pr, NEW L, NEW e, Built(pr, L, e) PROVE RequiredBlocksKept(pr, e)
  <1> SUFFICES ASSUME NEW r \in pr.req, pr.mode[r] = "REQUIRED", NEW n \in 1 .. Cardinality(Periods(pr))
               PROVE  Cardinality({d \in pr.day : Cardinality(PeriodsOn(e, r, d)) = n})
                          = Cardinality({i \in DOMAIN pr.sizes[r] : pr.sizes[r][i] = n})
    BY BuiltBlocks DEF RequiredBlocksKept
  <1> DEFINE Sizes(length) == {i \in DOMAIN pr.sizes[r] : pr.sizes[r][i] = length}
             DaysWith(length) == {b \in pr.day : Cardinality(PeriodsOn(L, r, b)) = length}
             Lengths == Range(pr.sizes[r])
  <1>1. /\ \A d \in pr.day : Cardinality(PeriodsOn(L, r, d)) \in Lengths \cup {0}
        /\ \A length \in Lengths : Cardinality(DaysWith(length)) = Cardinality(Sizes(length))
    <2>1. RequiredBlocks(pr, L)
      BY DEF Built, HardModel
    <2> QED BY <2>1 DEF RequiredBlocks
  <1>2. {d \in pr.day : Cardinality(PeriodsOn(e, r, d)) = n} = DaysWith(n)
    BY BuiltOfRequirement
  <1>3. CASE n \in Lengths
    BY <1>1, <1>2, <1>3
  <1>4. CASE n \notin Lengths
    <2>1. n # 0
      BY FS_CardinalityType
    <2>2. DaysWith(n) = {}
      BY <1>1, <1>4, <2>1
    <2>3. Sizes(n) = {}
      BY <1>4 DEF Range
    <2> HIDE DEF Sizes, DaysWith
    <2> QED BY <1>2, <2>2, <2>3 DEF Sizes
  <1> QED BY <1>3, <1>4

\* What uses a resource in a slot are lessons and reserved blocks.
LEMMA BuiltCapacity ==
    ASSUME NEW pr, NEW L, NEW e, Built(pr, L, e) PROVE ResourceCapacityKept(pr, e)
  <1> SUFFICES ASSUME NEW x \in e, pr.resource[x[1]] # None
               PROVE  ResourceUse(pr, e, pr.resource[x[1]], x[2], x[3]) <= pr.capacity[pr.resource[x[1]]]
    BY DEF ResourceCapacityKept
  <1> DEFINE res == pr.resource[x[1]]
             d == x[2]
             p == x[3]
             capacity == pr.capacity[res]
             Using(f) == {y \in f : pr.resource[y[1]] = res /\ y[2] = d /\ y[3] = p}
             blocks == {b \in ReservedAt(pr, d, p) : pr.resource[b] = res}
             taken == At(blocks, d, {p})
             reserved == Cardinality(blocks)
             used == Cardinality(Using(L))
  <1>1. /\ pr \in Problems /\ e = L \cup ReservedEntries(pr) /\ ResourceCapacity(pr, L)
        /\ x[1] \in pr.req \cup pr.reserved /\ d \in pr.day /\ p \in Periods(pr)
    BY BuiltLessons DEF Built, HardModel
  <1>2. capacity \in Nat
    BY <1>1, ProblemAssumption
  <1>3. IsFiniteSet(blocks) /\ reserved \in Nat
    <2>1. IsFiniteSet(pr.reserved) /\ blocks \in SUBSET pr.reserved
      BY <1>1, ProblemAssumption DEF ReservedAt
    <2> HIDE DEF blocks
    <2> QED BY <2>1, FS_Subset, FS_CardinalityType
  <1>4. IsFiniteSet(Using(L)) /\ used \in Nat
    <2>1. IsFiniteSet(L) /\ Using(L) \in SUBSET L
      BY BuiltFacts
    <2> HIDE DEF Using
    <2> QED BY <2>1, FS_Subset, FS_CardinalityType
  <1>5. blocks # {} => reserved <= capacity
    <2> SUFFICES ASSUME NEW b \in blocks PROVE reserved <= capacity
      OBVIOUS
    <2>1. b \in ReservedAt(pr, d, p) /\ pr.resource[b] = res
      OBVIOUS
    <2>2. d \in pr.day /\ p \in Periods(pr) /\ pr \in Problems
      BY <1>1
    <2>3. pr.resource[b] # None
      BY <2>1
    <2>4. Cardinality({a \in ReservedAt(pr, d, p) : pr.resource[a] = pr.resource[b]})
             <= pr.capacity[pr.resource[b]]
      <3> HIDE DEF d, p, res
      <3> QED BY <2>1, <2>2, <2>3, ReservedAssumption
    <2> QED BY <2>1, <2>4
  <1>6. blocks = {} => reserved = 0
    BY FS_EmptySet
  <1>7. used <= (IF capacity - reserved >= 0 THEN capacity - reserved ELSE 0)
    <2>1. CASE res \in {pr.resource[r] : r \in pr.req}
      <3>1. used <= Max({0, capacity - reserved})
        <4>1. used = ResourceUse(pr, L, res, d, p)
          BY DEF ResourceUse
        <4>2. res \in {pr.resource[r] : r \in pr.req} \ {None}
          BY <2>1
        <4> HIDE DEF used, res, d, p
        <4> QED BY <1>1, <4>1, <4>2 DEF ResourceCapacity
      <3>2. capacity - reserved \in Int
        BY <1>2, <1>3
      <3>3. Max({0, capacity - reserved}) = IF capacity - reserved >= 0 THEN capacity - reserved ELSE 0
        <4> DEFINE i == capacity - reserved
        <4>1. i \in Int
          BY <3>2
        <4> HIDE DEF i
        <4>2. \E z \in {0, i} : \A y \in {0, i} : z >= y
          BY <4>1
        <4>3. Max({0, i}) \in {0, i} /\ \A y \in {0, i} : Max({0, i}) >= y
          BY <4>2 DEF Max
        <4>4. Max({0, i}) = IF i >= 0 THEN i ELSE 0
          BY <4>1, <4>3
        <4> QED BY <4>4 DEF i
      <3> QED BY <3>1, <3>3
    <2>2. CASE res \notin {pr.resource[r] : r \in pr.req}
      <3>1. L \subseteq Lessons(pr)
        BY BuiltFacts
      <3>2. Using(L) = {}
        BY <2>2, <3>1 DEF Lessons
      <3>3. used = 0
        BY <3>2, FS_EmptySet
      <3> QED BY <1>2, <1>3, <3>3
    <2> QED BY <2>1, <2>2
  <1>8. Using(e) \in SUBSET (Using(L) \cup taken)
    <2> SUFFICES ASSUME NEW y \in e, pr.resource[y[1]] = res, y[2] = d, y[3] = p, y \notin L
                 PROVE  y \in taken
      OBVIOUS
    <2>1. y = <<y[1], y[2], y[3]>> /\ y[1] \in pr.reserved
      BY BuiltLessons
    <2>2. y[1] \in blocks
      BY <2>1, BuiltReserved
    <2> HIDE DEF d, p, blocks
    <2> QED BY <2>1, <2>2, AtMember
  <1>9. IsFiniteSet(taken) /\ Cardinality(taken) = reserved
    <2> DEFINE g == [b \in blocks |-> <<b, d, p>>]
    <2>1. g \in Bijection(blocks, taken)
      <3>1. \A b \in blocks : g[b] \in taken /\ g[b][1] = b
        BY DEF At
      <3>2. \A z \in taken : z[1] \in blocks /\ g[z[1]] = z
        BY DEF At
      <3>3. g \in [blocks -> taken]
        BY <3>1
      <3> HIDE DEF g, taken, blocks
      <3> QED BY <3>1, <3>2, <3>3 DEF Bijection, Injection, IsInjective, Surjection
    <2> HIDE DEF g, taken, blocks
    <2>2. ExistsBijection(blocks, taken)
      BY <2>1 DEF ExistsBijection
    <2> QED BY <1>3, <2>2, FS_Bijection DEF reserved
  <1>10. Cardinality(Using(e)) <= used + reserved
    <2> DEFINE U == Using(e)
               V == Using(L)
    <2> HIDE DEF U, V, Using, taken
    <2>1. IsFiniteSet(V \cup taken) /\ Cardinality(V \cup taken) = Cardinality(V) + Cardinality(taken) - Cardinality(V \cap taken)
      BY <1>4, <1>9, FS_Union DEF V
    <2>2. IsFiniteSet(V \cap taken)
      <3>1. V \cap taken \in SUBSET taken
        OBVIOUS
      <3> QED BY <1>9, <3>1, FS_Subset
    <2>3. Cardinality(V \cap taken) \in Nat
      BY <2>2, FS_CardinalityType
    <2>4. IsFiniteSet(U) /\ Cardinality(U) <= Cardinality(V \cup taken)
      BY <1>8, <2>1, FS_Subset DEF U, V
    <2>5. Cardinality(V) = used /\ Cardinality(taken) = reserved
      BY <1>9 DEF V, used
    <2> HIDE DEF used, reserved
    <2>6. Cardinality(U) \in Nat /\ Cardinality(V \cup taken) \in Nat
      BY <2>1, <2>4, FS_CardinalityType
    <2>7. Cardinality(U) <= used + reserved
      BY <1>3, <1>4, <2>1, <2>3, <2>4, <2>5, <2>6
    <2> QED BY <2>7 DEF U
  <1>11. Cardinality(Using(e)) \in Nat
    <2>1. IsFiniteSet(e) /\ Using(e) \in SUBSET e
      BY BuiltFacts
    <2> HIDE DEF Using
    <2> QED BY <2>1, FS_Subset, FS_CardinalityType
  <1>12. ResourceUse(pr, e, res, d, p) = Cardinality(Using(e))
    BY DEF ResourceUse
  <1> DEFINE n == Cardinality(Using(e))
  <1> HIDE DEF used, reserved, capacity, n, blocks
  <1>13. n \in Nat /\ n <= used + reserved
    BY <1>10, <1>11 DEF n
  <1>14. n <= capacity
    BY <1>2, <1>3, <1>4, <1>5, <1>6, <1>7, <1>13
  <1> QED BY <1>12, <1>14 DEF n, capacity

LEMMA BuiltOccupancy ==
    ASSUME NEW pr, NEW L, NEW e, Built(pr, L, e) PROVE ClassesFullyOccupied(pr, e)
  <1> SUFFICES ASSUME NEW k \in pr.class, NEW slot \in Slots(pr)
               PROVE  Cardinality(Units(pr, e, k, slot)) = 1
    BY DEF ClassesFullyOccupied, Units
  <1> DEFINE d == slot[1]
             p == slot[2]
  <1>1. /\ slot = <<d, p>> /\ d \in pr.day /\ p \in Periods(pr)
        /\ pr \in Problems /\ e = L \cup ReservedEntries(pr)
        /\ ClassOccupancy(pr, L) /\ SplitSync(pr, L) /\ \A x \in L : LessonPossible(pr, x)
    BY DEF Slots, Built, HardModel
  <1> HIDE DEF d, p
  <1>2. CASE ReservedForClass(pr, k, d, p)
    <2>1. PICK b \in ReservedAt(pr, d, p) : k \in pr.classes[b]
      BY <1>2 DEF ReservedForClass
    <2>2. ASSUME NEW y \in e, <<y[2], y[3]>> = slot, k \in pr.classes[y[1]]
          PROVE  y[1] = b
      <3>1. y[2] = d /\ y[3] = p
        BY <1>1, <2>2
      <3>2. y \notin L
        BY <1>1, <1>2, <2>2, <3>1 DEF LessonPossible
      <3>3. y[1] \in ReservedAt(pr, d, p)
        BY <3>1, <3>2, BuiltLessons, BuiltReserved
      <3> QED BY <1>1, <2>1, <2>2, <3>3, ReservedAssumption
    <2> DEFINE z == <<b, d, p>>
    <2>3. z \in e /\ z[1] = b /\ <<z[2], z[3]>> = slot
      BY <1>1, <2>1 DEF ReservedAt, ReservedEntries
    <2> HIDE DEF z
    <2>4. Units(pr, e, k, slot) = {OccupancyUnit(pr, b)}
      BY <2>1, <2>2, <2>3 DEF Units
    <2> QED BY <2>4, FS_Singleton
  <1>3. CASE ~ReservedForClass(pr, k, d, p)
    <2> DEFINE S == {x \in LessonsAt(L, d, p) : k \in pr.classes[x[1]] /\ IsRepresentative(pr, x[1])}
    <2>1. Cardinality(S) = 1
      BY <1>1, <1>3 DEF ClassOccupancy
    <2>2. IsFiniteSet(S)
      <3>1. IsFiniteSet(L) /\ S \in SUBSET L
        BY BuiltFacts DEF LessonsAt
      <3> HIDE DEF S
      <3> QED BY <3>1, FS_Subset
    <2>3. PICK z : S = {z}
      BY <2>1, <2>2, FS_Singleton
    <2>4. z \in L /\ z[2] = d /\ z[3] = p /\ k \in pr.classes[z[1]]
      BY <2>3 DEF LessonsAt
    <2>5. ASSUME NEW y \in e, <<y[2], y[3]>> = slot, k \in pr.classes[y[1]]
          PROVE  OccupancyUnit(pr, y[1]) = OccupancyUnit(pr, z[1])
      <3>1. y[2] = d /\ y[3] = p
        BY <1>1, <2>5
      <3>2. y[1] \notin pr.reserved
        BY <1>3, <2>5, <3>1, BuiltReserved DEF ReservedForClass
      <3>3. y \in L /\ y[1] \in pr.req /\ y = <<y[1], d, p>>
        BY <3>1, <3>2, BuiltLessons
      <3> DEFINE s == CHOOSE t \in Branches(pr, y[1]) : TRUE
      <3>4. s \in Branches(pr, y[1])
        <4>1. y[1] \in Branches(pr, y[1])
          BY <3>3 DEF Branches
        <4> QED BY <4>1
      <3>5. Branches(pr, s) = Branches(pr, y[1])
        BY <3>3, <3>4, BranchesOfBranch
      <3>6. IsRepresentative(pr, s)
        BY <3>5 DEF IsRepresentative
      <3> HIDE DEF s
      <3>7. pr.classes[s] = pr.classes[y[1]]
        BY <1>1, <3>3, <3>4, ProblemAssumption
      <3> DEFINE x == <<s, d, p>>
      <3>8. x \in L
        <4>1. Triples(L)
          <5>1. L \subseteq Lessons(pr) \cup ReservedEntries(pr)
            BY BuiltFacts
          <5> QED BY <5>1, GridIsStorable
        <4>2. p \in PeriodsOn(L, y[1], d)
          BY <3>3, <4>1, PeriodsOnMembers
        <4>3. p \in PeriodsOn(L, s, d)
          BY <1>1, <3>3, <3>4, <4>2 DEF SplitSync
        <4> QED BY <4>1, <4>3, PeriodsOnMembers
      <3>9. x[1] = s /\ x[2] = d /\ x[3] = p
        OBVIOUS
      <3> HIDE DEF x
      <3>10. x \in S
        BY <2>5, <3>6, <3>7, <3>8, <3>9 DEF LessonsAt
      <3>11. z[1] = s
        BY <2>3, <3>9, <3>10
      <3> QED BY <3>3, <3>4, <3>11 DEF OccupancyUnit, Branches
    <2>6. z \in e /\ <<z[2], z[3]>> = slot
      BY <1>1, <2>4
    <2> HIDE DEF S
    <2>7. Units(pr, e, k, slot) = {OccupancyUnit(pr, z[1])}
      BY <2>4, <2>5, <2>6 DEF Units
    <2> QED BY <2>7, FS_Singleton
  <1> QED BY <1>2, <1>3

(***************************************************************************)
(* Whatever the problem, what the solver's constraints accept the verifier *)
(* accepts: no generated timetable is an internal error.                   *)
(***************************************************************************)
THEOREM SolutionsAreVerified ==
    \A pr \in Problems \cap SolverProblems : \A e \in Solutions[pr] : Verified(pr, e)
  <1> SUFFICES ASSUME NEW pr \in Problems, pr \in SolverProblems, NEW e \in Solutions[pr]
               PROVE  Verified(pr, e)
    OBVIOUS
  <1>1. PICK L : Built(pr, L, e)
    BY SolutionsAreBuilt
  <1>2. TeachersNotDoubleBooked(pr, e) /\ GroupsNotDoubleBooked(pr, e)
    BY <1>1, BuiltTeachersNotDoubleBooked, BuiltGroupsNotDoubleBooked
  <1>3. WeeklyLessonsPlaced(pr, e) /\ RequiredBlocksKept(pr, e)
    BY <1>1, BuiltWeekly, BuiltBlocksKept
  <1>4. TeachersAvailable(pr, e) /\ FixedPlacementsRespected(pr, e) /\ ReservedBlocksRespected(pr, e)
    BY <1>1, BuiltRespects
  <1>5. SplitsSynchronized(pr, e) /\ ResourceCapacityKept(pr, e) /\ ClassesFullyOccupied(pr, e)
    BY <1>1, BuiltSynchronized, BuiltCapacity, BuiltOccupancy
  <1>6. \A r \in pr.req : DailyCapKept(pr, e, r)
    BY <1>1, BuiltCaps
  <1> QED BY <1>2, <1>3, <1>4, <1>5, <1>6 DEF Verified

(***************************************************************************)
(* Whatever the problems, if no two branches of a split that is edited     *)
(* share a resource (the run moves_hall shows two that do), nothing but a  *)
(* restore leaves a timetable that the verifier rejects:                   *)
(* moves, locks, reoptimizations and regenerations in any order.           *)
(***************************************************************************)
THEOREM StepsStayValid ==
    ASSUME SplitsShareNoResource
    PROVE  SolvingSpec => StepsKeepTimetableValid
  <1>1. ASSUME EditingInv, [SolvingNext]_allVars
        PROVE  [Verified(problem', entries') \/ Restore]_allVars
    <2>1. SolvingInv
      BY <1>1 DEF EditingInv
    <2>2. CASE MoveVersion
      <3>1. CASE Move
        BY <3>1 DEF Move
      <3>2. CASE ApplyMove
        <4> DEFINE m == reviewed.move
        <4>1. /\ MoveAllowed(entries, m) /\ entries' = Applied(entries, MovePlan(entries, m))
              /\ Verified(problem, entries) /\ reviewed # NoMove /\ problem' = problem
          BY <3>2 DEF ApplyMove
        <4>2. Edited
          BY <1>1, <4>1 DEF Edited, EditingInv
        <4> HIDE DEF m
        <4>3. CASE StaysPut(entries, m)
          <5>1. entries' = entries
            BY <4>1, <4>3 DEF MovePlan, NoChange, Applied
          <5> QED BY <4>1, <5>1
        <4>4. CASE ~StaysPut(entries, m)
          <5>1. Exchange(entries', m.lesson[1], m.lesson[2],
                         BlockPeriods(problem, entries, m.lesson[1], m.lesson[2], m.lesson[3]),
                         Occupant(entries, m), m.day, TargetWindow(entries, m))
            BY <4>1, <4>2, <4>4, MoveExchanges
          <5>2. Verified(problem, entries')
            BY <4>2, <5>1, ExchangeVerified
          <5> QED BY <4>1, <5>2
        <4> QED BY <4>3, <4>4
      <3> QED BY <2>2, <3>1, <3>2 DEF MoveVersion
    <2>3. CASE LockVersion
      BY <2>3 DEF LockVersion, LockOccurrence, UnlockOccurrence
    <2>4. CASE ReviewVersion
      BY <2>4 DEF ReviewVersion, ReviewMove
    <2>5. CASE Reoptimize
      <3>1. problem \in Solved /\ entries' \in Solutions[problem] /\ problem' = problem
        BY <2>5, ReoptimizedKeepsLocks DEF KeepingLocks
      <3> QED BY <3>1, SolutionsAreVerified, SolvedAssumption
    <2>6. CASE Regenerate
      <3>1. problem' \in Solved /\ entries' \in Solutions[problem']
        BY <2>1, <2>6, RegeneratedWithPins
      <3> QED BY <3>1, SolutionsAreVerified, SolvedAssumption
    <2> QED BY <1>1, <2>2, <2>3, <2>4, <2>5, <2>6 DEF SolvingNext
  <1>2. Generate => EditingInv
    BY GenerateEdited
  <1>3. EditingInv /\ [SolvingNext]_allVars => EditingInv'
    BY EditingInvKept
  <1> QED BY <1>1, <1>2, <1>3, PTL DEF SolvingSpec, StepsKeepTimetableValid

(***************************************************************************)
(* Reoptimizing a timetable that is valid.                                 *)
(***************************************************************************)
\* A PREFERRED double that is formed is one run a day.
LEMMA DoubleIsRun ==
    ASSUME NEW pr \in Problems, NEW e, PreferredDoublesFormed(pr, e),
           NEW r \in pr.req, PrefersDouble(pr, r), NEW d \in pr.day, PeriodsOn(e, r, d) \subseteq Periods(pr)
    PROVE  Cardinality(PeriodsOn(e, r, d)) <= 2 /\ IsRun(pr, PeriodsOn(e, r, d))
  <1> DEFINE S == PeriodsOn(e, r, d)
             pairs == {p \in S : p + 1 \in S /\ pr.block[p] = pr.block[p + 1]}
  <1>1. /\ Cardinality(S) <= 1 + Cardinality(pairs)
        /\ \A p, q \in pairs : p = q
    BY DEF PreferredDoublesFormed
  <1>2. IsFiniteSet(S) /\ S \in SUBSET Nat /\ Cardinality(S) \in Nat
    <2>1. Periods(pr) \subseteq Nat /\ IsFiniteSet(Periods(pr)) /\ S \in SUBSET Periods(pr)
      BY ProblemAssumption
    <2> HIDE DEF S
    <2> QED BY <2>1, FS_Subset, FS_CardinalityType
  <1>3. CASE pairs = {}
    <2>1. Cardinality(S) <= 1
      <3>1. Cardinality(pairs) = 0
        BY <1>3, FS_EmptySet
      <3> HIDE DEF S, pairs
      <3> QED BY <1>1, <1>2, <3>1
    <2>2. \A p, q \in S : p = q
      BY <1>2, <2>1, OneMember
    <2>3. \A p, q \in S : p .. q = {p}
      BY <1>2, <2>2
    <2>4. IsRun(pr, S)
      <3> HIDE DEF S
      <3> QED BY <2>2, <2>3 DEF IsRun, S
    <2> HIDE DEF S
    <2> QED BY <1>2, <2>1, <2>4 DEF S
  <1>4. CASE pairs # {}
    <2>1. PICK p \in pairs : TRUE
      BY <1>4
    <2>2. p \in S /\ p + 1 \in S /\ pr.block[p] = pr.block[p + 1] /\ p \in Nat
      BY <1>2, <2>1
    <2>3. pairs = {p}
      BY <1>1, <2>1
    <2>4. Cardinality(S) <= 2
      <3>1. Cardinality(pairs) = 1
        BY <2>3, FS_Singleton
      <3> HIDE DEF S, pairs
      <3> QED BY <1>1, <1>2, <3>1
    <2>5. S = {p, p + 1}
      <3> DEFINE n == p + 1
                 T == {p} \cup {n}
      <3>1. n \in Nat /\ n # p
        BY <2>2
      <3> HIDE DEF n
      <3>2. IsFiniteSet({p}) /\ Cardinality({p}) = 1 /\ n \notin {p}
        BY <3>1, FS_Singleton
      <3>3. IsFiniteSet(T) /\ Cardinality(T) = 2
        <4>1. IsFiniteSet({p} \cup {n}) /\ Cardinality({p} \cup {n}) = Cardinality({p}) + 1
          BY <3>2, FS_AddElement
        <4> QED BY <3>2, <4>1
      <3>4. T \in SUBSET S
        BY <2>2 DEF n
      <3> HIDE DEF T, S
      <3>5. Cardinality(T) <= Cardinality(S)
        BY <1>2, <3>4, FS_Subset
      <3>6. Cardinality(T) = Cardinality(S)
        BY <1>2, <2>4, <3>3, <3>5
      <3>7. T = S
        BY <1>2, <3>4, <3>6, FS_Subset
      <3> QED BY <3>7 DEF T, n
    <2>6. \A i, j \in S : i .. j \subseteq S /\ pr.block[i] = pr.block[j]
      <3> SUFFICES ASSUME NEW i \in {p, p + 1}, NEW j \in {p, p + 1}
                   PROVE  i .. j \subseteq {p, p + 1} /\ pr.block[i] = pr.block[j]
        <4> HIDE DEF S
        <4> QED BY <2>5
      <3>1. \A a \in i .. j : a = p \/ a = p + 1
        BY <2>2
      <3> QED BY <2>2, <3>1
    <2> HIDE DEF S
    <2>7. IsRun(pr, S)
      BY <2>6 DEF IsRun, S
    <2> QED BY <2>4, <2>7 DEF S
  <1> QED BY <1>3, <1>4

\* Every lesson of a valid timetable is in an occurrence.
LEMMA LessonsHaveOccurrences ==
    ASSUME NEW pr \in Problems, NEW e, e \subseteq Lessons(pr) \cup ReservedEntries(pr),
           Verified(pr, e), PreferredDoublesFormed(pr, e), NEW x \in e, x[1] \in pr.req
    PROVE  /\ IsOccurrence(pr, e, x[1], x[2], x[3])
           /\ x \in Occurrence(pr, e, x[1], x[2], x[3])
           /\ Occurrence(pr, e, x[1], x[2], x[3]) \subseteq e
  <1> DEFINE r == x[1]
             d == x[2]
             p == x[3]
  <1>1. Triples(e) /\ x = <<r, d, p>> /\ d \in pr.day
    BY GridIsStorable DEF Triples, Lessons, ReservedEntries
  <1>2. PeriodsOn(e, r, d) \subseteq Periods(pr)
    BY DEF PeriodsOn, Lessons, ReservedEntries
  <1> HIDE DEF r, d, p
  <1>3. p \in PeriodsOn(e, r, d)
    BY <1>1, PeriodsOnMembers
  <1>4. r \in pr.req /\ r \in Branches(pr, r)
    BY DEF Branches, r
  <1>5. PrefersDouble(pr, r) => Cardinality(PeriodsOn(e, r, d)) <= 2
    BY <1>1, <1>2, <1>4, DoubleIsRun
  <1>6. WholeDay(pr, r) => IsRun(pr, PeriodsOn(e, r, d))
    <2>1. RequiredBlocksKept(pr, e)
      BY DEF Verified
    <2> QED BY <1>1, <1>2, <1>4, <2>1, DoubleIsRun DEF WholeDay, RequiredBlocksKept
  <1>7. BlockPeriods(pr, e, r, d, p) \subseteq PeriodsOn(e, r, d) /\ p \in BlockPeriods(pr, e, r, d, p)
    BY <1>3 DEF BlockPeriods
  <1>8. \A s \in Branches(pr, r) : PeriodsOn(e, s, d) = PeriodsOn(e, r, d)
    <2>1. SplitsSynchronized(pr, e)
      BY DEF Verified
    <2> QED BY <1>1, <1>4, <2>1, BranchesTogether
  <1>9. IsOccurrence(pr, e, r, d, p)
    BY <1>2, <1>3, <1>4, <1>5, <1>6, <1>7, <1>8 DEF IsOccurrence
  <1>10. Occurrence(pr, e, r, d, p) = At(Branches(pr, r), d, BlockPeriods(pr, e, r, d, p))
    BY DEF Occurrence, At
  <1>11. x \in Occurrence(pr, e, r, d, p)
    BY <1>1, <1>4, <1>7, <1>10, AtMember
  <1>12. Occurrence(pr, e, r, d, p) \subseteq e
    <2> SUFFICES ASSUME NEW y \in Occurrence(pr, e, r, d, p) PROVE y \in e
      OBVIOUS
    <2>1. y = <<y[1], y[2], y[3]>> /\ y[1] \in Branches(pr, r) /\ y[2] = d /\ y[3] \in BlockPeriods(pr, e, r, d, p)
      BY <1>10, AtMember
    <2>2. y[3] \in PeriodsOn(e, y[1], d)
      BY <1>7, <1>8, <2>1
    <2>3. <<y[1], d, y[3]>> \in e
      BY <1>1, <2>2, PeriodsOnMembers
    <2> QED BY <2>1, <2>3
  <1> QED BY <1>9, <1>11, <1>12 DEF r, d, p

\* A timetable that contains all lessons of another one is that one.
LEMMA LessonsDetermine ==
    ASSUME NEW pr \in Problems,
           NEW e, e \subseteq Lessons(pr) \cup ReservedEntries(pr), Verified(pr, e),
           NEW f, f \subseteq Lessons(pr) \cup ReservedEntries(pr), Verified(pr, f),
           \A x \in e : x[1] \in pr.req => x \in f
    PROVE  f = e
  <1>1. IsFiniteSet(f)
    BY GridFinite
  <1>2. \A r \in pr.req : {x \in e : x[1] = r} = {x \in f : x[1] = r}
    <2> SUFFICES ASSUME NEW r \in pr.req PROVE {x \in e : x[1] = r} = {x \in f : x[1] = r}
      OBVIOUS
    <2> DEFINE S == {x \in e : x[1] = r}
               T == {x \in f : x[1] = r}
    <2>1. S \in SUBSET T /\ T \in SUBSET f
      OBVIOUS
    <2>2. Cardinality(S) = Cardinality(T)
      BY DEF Verified, WeeklyLessonsPlaced
    <2> HIDE DEF S, T
    <2>3. IsFiniteSet(T)
      BY <1>1, <2>1, FS_Subset
    <2>4. S = T
      BY <2>1, <2>2, <2>3, FS_Subset
    <2> QED BY <2>4 DEF S, T
  <1>3. \A b \in ReservedEntries(pr) : b \in e /\ b \in f
    BY DEF Verified, ReservedBlocksRespected
  <1>4. \A x \in Lessons(pr) : x[1] \in pr.req
    BY DEF Lessons
  <1>5. ASSUME NEW x \in f PROVE x \in e
    <2>1. CASE x \in Lessons(pr)
      <3>1. x \in {y \in f : y[1] = x[1]} /\ x[1] \in pr.req
        BY <1>4, <2>1
      <3>2. x \in {y \in e : y[1] = x[1]}
        BY <1>2, <3>1
      <3> QED BY <3>2
    <2> QED BY <1>3, <2>1
  <1>6. ASSUME NEW x \in e PROVE x \in f
    BY <1>3, <1>4
  <1> QED BY <1>5, <1>6

(***************************************************************************)
(* Whatever the problems, if the solver accepts the timetables the verifier*)
(* accepts, a reoptimization returns a valid timetable as it was: nothing  *)
(* is less disruptive.                                                     *)
(***************************************************************************)
LEMMA ReoptimizingChangesNothing ==
    SolvingSpec => [](SolverAgreesWithVerifier => ReoptimizeKeepsValidTimetable)
  <1>1. ASSUME SolvingInv, SolverAgreesWithVerifier
        PROVE  ReoptimizeKeepsValidTimetable
    <2> SUFFICES ASSUME problem \in Solved, Verified(problem, entries), PreferredDoublesFormed(problem, entries)
                 PROVE  /\ Resolvable(problem, entries)
                        /\ LeastDisruptive(problem, entries, KeepingLocks(problem, entries, locked)) = {entries}
      BY DEF ReoptimizeKeepsValidTimetable
    <2> DEFINE found == KeepingLocks(problem, entries, locked)
               groups == Groups(problem, entries)
               Moved(f) == {group \in groups : ~(group \subseteq f)}
               least == Min({Disruption(problem, entries, f) : f \in found})
    <2>1. problem \in Problems /\ problem \in SolverProblems /\ entries \in Solutions[problem]
      BY <1>1, SolvedAssumption DEF SolverAgreesWithVerifier
    <2>2. entries \subseteq Lessons(problem) \cup ReservedEntries(problem)
      BY <2>1, SolutionsOnTheGrid
    <2>3. \A x \in LessonsOf(problem, entries) : x \in entries /\ x[1] \in problem.req
      BY <2>2 DEF LessonsOf, Lessons
    <2>4. Resolvable(problem, entries)
      BY <2>1, <2>2, <2>3, LessonsHaveOccurrences DEF Resolvable
    <2>5. \A group \in groups : group \subseteq entries
      BY <2>1, <2>2, <2>3, LessonsHaveOccurrences DEF Groups
    <2>6. \A x \in entries : x[1] \in problem.req => \E group \in groups : x \in group
      <3> SUFFICES ASSUME NEW x \in entries, x[1] \in problem.req PROVE \E group \in groups : x \in group
        OBVIOUS
      <3>1. x \in Occurrence(problem, entries, x[1], x[2], x[3])
        BY <2>1, <2>2, LessonsHaveOccurrences
      <3>2. x \in LessonsOf(problem, entries)
        BY <2>1, ProblemAssumption DEF LessonsOf, ReservedEntries
      <3> QED BY <3>1, <3>2 DEF Groups
    <2>7. IsFiniteSet(groups)
      <3> DEFINE lessons == LessonsOf(problem, entries)
                 occurrence == [x \in lessons |-> Occurrence(problem, entries, x[1], x[2], x[3])]
      <3>1. IsFiniteSet(lessons)
        <4>1. IsFiniteSet(entries)
          BY <2>1, <2>2, GridFinite
        <4>2. lessons \in SUBSET entries
          BY DEF LessonsOf
        <4> HIDE DEF lessons
        <4> QED BY <4>1, <4>2, FS_Subset
      <3>2. occurrence \in Surjection(lessons, groups)
        BY DEF Surjection, Groups
      <3> HIDE DEF lessons, occurrence, groups
      <3> QED BY <3>1, <3>2, FS_Surjection
    <2>8. entries \in found
      BY <2>1, <2>5 DEF KeepingLocks, LockedGroups
    <2>9. \A f : Disruption(problem, entries, f) = Cardinality(Moved(f))
      BY DEF Disruption
    <2>10. \A f : IsFiniteSet(Moved(f)) /\ Cardinality(Moved(f)) \in Nat
      <3> SUFFICES ASSUME NEW f PROVE IsFiniteSet(Moved(f)) /\ Cardinality(Moved(f)) \in Nat
        OBVIOUS
      <3>1. Moved(f) \in SUBSET groups
        OBVIOUS
      <3> HIDE DEF Moved, groups
      <3> QED BY <2>7, <3>1, FS_Subset, FS_CardinalityType
    <2>11. Disruption(problem, entries, entries) = 0
      <3>1. Moved(entries) = {}
        BY <2>5
      <3> QED BY <2>9, <3>1, FS_EmptySet
    <2>12. least = 0
      <3> DEFINE D == {Disruption(problem, entries, f) : f \in found}
      <3>1. D \in SUBSET Nat
        <4> HIDE DEF Moved, found
        <4> QED BY <2>9, <2>10
      <3>2. 0 \in D
        BY <2>8, <2>11
      <3> HIDE DEF D
      <3>3. Min(D) \in Nat /\ Min(D) <= 0
        BY <3>1, <3>2, Smallest
      <3>4. Min(D) = 0
        BY <3>3
      <3> QED BY <3>4 DEF D
    <2>13. ASSUME NEW f \in found, Disruption(problem, entries, f) = 0
           PROVE  f = entries
      <3>1. f \in Solutions[problem]
        BY DEF KeepingLocks
      <3>2. f \subseteq Lessons(problem) \cup ReservedEntries(problem) /\ Verified(problem, f)
        BY <2>1, <3>1, SolutionsOnTheGrid, SolutionsAreVerified
      <3>3. Moved(f) = {}
        <4>1. IsFiniteSet(Moved(f)) /\ Cardinality(Moved(f)) = 0
          BY <2>9, <2>10, <2>13
        <4> HIDE DEF Moved
        <4> QED BY <4>1, FS_EmptySet
      <3>4. \A x \in entries : x[1] \in problem.req => x \in f
        BY <2>6, <3>3
      <3> QED BY <2>1, <2>2, <3>2, <3>4, LessonsDetermine
    <2>14. LeastDisruptive(problem, entries, found)
              = {f \in found : Disruption(problem, entries, f) = least /\ PreferredDoublesFormed(problem, f)}
      BY DEF LeastDisruptive
    <2> HIDE DEF found, least
    <2>15. LeastDisruptive(problem, entries, found) = {entries}
      BY <2>8, <2>11, <2>12, <2>13, <2>14
    <2> QED BY <2>4, <2>15 DEF found
  <1>2. Generate => SolvingInv
    BY GenerateInv
  <1>3. SolvingInv /\ [SolvingNext]_allVars => SolvingInv'
    BY SolvingInvKept
  <1> QED BY <1>1, <1>2, <1>3, PTL DEF SolvingSpec

=============================================================================
