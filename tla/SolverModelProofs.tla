--------------------------- MODULE SolverModelProofs ---------------------------
(***************************************************************************)
(* What the solver's model, the verifier and the objective say of the same *)
(* timetable, and what follows for the timetables that are stored: that    *)
(* solver and verifier accept the same ones, that a valid one survives a   *)
(* reoptimization, that a proven penalty is the true one, that the views   *)
(* show every entry, that what is stored is on the grid, and that locks    *)
(* can be found.                                                           *)
(*                                                                         *)
(* One direction (what satisfies the constraints is accepted) is           *)
(* SolutionsAreVerified of ScheduleSolvingProofs; the other one is here.   *)
(***************************************************************************)
EXTENDS ScheduleSolvingProofs

-----------------------------------------------------------------------------
(***************************************************************************)
(* What the verifier accepts.                                              *)
(***************************************************************************)
\* A timetable on the grid that the verifier accepts.
Accepted(pr, e) == pr \in Problems /\ e \subseteq Lessons(pr) \cup ReservedEntries(pr) /\ Verified(pr, e)

\* The entries of an accepted timetable are lessons, or reserved blocks in their slots.
LEMMA AcceptedFacts ==
    ASSUME NEW pr, NEW e, Accepted(pr, e)
    PROVE  /\ pr \in Problems /\ Triples(e) /\ Storable(pr, e) /\ IsFiniteSet(e)
           /\ e = LessonsOf(pr, e) \cup ReservedEntries(pr)
           /\ \A x \in e : /\ x \in LessonsOf(pr, e) <=> x[1] \in pr.req
                           /\ x \in ReservedEntries(pr) <=> x[1] \in pr.reserved
                           /\ x[1] \in pr.req \/ x[1] \in pr.reserved
                           /\ x = <<x[1], x[2], x[3]>> /\ x[2] \in pr.day /\ x[3] \in Periods(pr)
  <1>1. pr \in Problems /\ e \subseteq Lessons(pr) \cup ReservedEntries(pr)
    BY DEF Accepted
  <1>2. Triples(e) /\ Storable(pr, e) /\ IsFiniteSet(e)
    BY <1>1, GridIsStorable, GridFinite
  <1>3. \A b \in ReservedEntries(pr) : b \in e
    BY DEF Accepted, Verified, ReservedBlocksRespected
  <1>4. e = LessonsOf(pr, e) \cup ReservedEntries(pr)
    BY <1>3 DEF LessonsOf
  <1>5. pr.req \cap pr.reserved = {}
    BY <1>1, ProblemAssumption
  <1>6. \A x \in Lessons(pr) : x[1] \in pr.req
    BY DEF Lessons
  <1>7. \A x \in ReservedEntries(pr) : x[1] \in pr.reserved
    BY DEF ReservedEntries
  <1>8. ASSUME NEW x \in e
        PROVE  /\ x \in LessonsOf(pr, e) <=> x[1] \in pr.req
               /\ x \in ReservedEntries(pr) <=> x[1] \in pr.reserved
               /\ x[1] \in pr.req \/ x[1] \in pr.reserved
    BY <1>1, <1>5, <1>6, <1>7 DEF LessonsOf
  <1>9. \A x \in e : x = <<x[1], x[2], x[3]>> /\ x[2] \in pr.day /\ x[3] \in Periods(pr)
    BY <1>2 DEF Triples, Storable, Slots
  <1> QED BY <1>1, <1>2, <1>4, <1>8, <1>9

\* Every reserved block of a slot has its entry.
LEMMA AcceptedReserved ==
    ASSUME NEW pr, NEW e, Accepted(pr, e), NEW d \in pr.day, NEW p \in Periods(pr), NEW b \in ReservedAt(pr, d, p)
    PROVE  <<b, d, p>> \in e /\ <<b, d, p>> \in ReservedEntries(pr) /\ b \in pr.reserved
  <1>1. <<b, d, p>> \in ReservedEntries(pr) /\ b \in pr.reserved
    BY DEF ReservedEntries, ReservedAt
  <1>2. \A x \in ReservedEntries(pr) : x \in e
    BY DEF Accepted, Verified, ReservedBlocksRespected
  <1> QED BY <1>1, <1>2

\* A lesson of an accepted timetable is one the solver has a variable for.
LEMMA AcceptedPossible ==
    ASSUME NEW pr, NEW e, Accepted(pr, e), NEW x \in LessonsOf(pr, e) PROVE LessonPossible(pr, x)
  <1>1. x \in e /\ x[1] \in pr.req /\ x[2] \in pr.day /\ x[3] \in Periods(pr)
    BY AcceptedFacts DEF LessonsOf
  <1>2. <<pr.teacher[x[1]], x[2], x[3]>> \notin pr.unavailable
    BY <1>1 DEF Accepted, Verified, TeachersAvailable
  <1>3. ASSUME NEW c \in pr.classes[x[1]], NEW b \in ReservedAt(pr, x[2], x[3]), c \in pr.classes[b]
        PROVE  FALSE
    <2> DEFINE z == <<b, x[2], x[3]>>
    <2>1. z \in ReservedEntries(pr)
      BY <1>1, AcceptedReserved
    <2>2. SameSlot(x, z) /\ z[1] = b
      BY DEF SameSlot
    <2> HIDE DEF z
    <2>3. pr.classes[x[1]] \cap pr.classes[z[1]] = {}
      BY <1>1, <2>1, <2>2 DEF Accepted, Verified, ReservedBlocksRespected
    <2> QED BY <1>3, <2>2, <2>3
  <1> QED BY <1>2, <1>3 DEF LessonPossible, ReservedForClass

\* A set without two members has a cardinality of one at most.
LEMMA AtMostOne ==
    ASSUME NEW S, \A x, y \in S : x = y PROVE IsFiniteSet(S) /\ Cardinality(S) \in {0, 1} /\ (S = {} => Cardinality(S) = 0)
  <1>1. CASE S = {}
    BY <1>1, FS_EmptySet
  <1>2. CASE S # {}
    <2>1. PICK x \in S : TRUE
      BY <1>2
    <2>2. S = {x}
      BY <2>1
    <2> QED BY <2>2, FS_Singleton, <1>2
  <1> QED BY <1>1, <1>2

\* No teacher has two lessons in a slot, or one beside a reserved block of theirs.
LEMMA AcceptedTeachers ==
    ASSUME NEW pr, NEW e, Accepted(pr, e) PROVE TeacherNonOverlap(pr, LessonsOf(pr, e))
  <1> SUFFICES ASSUME NEW d \in pr.day, NEW p \in Periods(pr), NEW t \in {pr.teacher[r] : r \in pr.req}
               PROVE  LET reserved == IF \E b \in ReservedAt(pr, d, p) : pr.teacher[b] = t THEN 1 ELSE 0
                      IN  Cardinality({x \in LessonsAt(LessonsOf(pr, e), d, p) : pr.teacher[x[1]] = t}) + reserved <= 1
    BY DEF TeacherNonOverlap
  <1> DEFINE S == {x \in LessonsAt(LessonsOf(pr, e), d, p) : pr.teacher[x[1]] = t}
             reserved == IF \E b \in ReservedAt(pr, d, p) : pr.teacher[b] = t THEN 1 ELSE 0
  <1>1. \A x \in S : x \in e /\ x[1] \in pr.req /\ x[2] = d /\ x[3] = p /\ pr.teacher[x[1]] = t
    BY AcceptedFacts DEF LessonsAt, LessonsOf
  <1>2. t # None
    BY ProblemAssumption DEF Accepted
  <1>3. \A x, y \in e : x # y /\ SameSlot(x, y) /\ pr.teacher[x[1]] = t => pr.teacher[y[1]] # t
    BY <1>2 DEF Accepted, Verified, TeachersNotDoubleBooked
  <1>4. \A x, y \in S : x = y
    BY <1>1, <1>3 DEF SameSlot
  <1>5. reserved = 1 => S = {}
    <2> SUFFICES ASSUME NEW b \in ReservedAt(pr, d, p), pr.teacher[b] = t, NEW x \in S PROVE FALSE
      OBVIOUS
    <2> DEFINE z == <<b, d, p>>
    <2>1. z \in e /\ z[1] = b /\ z[2] = d /\ z[3] = p /\ b \in pr.reserved
      BY AcceptedReserved
    <2> HIDE DEF z
    <2>2. x # z
      <3>1. pr.req \cap pr.reserved = {}
        BY ProblemAssumption DEF Accepted
      <3> QED BY <1>1, <2>1, <3>1
    <2> QED BY <1>1, <1>3, <2>1, <2>2 DEF SameSlot
  <1>6. Cardinality(S) \in {0, 1} /\ (S = {} => Cardinality(S) = 0)
    <2> HIDE DEF S
    <2> QED BY <1>4, AtMostOne
  <1>7. reserved \in {0, 1}
    OBVIOUS
  <1> HIDE DEF S, reserved
  <1>8. Cardinality(S) + reserved <= 1
    BY <1>5, <1>6, <1>7
  <1> QED BY <1>8 DEF S, reserved

\* No group has two lessons in a slot.
LEMMA AcceptedGroups ==
    ASSUME NEW pr, NEW e, Accepted(pr, e) PROVE GroupNonOverlap(pr, LessonsOf(pr, e))
  <1> SUFFICES ASSUME NEW d \in pr.day, NEW p \in Periods(pr), NEW g \in {pr.group[r] : r \in pr.req}
               PROVE  Cardinality({x \in LessonsAt(LessonsOf(pr, e), d, p) : pr.group[x[1]] = g}) <= 1
    BY DEF GroupNonOverlap
  <1> DEFINE S == {x \in LessonsAt(LessonsOf(pr, e), d, p) : pr.group[x[1]] = g}
  <1>1. \A x \in S : x \in e /\ x[2] = d /\ x[3] = p /\ pr.group[x[1]] = g
    BY DEF LessonsAt, LessonsOf
  <1>2. g # None
    BY ProblemAssumption DEF Accepted
  <1>3. \A x, y \in e : x # y /\ SameSlot(x, y) /\ pr.group[x[1]] = g => pr.group[y[1]] # g
    BY <1>2 DEF Accepted, Verified, GroupsNotDoubleBooked
  <1>4. \A x, y \in S : x = y
    BY <1>1, <1>3 DEF SameSlot
  <1> HIDE DEF S
  <1>5. Cardinality(S) \in {0, 1}
    BY <1>4, AtMostOne
  <1> QED BY <1>5 DEF S

\* What a requirement has is what its lessons give it.
LEMMA AcceptedOfRequirement ==
    ASSUME NEW pr, NEW e, Accepted(pr, e), NEW r \in pr.req
    PROVE  /\ {x \in LessonsOf(pr, e) : x[1] = r} = {x \in e : x[1] = r}
           /\ \A d : PeriodsOn(LessonsOf(pr, e), r, d) = PeriodsOn(e, r, d)
  <1> DEFINE L == LessonsOf(pr, e)
  <1>1. \A x \in e : x[1] = r => x \in L
    BY AcceptedFacts
  <1>2. L \subseteq e
    BY DEF LessonsOf
  <1> HIDE DEF L
  <1>3. {x \in L : x[1] = r} = {x \in e : x[1] = r}
    BY <1>1, <1>2
  <1>4. ASSUME NEW d
        PROVE  PeriodsOn(L, r, d) = PeriodsOn(e, r, d)
    <2>1. {y \in L : y[1] = r /\ y[2] = d} = {y \in e : y[1] = r /\ y[2] = d}
      BY <1>1, <1>2
    <2> QED BY <2>1 DEF PeriodsOn
  <1> QED BY <1>3, <1>4 DEF L

\* Constraints on the lessons of one requirement or split.
LEMMA AcceptedOfRequirements ==
    ASSUME NEW pr, NEW e, Accepted(pr, e)
    PROVE  /\ WeeklyFulfillment(pr, LessonsOf(pr, e)) /\ FixedPlacements(pr, LessonsOf(pr, e))
           /\ MaxPeriodsPerDay(pr, LessonsOf(pr, e)) /\ SplitSync(pr, LessonsOf(pr, e))
  <1> DEFINE L == LessonsOf(pr, e)
  <1>1. WeeklyFulfillment(pr, L)
    <2> SUFFICES ASSUME NEW r \in pr.req PROVE Cardinality({x \in L : x[1] = r}) = pr.weekly[r]
      BY DEF WeeklyFulfillment
    <2>1. {x \in L : x[1] = r} = {x \in e : x[1] = r}
      BY AcceptedOfRequirement
    <2> QED BY <2>1 DEF Accepted, Verified, WeeklyLessonsPlaced
  <1>2. FixedPlacements(pr, L)
    <2>1. \A x \in pr.fixed : x \in e /\ x[1] \in pr.req
      BY ProblemAssumption DEF Accepted, Verified, FixedPlacementsRespected
    <2> QED BY <2>1, AcceptedFacts DEF FixedPlacements
  <1>3. MaxPeriodsPerDay(pr, L)
    <2>1. \A r \in pr.req : DailyCapKept(pr, e, r)
      BY DEF Accepted, Verified
    <2> HIDE DEF L
    <2> QED BY <2>1, AcceptedOfRequirement DEF MaxPeriodsPerDay, DailyCapKept, L
  <1>4. SplitSync(pr, L)
    <2> SUFFICES ASSUME NEW r \in pr.req, NEW s \in Branches(pr, r), NEW d \in pr.day
                 PROVE  PeriodsOn(L, r, d) = PeriodsOn(L, s, d)
      BY DEF SplitSync
    <2>1. s \in pr.req
      BY DEF Branches
    <2>2. Triples(e) /\ SplitsSynchronized(pr, e)
      BY AcceptedFacts DEF Accepted, Verified
    <2>3. PeriodsOn(e, s, d) = PeriodsOn(e, r, d)
      BY <2>2, BranchesTogether
    <2> QED BY <2>1, <2>3, AcceptedOfRequirement
  <1> QED BY <1>1, <1>2, <1>3, <1>4

\* Reserved blocks use of a resource, slot by slot, what their entries do.
LEMMA AcceptedCapacity ==
    ASSUME NEW pr, NEW e, Accepted(pr, e) PROVE ResourceCapacity(pr, LessonsOf(pr, e))
  <1> SUFFICES ASSUME NEW res \in {pr.resource[r] : r \in pr.req} \ {None}, NEW d \in pr.day, NEW p \in Periods(pr)
               PROVE  LET reserved == Cardinality({b \in ReservedAt(pr, d, p) : pr.resource[b] = res})
                      IN  ResourceUse(pr, LessonsOf(pr, e), res, d, p) <= Max({0, pr.capacity[res] - reserved})
    BY DEF ResourceCapacity
  <1> DEFINE capacity == pr.capacity[res]
             Using(f) == {y \in f : pr.resource[y[1]] = res /\ y[2] = d /\ y[3] = p}
             L == LessonsOf(pr, e)
             blocks == {b \in ReservedAt(pr, d, p) : pr.resource[b] = res}
             taken == At(blocks, d, {p})
             reserved == Cardinality(blocks)
             used == Cardinality(Using(L))
  <1>1. pr \in Problems /\ IsFiniteSet(e) /\ L \subseteq e
    BY AcceptedFacts DEF LessonsOf
  <1>2. capacity \in Nat
    BY <1>1, ProblemAssumption
  <1>3. IsFiniteSet(blocks) /\ reserved \in Nat
    <2>1. IsFiniteSet(pr.reserved) /\ blocks \in SUBSET pr.reserved
      BY <1>1, ProblemAssumption DEF ReservedAt
    <2> HIDE DEF blocks
    <2> QED BY <2>1, FS_Subset, FS_CardinalityType
  <1>4. IsFiniteSet(Using(e)) /\ IsFiniteSet(Using(L)) /\ used \in Nat
    <2>1. Using(e) \in SUBSET e /\ Using(L) \in SUBSET e
      BY <1>1
    <2> HIDE DEF Using
    <2> QED BY <1>1, <2>1, FS_Subset, FS_CardinalityType
  <1>5. IsFiniteSet(taken) /\ Cardinality(taken) = reserved
    <2> DEFINE g == [b \in blocks |-> <<b, d, p>>]
    <2>1. g \in Bijection(blocks, taken)
      <3>1. \A b \in blocks : g[b] \in taken /\ g[b][1] = b
        BY DEF At
      <3>2. \A z \in taken : z[1] \in blocks /\ g[z[1]] = z
        BY DEF At
      <3>3. g \in [blocks -> taken]
        BY <3>1
      <3> HIDE DEF g, taken, blocks
      <3> QED BY <3>1, <3>2, <3>3 DEF Bijection, Injection, IsInjective, Surjection
    <2> HIDE DEF g, taken, blocks
    <2>2. ExistsBijection(blocks, taken)
      BY <2>1 DEF ExistsBijection
    <2> QED BY <1>3, <2>2, FS_Bijection DEF reserved
  <1>6. \A z \in taken : z \in Using(e) /\ z \notin L
    <2> SUFFICES ASSUME NEW z \in taken PROVE z \in Using(e) /\ z \notin L
      OBVIOUS
    <2>1. z = <<z[1], d, p>> /\ z[1] \in blocks
      BY AtMember
    <2>2. z \in e /\ z \in ReservedEntries(pr)
      BY <2>1, AcceptedReserved
    <2>3. z[2] = d /\ z[3] = p /\ pr.resource[z[1]] = res
      BY <2>1
    <2> HIDE DEF taken, blocks
    <2> QED BY <2>2, <2>3 DEF LessonsOf
  <1>7. used + reserved <= Cardinality(Using(e))
    <2> DEFINE U == Using(e)
               V == Using(L)
    <2>1. V \subseteq U /\ V \subseteq L
      BY <1>1
    <2> HIDE DEF U, V, Using, taken, L
    <2>2. V \cap taken = {} /\ V \cup taken \in SUBSET U
      BY <1>6, <2>1 DEF U
    <2>3. Cardinality(V \cup taken) = Cardinality(V) + Cardinality(taken) - Cardinality(V \cap taken)
      BY <1>4, <1>5, FS_Union DEF V
    <2>4. Cardinality(V \cup taken) <= Cardinality(U)
      BY <1>4, <2>2, FS_Subset DEF U
    <2>5. Cardinality(V) = used /\ Cardinality(V \cap taken) = 0
      BY <2>2, FS_EmptySet DEF V, used
    <2> HIDE DEF used, reserved
    <2> QED BY <1>3, <1>4, <1>5, <2>3, <2>4, <2>5 DEF U
  <1>8. used > 0 => Cardinality(Using(e)) <= capacity
    <2>1. SUFFICES ASSUME used > 0 PROVE Cardinality(Using(e)) <= capacity
      OBVIOUS
    <2>2. Using(L) # {}
      <3> HIDE DEF Using
      <3>1. Using(L) = {} => used = 0
        BY FS_EmptySet
      <3> QED BY <1>4, <2>1, <3>1
    <2>3. PICK x \in e : pr.resource[x[1]] = res /\ x[2] = d /\ x[3] = p
      BY <1>1, <2>2
    <2>4. ResourceUse(pr, e, res, d, p) <= capacity
      BY <2>3 DEF Accepted, Verified, ResourceCapacityKept
    <2> QED BY <2>4 DEF ResourceUse
  <1>9. Cardinality(Using(e)) \in Nat
    BY <1>4, FS_CardinalityType
  <1>10. Max({0, capacity - reserved}) = IF capacity - reserved >= 0 THEN capacity - reserved ELSE 0
    <2> DEFINE i == capacity - reserved
    <2>1. i \in Int
      BY <1>2, <1>3
    <2>2. \E z \in {0, i} : \A y \in {0, i} : z >= y
      BY <2>1
    <2>3. Max({0, i}) \in {0, i} /\ \A y \in {0, i} : Max({0, i}) >= y
      BY <2>2 DEF Max
    <2> HIDE DEF i
    <2> QED BY <2>1, <2>3 DEF i
  <1>11. ResourceUse(pr, L, res, d, p) = used
    BY DEF ResourceUse
  <1> DEFINE n == Cardinality(Using(e))
             m == Max({0, capacity - reserved})
  <1>12. used <= m
    <2>1. n \in Nat /\ used + reserved <= n /\ (used > 0 => n <= capacity)
      BY <1>7, <1>8, <1>9
    <2>2. m = IF capacity - reserved >= 0 THEN capacity - reserved ELSE 0
      BY <1>10
    <2> HIDE DEF n, m, used, reserved, capacity
    <2> QED BY <1>2, <1>3, <1>4, <2>1, <2>2
  <1> QED BY <1>11, <1>12

\* Of the lessons that occupy a class in a slot one is of a representative.
LEMMA AcceptedOccupancy ==
    ASSUME NEW pr, NEW e, Accepted(pr, e) PROVE ClassOccupancy(pr, LessonsOf(pr, e))
  <1> SUFFICES ASSUME NEW c \in pr.class, NEW d \in pr.day, NEW p \in Periods(pr), ~ReservedForClass(pr, c, d, p)
               PROVE  Cardinality({x \in LessonsAt(LessonsOf(pr, e), d, p) :
                                      c \in pr.classes[x[1]] /\ IsRepresentative(pr, x[1])}) = 1
    BY DEF ClassOccupancy
  <1> DEFINE L == LessonsOf(pr, e)
             S == {x \in LessonsAt(L, d, p) : c \in pr.classes[x[1]] /\ IsRepresentative(pr, x[1])}
             slot == <<d, p>>
  <1>1. /\ pr \in Problems /\ Triples(e) /\ Storable(pr, e) /\ ClassesFullyOccupied(pr, e)
        /\ SplitsSynchronized(pr, e) /\ slot \in Slots(pr)
    BY AcceptedFacts DEF Accepted, Verified, Slots
  <1>2. Units(pr, e, c, slot) # {}
    <2>1. Cardinality(Units(pr, e, c, slot)) = 1
      BY <1>1 DEF ClassesFullyOccupied, Units
    <2> QED BY <2>1, FS_EmptySet
  <1>3. PICK y \in e : y[2] = d /\ y[3] = p /\ c \in pr.classes[y[1]]
    BY <1>2 DEF Units
  <1>4. y[1] \in pr.req
    <2>1. y \in ReservedEntries(pr) => y[1] \in ReservedAt(pr, d, p)
      BY <1>3 DEF ReservedEntries, ReservedAt
    <2>2. y \notin ReservedEntries(pr)
      BY <1>3, <2>1 DEF ReservedForClass
    <2> QED BY <2>2, AcceptedFacts
  <1> DEFINE s == CHOOSE t \in Branches(pr, y[1]) : TRUE
             z == <<s, d, p>>
  <1>5. s \in Branches(pr, y[1]) /\ IsRepresentative(pr, s) /\ s \in pr.req /\ pr.classes[s] = pr.classes[y[1]]
    <2>1. y[1] \in Branches(pr, y[1])
      BY <1>4 DEF Branches
    <2>2. s \in Branches(pr, y[1])
      BY <2>1
    <2>3. Branches(pr, s) = Branches(pr, y[1]) /\ s \in pr.req
      BY <1>4, <2>2, BranchesOfBranch
    <2>4. IsRepresentative(pr, s)
      BY <2>3 DEF IsRepresentative
    <2> HIDE DEF s
    <2> QED BY <1>1, <1>4, <2>2, <2>3, <2>4, ProblemAssumption
  <1>6. z \in e
    <2>1. p \in PeriodsOn(e, y[1], d)
      <3>1. y = <<y[1], d, p>>
        BY <1>3, AcceptedFacts
      <3> QED BY <1>1, <3>1, PeriodsOnMembers
    <2>2. PeriodsOn(e, s, d) = PeriodsOn(e, y[1], d)
      BY <1>1, <1>4, <1>5, BranchesTogether
    <2> QED BY <1>1, <2>1, <2>2, PeriodsOnMembers
  <1>7. z \in S
    <2>1. z[1] = s /\ z[2] = d /\ z[3] = p
      OBVIOUS
    <2> HIDE DEF z, s
    <2>2. z \in L
      BY <1>5, <1>6, <2>1, AcceptedFacts
    <2> QED BY <1>3, <1>5, <2>1, <2>2 DEF LessonsAt
  <1>8. ASSUME NEW x \in S PROVE x = z
    <2> HIDE DEF s
    <2>1. x \in e /\ x[1] \in pr.req /\ x = <<x[1], d, p>> /\ c \in pr.classes[x[1]] /\ IsRepresentative(pr, x[1])
      BY AcceptedFacts DEF LessonsAt, LessonsOf
    <2>2. pr.classes[s] \cap pr.classes[x[1]] # {}
      BY <1>3, <1>5, <2>1
    <2>3. s \in Branches(pr, x[1])
      BY <1>1, <1>5, <1>6, <2>1, <2>2, SharedCellSameSplit
    <2>4. Branches(pr, s) = Branches(pr, x[1])
      BY <2>1, <2>3, BranchesOfBranch
    <2>5. x[1] = s
      BY <1>5, <2>1, <2>4 DEF IsRepresentative
    <2> QED BY <2>1, <2>5
  <1>9. S = {z}
    <2> HIDE DEF S, z
    <2> QED BY <1>7, <1>8
  <1> HIDE DEF z
  <1> QED BY <1>9, FS_Singleton

\* A window lies in the periods of its day.
LEMMA WindowInDay ==
    ASSUME NEW pr, Periods(pr) \subseteq Nat, NEW L, NEW r, NEW d, IsFiniteSet(PeriodsOn(L, r, d)),
           NEW k \in Nat \ {0}, NEW p \in FullWindows(pr, L, r, d, k)
    PROVE  /\ p \in Nat /\ p .. p + k - 1 \subseteq PeriodsOn(L, r, d) /\ k <= Cardinality(PeriodsOn(L, r, d))
           /\ k = Cardinality(PeriodsOn(L, r, d)) => p .. p + k - 1 = PeriodsOn(L, r, d)
  <1> DEFINE S == PeriodsOn(L, r, d)
             b == p + k - 1
             window == p .. b
  <1>1. p \in Nat /\ window \in SUBSET S
    BY DEF FullWindows
  <1>2. b \in Int /\ p <= b /\ b - p + 1 = k
    BY <1>1
  <1> HIDE DEF b
  <1>3. Cardinality(window) = k
    <2>1. Cardinality(window) = IF p > b THEN 0 ELSE b - p + 1
      BY <1>1, <1>2, FS_Interval
    <2> QED BY <1>1, <1>2, <2>1
  <1> HIDE DEF S, window
  <1>4. Cardinality(window) <= Cardinality(S) /\ (Cardinality(S) = Cardinality(window) => S = window)
    BY <1>1, FS_Subset DEF S
  <1> QED BY <1>1, <1>3, <1>4 DEF S, window, b

\* A day that is one block has one window of its size.
LEMMA WindowOfRun ==
    ASSUME NEW pr, Periods(pr) \subseteq Nat, IsFiniteSet(Periods(pr)), NEW L, NEW r, NEW d,
           IsRun(pr, PeriodsOn(L, r, d)), NEW k \in Nat \ {0}, Cardinality(PeriodsOn(L, r, d)) = k
    PROVE  Cardinality(FullWindows(pr, L, r, d, k)) = 1
  <1> DEFINE S == PeriodsOn(L, r, d)
             low == Min(S)
  <1>1. S \in SUBSET Periods(pr) /\ \A p, q \in S : p .. q \subseteq S
    BY DEF IsRun
  <1>2. IsFiniteSet(S) /\ S \in SUBSET Nat /\ S # {}
    <2>1. IsFiniteSet(S)
      BY <1>1, FS_Subset
    <2>2. S # {}
      BY FS_EmptySet
    <2> QED BY <1>1, <2>1, <2>2
  <1>3. low \in S /\ S = low .. low + k - 1
    BY <1>1, <1>2, RunIsInterval
  <1>4. low \in FullWindows(pr, L, r, d, k)
    <2> HIDE DEF low
    <2> QED BY <1>1, <1>3 DEF FullWindows
  <1>5. ASSUME NEW p \in FullWindows(pr, L, r, d, k) PROVE p = low
    <2>1. p \in Nat /\ p .. p + k - 1 = S
      BY <1>2, WindowInDay
    <2> HIDE DEF low, S
    <2>2. low \in Nat /\ low \in p .. p + k - 1 /\ p \in low .. low + k - 1
      <3>1. p \in p .. p + k - 1
        BY <2>1
      <3> QED BY <1>2, <1>3, <2>1, <3>1
    <2>3. p <= low /\ low <= p
      BY <2>1, <2>2
    <2> QED BY <2>1, <2>2, <2>3
  <1>6. FullWindows(pr, L, r, d, k) = {low}
    <2> HIDE DEF low
    <2> QED BY <1>4, <1>5
  <1> QED BY <1>6, FS_Singleton

\* A pattern has finitely many blocks.
LEMMA PatternFinite ==
    ASSUME NEW pr \in Problems, NEW r \in pr.req
    PROVE  IsFiniteSet(DOMAIN pr.sizes[r]) /\ IsFiniteSet(Range(pr.sizes[r]) \ {1})
  <1> DEFINE f == pr.sizes[r]
             D == DOMAIN f
             R == Range(f)
  <1>1. f \in Seq(Nat)
    BY ProblemAssumption
  <1> HIDE DEF f
  <1>2. D = 1 .. Len(f) /\ Len(f) \in Nat
    BY <1>1
  <1>3. IsFiniteSet(D)
    BY <1>2, FS_Interval
  <1>4. [i \in D |-> f[i]] \in Surjection(D, R)
    BY DEF Surjection, Range
  <1> HIDE DEF D, R
  <1>5. IsFiniteSet(R)
    BY <1>3, <1>4, FS_Surjection
  <1>6. R \ {1} \in SUBSET R
    OBVIOUS
  <1>7. IsFiniteSet(R \ {1})
    BY <1>5, <1>6, FS_Subset
  <1> QED BY <1>3, <1>7 DEF f, D, R

\* The blocks of one size in a pattern.
OfSize(pr, r, k) == {i \in DOMAIN pr.sizes[r] : pr.sizes[r][i] = k}

\* The sizes of a REQUIRED pattern are of a day, and but one is above one if it
\* is not nested.
LEMMA PatternSizes ==
    ASSUME NEW pr \in Problems, NEW r \in pr.req, pr.mode[r] = "REQUIRED"
    PROVE  /\ \A k \in Range(pr.sizes[r]) : k \in Nat \ {0} /\ k \in 1 .. Cardinality(Periods(pr))
           /\ \A k : IsFiniteSet(OfSize(pr, r, k)) /\ (OfSize(pr, r, k) = {} <=> k \notin Range(pr.sizes[r]))
           /\ ~HasNestedBlocks(pr) => \A a, b \in Range(pr.sizes[r]) \ {1} : a = b
  <1>1. Cardinality(Periods(pr)) \in Nat
    BY ProblemAssumption, FS_CardinalityType
  <1>2. \A i \in DOMAIN pr.sizes[r] : pr.sizes[r][i] \in 1 .. Cardinality(Periods(pr))
    BY ProblemAssumption
  <1>3. \A k : OfSize(pr, r, k) = {} <=> k \notin Range(pr.sizes[r])
    BY DEF Range, OfSize
  <1>5. ASSUME NEW k PROVE IsFiniteSet(OfSize(pr, r, k))
    <2> DEFINE D == DOMAIN pr.sizes[r]
               I == {i \in D : pr.sizes[r][i] = k}
    <2>1. IsFiniteSet(D) /\ I \in SUBSET D
      BY PatternFinite
    <2> HIDE DEF I, D
    <2>2. IsFiniteSet(I)
      BY <2>1, FS_Subset
    <2> QED BY <2>2 DEF I, D, OfSize
  <1>6. ASSUME ~HasNestedBlocks(pr), NEW a \in Range(pr.sizes[r]) \ {1}, NEW b \in Range(pr.sizes[r]) \ {1}
        PROVE  a = b
    <2> DEFINE R == Range(pr.sizes[r]) \ {1}
    <2>1. ~(Cardinality(R) > 1)
      BY <1>6 DEF HasNestedBlocks
    <2>2. IsFiniteSet(R) /\ a \in R /\ b \in R
      BY PatternFinite
    <2> HIDE DEF R
    <2>3. Cardinality(R) <= 1
      BY <2>1, <2>2, FS_CardinalityType
    <2> QED BY <2>2, <2>3, OneMember
  <1>8. \A k \in Range(pr.sizes[r]) : k \in Nat \ {0} /\ k \in 1 .. Cardinality(Periods(pr))
    BY <1>1, <1>2 DEF Range
  <1> QED BY <1>3, <1>5, <1>6, <1>8

\* The blocks of a REQUIRED pattern are counted alike if it is not nested.
LEMMA AcceptedBlocks ==
    ASSUME NEW pr, NEW e, Accepted(pr, e), ~HasNestedBlocks(pr) PROVE RequiredBlocks(pr, LessonsOf(pr, e))
  <1> SUFFICES ASSUME NEW r \in pr.req, pr.mode[r] = "REQUIRED"
               PROVE  LET Count(length) == Cardinality(OfSize(pr, r, length))
                          DaysWith(length) == {d \in pr.day : Cardinality(PeriodsOn(LessonsOf(pr, e), r, d)) = length}
                          Lengths == Range(pr.sizes[r])
                      IN /\ \A d \in pr.day : Cardinality(PeriodsOn(LessonsOf(pr, e), r, d)) \in Lengths \cup {0}
                         /\ \A length \in Lengths : Cardinality(DaysWith(length)) = Count(length)
                         /\ \A length \in Lengths \ {1}, d \in pr.day :
                                Cardinality(FullWindows(pr, LessonsOf(pr, e), r, d, length))
                                    = IF d \in DaysWith(length) THEN 1 ELSE 0
    BY DEF RequiredBlocks, OfSize
  <1> DEFINE L == LessonsOf(pr, e)
             Sizes(k) == OfSize(pr, r, k)
             DaysWith(k) == {d \in pr.day : Cardinality(PeriodsOn(L, r, d)) = k}
             Lengths == Range(pr.sizes[r])
             most == Cardinality(Periods(pr))
  <1>1. pr \in Problems /\ IsFiniteSet(pr.day) /\ IsFiniteSet(Periods(pr)) /\ Periods(pr) \subseteq Nat
    BY ProblemAssumption DEF Accepted
  <1>2. ASSUME NEW d \in pr.day
        PROVE  /\ PeriodsOn(L, r, d) = PeriodsOn(e, r, d) /\ PeriodsOn(L, r, d) \subseteq Periods(pr)
               /\ IsFiniteSet(PeriodsOn(L, r, d)) /\ Cardinality(PeriodsOn(L, r, d)) \in 0 .. most
               /\ IsRun(pr, PeriodsOn(L, r, d))
    <2>1. PeriodsOn(L, r, d) = PeriodsOn(e, r, d)
      BY AcceptedOfRequirement
    <2>2. PeriodsOn(e, r, d) \subseteq Periods(pr)
      BY AcceptedFacts DEF PeriodsOn
    <2>3. IsRun(pr, PeriodsOn(e, r, d))
      BY DEF Accepted, Verified, RequiredBlocksKept
    <2> DEFINE S == PeriodsOn(L, r, d)
               n == Cardinality(S)
    <2>4. S \in SUBSET Periods(pr)
      BY <2>1, <2>2
    <2> HIDE DEF S
    <2>5. IsFiniteSet(S) /\ n <= most /\ n \in Nat /\ most \in Nat
      BY <1>1, <2>4, FS_Subset, FS_CardinalityType
    <2> HIDE DEF n, most
    <2>6. n \in 0 .. most
      BY <2>5
    <2> QED BY <2>1, <2>3, <2>4, <2>5, <2>6 DEF S, n
  <1>3. ASSUME NEW k \in 1 .. most PROVE Cardinality(DaysWith(k)) = Cardinality(Sizes(k))
    <2>1. DaysWith(k) = {d \in pr.day : Cardinality(PeriodsOn(e, r, d)) = k}
      BY <1>2
    <2> QED BY <2>1 DEF Accepted, Verified, RequiredBlocksKept, OfSize
  <1>4. ASSUME NEW d \in pr.day PROVE Cardinality(PeriodsOn(L, r, d)) \in Lengths \cup {0}
    <2> DEFINE k == Cardinality(PeriodsOn(L, r, d))
    <2>1. k \in 0 .. most
      BY <1>2
    <2>2. d \in DaysWith(k)
      OBVIOUS
    <2>3. IsFiniteSet(DaysWith(k))
      <3>1. DaysWith(k) \in SUBSET pr.day
        OBVIOUS
      <3> HIDE DEF DaysWith
      <3> QED BY <1>1, <3>1, FS_Subset
    <2> HIDE DEF k, DaysWith, most, Sizes
    <2>4. CASE k = 0
      BY <2>4 DEF k
    <2>5. CASE k # 0
      <3>1. most \in Nat
        BY <1>1, FS_CardinalityType DEF most
      <3>2. k \in 1 .. most
        BY <2>1, <2>5, <3>1
      <3>3. Cardinality(DaysWith(k)) # 0
        BY <2>2, <2>3, FS_EmptySet
      <3>4. Cardinality(Sizes(k)) # 0
        BY <1>3, <3>2, <3>3
      <3>5. Sizes(k) # {}
        BY <3>4, FS_EmptySet
      <3> QED BY <1>1, <3>5, PatternSizes DEF Sizes, k
    <2> QED BY <2>4, <2>5
  <1>5. ASSUME NEW k \in Lengths PROVE k \in 1 .. most /\ Cardinality(DaysWith(k)) = Cardinality(Sizes(k))
    <2>1. k \in 1 .. most
      BY <1>1, PatternSizes
    <2> HIDE DEF DaysWith, Sizes, most
    <2> QED BY <1>3, <2>1
  <1>6. ASSUME NEW k \in Lengths \ {1}, NEW d \in pr.day
        PROVE  Cardinality(FullWindows(pr, L, r, d, k)) = IF d \in DaysWith(k) THEN 1 ELSE 0
    <2> DEFINE n == Cardinality(PeriodsOn(L, r, d))
    <2>1. k \in Nat \ {0} /\ k # 1
      BY <1>1, PatternSizes
    <2>2. CASE n = k
      <3>1. Cardinality(FullWindows(pr, L, r, d, k)) = 1
        BY <1>1, <1>2, <2>1, <2>2, WindowOfRun
      <3> QED BY <2>2, <3>1
    <2>3. CASE n # k
      <3>1. ASSUME NEW p \in FullWindows(pr, L, r, d, k) PROVE FALSE
        <4>1. k <= n
          BY <1>1, <1>2, <2>1, WindowInDay
        <4>2. n \in Lengths \cup {0} /\ n \in Nat
          BY <1>2, <1>4
        <4> HIDE DEF n
        <4>3. n \in Lengths \ {1}
          BY <2>1, <2>3, <4>1, <4>2
        <4> QED BY <1>1, <2>3, <4>3, PatternSizes
      <3>2. FullWindows(pr, L, r, d, k) = {}
        BY <3>1
      <3> QED BY <2>3, <3>2, FS_EmptySet
    <2> QED BY <2>2, <2>3
  <1> QED BY <1>4, <1>5, <1>6

(***************************************************************************)
(* What the verifier accepts satisfies the hard constraints of the model,  *)
(* unless a pattern is nested; then nothing does.                          *)
(***************************************************************************)
LEMMA AcceptedIsModel ==
    ASSUME NEW pr, NEW e, Accepted(pr, e), ~HasNestedBlocks(pr) PROVE HardModel(pr, LessonsOf(pr, e))
  <1>1. LessonsOf(pr, e) \subseteq Lessons(pr)
    BY DEF Accepted, LessonsOf
  <1>2. \A x \in LessonsOf(pr, e) : LessonPossible(pr, x)
    BY AcceptedPossible
  <1>3. /\ TeacherNonOverlap(pr, LessonsOf(pr, e)) /\ GroupNonOverlap(pr, LessonsOf(pr, e))
        /\ ClassOccupancy(pr, LessonsOf(pr, e)) /\ ResourceCapacity(pr, LessonsOf(pr, e))
    BY AcceptedTeachers, AcceptedGroups, AcceptedOccupancy, AcceptedCapacity
  <1> QED BY <1>1, <1>2, <1>3, AcceptedOfRequirements, AcceptedBlocks DEF HardModel

\* A nested pattern has two sizes above one.
LEMMA NestedSizes ==
    ASSUME NEW pr \in Problems, HasNestedBlocks(pr)
    PROVE  \E r \in pr.req : pr.mode[r] = "REQUIRED" /\ \E a, b \in Range(pr.sizes[r]) \ {1} : a # b
  <1>1. PICK r \in pr.req : pr.mode[r] = "REQUIRED" /\ Cardinality(Range(pr.sizes[r]) \ {1}) > 1
    BY DEF HasNestedBlocks
  <1> DEFINE R == Range(pr.sizes[r]) \ {1}
  <1>2. SUFFICES ASSUME \A a, b \in R : a = b PROVE FALSE
    BY <1>1
  <1> HIDE DEF R
  <1>3. Cardinality(R) \in {0, 1}
    BY <1>2, AtMostOne
  <1> QED BY <1>1, <1>3 DEF R

\* A window contains the shorter one that starts with it.
LEMMA WindowInWindow ==
    ASSUME NEW pr, Periods(pr) \subseteq Nat, NEW L, NEW r, NEW d,
           NEW a \in Nat, NEW b \in Nat, a <= b, NEW p \in FullWindows(pr, L, r, d, b)
    PROVE  p \in FullWindows(pr, L, r, d, a)
  <1>1. p \in Periods(pr) /\ p \in Nat /\ IsRun(pr, p .. p + b - 1) /\ p .. p + b - 1 \subseteq PeriodsOn(L, r, d)
    BY DEF FullWindows
  <1>2. p .. p + a - 1 \subseteq p .. p + b - 1 /\ \A x, y \in p .. p + a - 1 : x .. y \subseteq p .. p + a - 1
    BY <1>1
  <1> DEFINE short == p .. p + a - 1
             long == p .. p + b - 1
  <1>3. IsRun(pr, short)
    <2> HIDE DEF short, long
    <2> QED BY <1>1, <1>2 DEF IsRun, short, long
  <1> QED BY <1>1, <1>2, <1>3 DEF FullWindows

\* The windows of the shorter block are counted within the longer one.
LEMMA NestedHasNoModel ==
    ASSUME NEW pr \in Problems, HasNestedBlocks(pr), NEW L, HardModel(pr, L) PROVE FALSE
  <1>1. PICK r \in pr.req : pr.mode[r] = "REQUIRED" /\ \E a, b \in Range(pr.sizes[r]) \ {1} : a # b
    BY NestedSizes
  <1> DEFINE Sizes(k) == OfSize(pr, r, k)
             DaysWith(k) == {d \in pr.day : Cardinality(PeriodsOn(L, r, d)) = k}
             Lengths == Range(pr.sizes[r])
  <1>2. /\ \A k \in Lengths : Cardinality(DaysWith(k)) = Cardinality(Sizes(k))
        /\ \A k \in Lengths \ {1}, d \in pr.day :
               Cardinality(FullWindows(pr, L, r, d, k)) = IF d \in DaysWith(k) THEN 1 ELSE 0
    <2>1. RequiredBlocks(pr, L) /\ r \in {s \in pr.req : pr.mode[s] = "REQUIRED"}
      BY <1>1 DEF HardModel
    <2> QED BY <2>1 DEF RequiredBlocks, OfSize
  <1>3. \A k \in Lengths : k \in Nat /\ Sizes(k) # {} /\ IsFiniteSet(Sizes(k))
    BY <1>1, PatternSizes
  <1>4. Periods(pr) \subseteq Nat /\ IsFiniteSet(Periods(pr))
    BY ProblemAssumption
  <1>5. ASSUME NEW a \in Lengths \ {1}, NEW b \in Lengths \ {1}, a < b PROVE FALSE
    <2>1. Cardinality(Sizes(b)) # 0
      <3> HIDE DEF Sizes
      <3> QED BY <1>3, FS_EmptySet
    <2>2. DaysWith(b) # {}
      <3> HIDE DEF Sizes, DaysWith
      <3> QED BY <1>2, <2>1, FS_EmptySet
    <2>3. PICK d \in pr.day : Cardinality(PeriodsOn(L, r, d)) = b
      BY <2>2
    <2>4. Cardinality(FullWindows(pr, L, r, d, b)) = 1 /\ Cardinality(FullWindows(pr, L, r, d, a)) = 0
      <3>1. d \in DaysWith(b) /\ d \notin DaysWith(a)
        BY <1>5, <1>3, <2>3
      <3> HIDE DEF DaysWith, Lengths
      <3> QED BY <1>2, <3>1
    <2>5. FullWindows(pr, L, r, d, b) # {}
      BY <2>4, FS_EmptySet
    <2>6. FullWindows(pr, L, r, d, a) # {}
      <3>1. PICK p : p \in FullWindows(pr, L, r, d, b)
        BY <2>5
      <3>2. a \in Nat /\ b \in Nat /\ a <= b
        BY <1>3, <1>5
      <3>3. p \in FullWindows(pr, L, r, d, a)
        BY <1>4, <3>1, <3>2, WindowInWindow
      <3> QED BY <3>3
    <2>7. IsFiniteSet(FullWindows(pr, L, r, d, a))
      <3>1. FullWindows(pr, L, r, d, a) \in SUBSET Periods(pr)
        BY DEF FullWindows
      <3> QED BY <1>4, <3>1, FS_Subset
    <2> QED BY <2>4, <2>6, <2>7, FS_EmptySet
  <1>6. PICK a \in Lengths \ {1} : \E b \in Lengths \ {1} : a # b
    BY <1>1
  <1>7. PICK b \in Lengths \ {1} : a # b
    BY <1>6
  <1>8. a < b \/ b < a
    <2>1. a \in Nat /\ b \in Nat
      BY <1>3
    <2> QED BY <1>7, <2>1
  <1> QED BY <1>5, <1>8

-----------------------------------------------------------------------------
(***************************************************************************)
(* The search space: what is accepted is a candidate.                      *)
(***************************************************************************)
\* The grid of a problem, and the steps of the fold over it.
Grid(pr) == Lessons(pr) \cup ReservedEntries(pr)

\* A step of the fold stays on the grid.
LEMMA PlacementsOnGrid ==
    ASSUME NEW pr, NEW r \in pr.req, NEW partial \in SUBSET SUBSET Grid(pr)
    PROVE  Placements(pr, r, partial) \in SUBSET SUBSET Grid(pr)
  <1>1. ASSUME NEW e \in partial, NEW slots \in kSubset(pr.weekly[r], Slots(pr) \ Busy(pr, e, r)),
               NEW x \in Placed(pr, r, slots)
        PROVE  x \in Grid(pr)
    <2>1. PICK s \in Branches(pr, r), slot \in slots : x = <<s, slot[1], slot[2]>>
      BY <1>1 DEF Placed
    <2>2. slot \in Slots(pr)
      BY DEF kSubset
    <2>3. s \in pr.req /\ slot[1] \in pr.day /\ slot[2] \in Periods(pr)
      BY <2>1, <2>2 DEF Branches, Slots
    <2> QED BY <2>1, <2>3 DEF Grid, Lessons
  <1>2. ASSUME NEW f \in Placements(pr, r, partial) PROVE f \subseteq Grid(pr)
    <2>1. PICK e \in partial : \E slots \in kSubset(pr.weekly[r], Slots(pr) \ Busy(pr, e, r)) :
                                   f = e \cup Placed(pr, r, slots)
      BY <1>2 DEF Placements
    <2> QED BY <1>1, <2>1
  <1> QED BY <1>2

\* The candidates are the value of a function on sets of representatives.
LEMMA CandidatesFold ==
    ASSUME NEW pr \in Problems
    PROVE  \E g \in [SUBSET Representatives(pr) -> SUBSET SUBSET Grid(pr)] :
               /\ Candidates(pr) = g[Representatives(pr)]
               /\ \A s \in SUBSET Representatives(pr) :
                      g[s] = IF s = {} THEN {ReservedEntries(pr)} ELSE Placements(pr, Pick(s), g[s \ {Pick(s)}])
  <1> DEFINE S == Representatives(pr)
             V == SUBSET SUBSET Grid(pr)
             base == {ReservedEntries(pr)}
             G == [z \in S \X V |-> Placements(pr, z[1], z[2])]
             Step(g, s) == IF s = {} THEN base ELSE Placements(pr, Pick(s), g[s \ {Pick(s)}])
             iter == CHOOSE g : g = [s \in SUBSET S |-> Step(g, s)]
  <1>1. \A r \in S : r \in pr.req
    BY DEF Representatives
  <1>2. IsFiniteSet(S)
    <2>1. S \in SUBSET pr.req
      BY DEF Representatives
    <2>2. IsFiniteSet(pr.req)
      BY ProblemAssumption
    <2> HIDE DEF S
    <2> QED BY <2>1, <2>2, FS_Subset
  <1>3. base \in V
    BY DEF Grid
  <1>4. G \in [S \X V -> V]
    <2> SUFFICES ASSUME NEW r \in S, NEW partial \in V PROVE Placements(pr, r, partial) \in V
      OBVIOUS
    <2> QED BY <1>1, PlacementsOnGrid
  <1>5. PICK g : IsFold(g, S, V, base, G)
    <2> HIDE DEF S, V, base, G
    <2> QED BY <1>2, <1>3, <1>4, FoldExists
  <1>6. \A s \in SUBSET S : g[s] = Step(g, s)
    <2> SUFFICES ASSUME NEW s \in SUBSET S, s # {}
                 PROVE  G[<<Pick(s), g[s \ {Pick(s)}]>>] = Placements(pr, Pick(s), g[s \ {Pick(s)}])
      <3> HIDE DEF S, V, G
      <3> QED BY <1>5 DEF IsFold
    <2>1. Pick(s) \in S /\ s \ {Pick(s)} \in SUBSET S
      BY DEF Pick
    <2>2. g[s \ {Pick(s)}] \in V
      <3> HIDE DEF S, V, G
      <3> QED BY <1>5, <2>1 DEF IsFold
    <2> HIDE DEF S, V
    <2> QED BY <2>1, <2>2
  <1>7. g = [s \in SUBSET S |-> Step(g, s)]
    <2> HIDE DEF Step, S, V, G
    <2> QED BY <1>5, <1>6 DEF IsFold
  <1>8. iter = [s \in SUBSET S |-> Step(iter, s)]
    <2> HIDE DEF Step, S, V
    <2> QED BY <1>7
  <1>9. Candidates(pr) = iter[S]
    BY DEF Candidates, FoldSet, MapThenFoldSet, Pick
  <1>10. \A s \in SUBSET S : iter[s] \in V
    <2> DEFINE Good == {s \in SUBSET S : iter[s] \in V}
    <2> HIDE DEF iter
    <2>1. \A s \in SUBSET S : iter[s] = Step(iter, s)
      <3> HIDE DEF Step
      <3> QED BY <1>8
    <2>2. {} \in Good
      BY <1>3, <2>1
    <2>3. ASSUME NEW s \in SUBSET S, s # {}, s \ {Pick(s)} \in Good PROVE s \in Good
      <3>1. Pick(s) \in pr.req
        BY <1>1, <2>3 DEF Pick
      <3>2. iter[s \ {Pick(s)}] \in V
        BY <2>3
      <3>3. Placements(pr, Pick(s), iter[s \ {Pick(s)}]) \in V
        <4> DEFINE r == Pick(s)
                   partial == iter[s \ {Pick(s)}]
        <4>1. r \in pr.req /\ partial \in SUBSET SUBSET Grid(pr)
          BY <3>1, <3>2
        <4> HIDE DEF r, partial
        <4>2. Placements(pr, r, partial) \in SUBSET SUBSET Grid(pr)
          BY <4>1, PlacementsOnGrid
        <4> QED BY <4>2 DEF r, partial
      <3> QED BY <2>1, <2>3, <3>3
    <2> HIDE DEF Good, S
    <2>4. \A s \in SUBSET S : s \in Good
      BY <1>2, <2>2, <2>3, PickInduction
    <2> QED BY <2>4 DEF Good
  <1>11. iter \in [SUBSET S -> V]
    <2> HIDE DEF iter, Step, S, V
    <2> QED BY <1>8, <1>10
  <1> HIDE DEF iter
  <1>12. \A s \in SUBSET S : iter[s] = Step(iter, s)
    <2> HIDE DEF Step
    <2> QED BY <1>8
  <1> QED BY <1>9, <1>11, <1>12

\* The slots of a requirement.
SlotsOf(e, r) == {<<x[2], x[3]>> : x \in {y \in e : y[1] = r}}

\* The lessons of a split are those of its representative, in every branch.
LEMMA AcceptedPlaced ==
    ASSUME NEW pr, NEW e, Accepted(pr, e), NEW r \in pr.req
    PROVE  /\ {x \in e : x[1] \in Branches(pr, r)} = Placed(pr, r, SlotsOf(e, r))
           /\ SlotsOf(e, r) \subseteq Slots(pr) /\ Cardinality(SlotsOf(e, r)) = pr.weekly[r]
  <1> DEFINE own == {y \in e : y[1] = r}
             slots == SlotsOf(e, r)
             lessons == {x \in e : x[1] \in Branches(pr, r)}
             place == [x \in own |-> <<x[2], x[3]>>]
  <1>1. \A x \in e : x = <<x[1], x[2], x[3]>> /\ x[2] \in pr.day /\ x[3] \in Periods(pr)
    BY AcceptedFacts
  <1>2. \A s \in Branches(pr, r) : SlotsOf(e, s) = slots
    BY DEF Accepted, Verified, SplitsSynchronized, SlotsOf
  <1>3. \A x \in lessons : x \in Placed(pr, r, slots)
    <2> SUFFICES ASSUME NEW x \in e, x[1] \in Branches(pr, r) PROVE x \in Placed(pr, r, slots)
      OBVIOUS
    <2> DEFINE z == <<x[2], x[3]>>
    <2>1. z \in SlotsOf(e, x[1])
      BY DEF SlotsOf
    <2>2. z \in slots
      <3> HIDE DEF z, slots
      <3> QED BY <1>2, <2>1
    <2>3. x = <<x[1], z[1], z[2]>>
      BY <1>1
    <2> HIDE DEF z, slots
    <2> QED BY <2>2, <2>3 DEF Placed
  <1>4. \A x \in Placed(pr, r, slots) : x \in lessons
    <2> SUFFICES ASSUME NEW s \in Branches(pr, r), NEW z \in slots PROVE <<s, z[1], z[2]>> \in lessons
      BY DEF Placed
    <2>1. z \in SlotsOf(e, s)
      BY <1>2
    <2>2. PICK x \in e : x[1] = s /\ z = <<x[2], x[3]>>
      BY <2>1 DEF SlotsOf
    <2>3. <<s, z[1], z[2]>> = x
      BY <1>1, <2>2
    <2> QED BY <2>2, <2>3
  <1>5. slots \subseteq Slots(pr)
    BY <1>1 DEF SlotsOf, Slots
  <1>6. place \in Bijection(own, slots)
    <2>1. \A x \in own : place[x] \in slots
      BY DEF SlotsOf
    <2>2. ASSUME NEW x \in own, NEW y \in own, place[x] = place[y] PROVE x = y
      BY <1>1, <2>2
    <2>3. \A z \in slots : \E x \in own : place[x] = z
      BY DEF SlotsOf
    <2>4. place \in [own -> slots]
      BY <2>1
    <2> HIDE DEF place, own, slots
    <2> QED BY <2>2, <2>3, <2>4 DEF Bijection, Injection, IsInjective, Surjection
  <1>7. Cardinality(own) = pr.weekly[r]
    BY DEF Accepted, Verified, WeeklyLessonsPlaced
  <1>8. IsFiniteSet(own)
    <2>1. IsFiniteSet(e) /\ own \in SUBSET e
      BY AcceptedFacts
    <2> HIDE DEF own
    <2> QED BY <2>1, FS_Subset
  <1>9. Cardinality(slots) = pr.weekly[r]
    <2> HIDE DEF own, slots, place
    <2> QED BY <1>6, <1>7, <1>8, FS_Bijection DEF ExistsBijection
  <1>10. lessons = Placed(pr, r, slots)
    <2> HIDE DEF lessons
    <2> QED BY <1>3, <1>4
  <1> QED BY <1>5, <1>9, <1>10

\* What shares a class with a lesson and a slot is of its split.
LEMMA AcceptedApart ==
    ASSUME NEW pr, NEW e, Accepted(pr, e), NEW x \in e, x[1] \in pr.req, NEW y \in e, SameSlot(x, y),
           pr.classes[y[1]] \cap pr.classes[x[1]] # {}
    PROVE  y[1] \in Branches(pr, x[1])
  <1>1. pr \in Problems /\ Triples(e) /\ Storable(pr, e) /\ ClassesFullyOccupied(pr, e)
    BY AcceptedFacts DEF Accepted, Verified
  <1>2. /\ x = <<x[1], x[2], x[3]>> /\ x[2] \in pr.day /\ x[3] \in Periods(pr)
        /\ y = <<y[1], y[2], y[3]>> /\ y[1] \in pr.req \cup pr.reserved
    BY AcceptedFacts
  <1>3. y = <<y[1], x[2], x[3]>>
    BY <1>2 DEF SameSlot
  <1> QED BY <1>1, <1>2, <1>3, SharedCellSameSplit

\* One representative for each requirement.
LEMMA Represented ==
    ASSUME NEW pr, NEW r \in pr.req
    PROVE  /\ \E s \in Representatives(pr) : r \in Branches(pr, s)
           /\ \A s, t \in Representatives(pr) : r \in Branches(pr, s) /\ r \in Branches(pr, t) => s = t
  <1> DEFINE s == CHOOSE t \in Branches(pr, r) : TRUE
  <1>1. r \in Branches(pr, r)
    BY DEF Branches
  <1>2. s \in Branches(pr, r)
    BY <1>1
  <1>3. s \in pr.req /\ r \in Branches(pr, s) /\ Branches(pr, s) = Branches(pr, r)
    BY <1>2, BranchesOfBranch
  <1>4. s \in Representatives(pr)
    BY <1>3 DEF Representatives, IsRepresentative
  <1>5. ASSUME NEW t \in Representatives(pr), r \in Branches(pr, t) PROVE t = s
    <2>1. t \in pr.req /\ IsRepresentative(pr, t)
      BY DEF Representatives
    <2>2. Branches(pr, t) = Branches(pr, r)
      BY <1>5, <2>1, BranchesOfBranch
    <2> QED BY <2>1, <2>2 DEF IsRepresentative
  <1> HIDE DEF s
  <1> QED BY <1>3, <1>4, <1>5

(***************************************************************************)
(* The search space is large enough: whatever the verifier accepts is in   *)
(* it, as the lessons of any of the splits can be placed one split after   *)
(* the other.                                                              *)
(***************************************************************************)
THEOREM AcceptedIsCandidate ==
    ASSUME NEW pr, NEW e, Accepted(pr, e) PROVE e \in Candidates(pr)
  <1> DEFINE S == Representatives(pr)
             Of(s) == {x \in e : x[1] \in pr.req /\ \E r \in s : x[1] \in Branches(pr, r)}
             Part(s) == ReservedEntries(pr) \cup Of(s)
  <1>1. pr \in Problems
    BY DEF Accepted
  <1>2. PICK g \in [SUBSET S -> SUBSET SUBSET Grid(pr)] :
            /\ Candidates(pr) = g[S]
            /\ \A s \in SUBSET S :
                   g[s] = IF s = {} THEN {ReservedEntries(pr)} ELSE Placements(pr, Pick(s), g[s \ {Pick(s)}])
    BY <1>1, CandidatesFold
  <1> DEFINE Good == {s \in SUBSET S : Part(s) \in g[s]}
  <1>3. {} \in Good
    <2>1. Of({}) = {}
      OBVIOUS
    <2>2. g[{}] = {ReservedEntries(pr)}
      BY <1>2
    <2> HIDE DEF Of
    <2> QED BY <2>1, <2>2
  <1>4. ASSUME NEW s \in SUBSET S, s # {}, s \ {Pick(s)} \in Good
        PROVE  s \in Good
    <2> DEFINE r == Pick(s)
               rest == s \ {r}
               slots == SlotsOf(e, r)
    <2>1. r \in s /\ r \in S /\ r \in pr.req
      BY <1>4 DEF Pick, Representatives
    <2>2. g[s] = Placements(pr, r, g[rest]) /\ Part(rest) \in g[rest]
      BY <1>2, <1>4
    <2> HIDE DEF r, slots
    <2>3. /\ {x \in e : x[1] \in Branches(pr, r)} = Placed(pr, r, slots)
          /\ slots \subseteq Slots(pr) /\ Cardinality(slots) = pr.weekly[r]
      BY <2>1, AcceptedPlaced DEF slots
    <2>4. Part(s) = Part(rest) \cup Placed(pr, r, slots)
      <3>1. \A t \in Branches(pr, r) : t \in pr.req
        BY DEF Branches
      <3>2. Of(s) = Of(rest) \cup {x \in e : x[1] \in Branches(pr, r)}
        BY <2>1, <3>1
      <3> HIDE DEF Of
      <3> QED BY <2>3, <3>2
    <2>5. slots \cap Busy(pr, Part(rest), r) = {}
      <3> SUFFICES ASSUME NEW z \in slots, z \in Busy(pr, Part(rest), r) PROVE FALSE
        OBVIOUS
      <3>1. PICK x \in e : x[1] = r /\ z = <<x[2], x[3]>>
        BY DEF slots, SlotsOf
      <3>2. PICK y \in Part(rest) : pr.classes[y[1]] \cap pr.classes[r] # {} /\ z = <<y[2], y[3]>>
        BY DEF Busy
      <3>3. y \in e
        BY AcceptedFacts
      <3>4. y[1] \in Branches(pr, r)
        <4>1. SameSlot(x, y)
          BY <3>1, <3>2 DEF SameSlot
        <4> QED BY <2>1, <3>1, <3>2, <3>3, <4>1, AcceptedApart
      <3>5. y[1] \in pr.req
        BY <3>4 DEF Branches
      <3>6. y \in Of(rest)
        <4>1. y \notin ReservedEntries(pr)
          <5>1. pr.req \cap pr.reserved = {}
            BY <1>1, ProblemAssumption
          <5> QED BY <3>5, <5>1 DEF ReservedEntries
        <4> QED BY <4>1
      <3>7. PICK t \in rest : y[1] \in Branches(pr, t)
        BY <3>6
      <3>8. t = r
        <4>1. t \in S /\ t # r
          BY <3>7
        <4> QED BY <2>1, <3>4, <3>5, <3>7, <4>1, Represented
      <3> QED BY <3>7, <3>8
    <2>6. slots \in kSubset(pr.weekly[r], Slots(pr) \ Busy(pr, Part(rest), r))
      <3> HIDE DEF Part
      <3> QED BY <2>3, <2>5 DEF kSubset
    <2> DEFINE f == Part(rest)
    <2>7. f \cup Placed(pr, r, slots) \in Placements(pr, r, g[rest])
      <3> DEFINE partial == g[rest]
                 all(e0) == {e0 \cup Placed(pr, r, w) : w \in kSubset(pr.weekly[r], Slots(pr) \ Busy(pr, e0, r))}
      <3>1. f \in partial /\ slots \in kSubset(pr.weekly[r], Slots(pr) \ Busy(pr, f, r))
        BY <2>2, <2>6
      <3>2. Placements(pr, r, partial) = UNION {all(e0) : e0 \in partial}
        BY DEF Placements
      <3> HIDE DEF f, partial
      <3>3. f \cup Placed(pr, r, slots) \in all(f)
        BY <3>1
      <3> HIDE DEF all
      <3>4. f \cup Placed(pr, r, slots) \in Placements(pr, r, partial)
        BY <3>1, <3>2, <3>3
      <3> QED BY <3>4 DEF partial
    <2> HIDE DEF Part, rest
    <2> QED BY <2>2, <2>4, <2>7 DEF f, r
  <1>5. S \in Good
    <2>1. IsFiniteSet(S)
      <3>1. S \in SUBSET pr.req /\ IsFiniteSet(pr.req)
        BY <1>1, ProblemAssumption DEF Representatives
      <3> HIDE DEF S
      <3> QED BY <3>1, FS_Subset
    <2> HIDE DEF S, Good
    <2>2. \A s \in SUBSET S : s # {} /\ s \ {Pick(s)} \in Good => s \in Good
      BY <1>4
    <2>3. \A s \in SUBSET S : s \in Good
      BY <1>3, <2>1, <2>2, PickInduction
    <2> QED BY <2>3
  <1>6. Part(S) = e
    <2>1. \A x \in e : x[1] \in pr.req => x \in Of(S)
      BY Represented
    <2> HIDE DEF Of
    <2>2. \A x \in e : x \in Part(S)
      BY <2>1, AcceptedFacts
    <2>3. \A x \in Part(S) : x \in e
      BY AcceptedFacts DEF Of
    <2> HIDE DEF Part
    <2> QED BY <2>2, <2>3
  <1> QED BY <1>2, <1>5, <1>6

\* No candidate leaves the grid.
LEMMA CandidatesOnGrid ==
    ASSUME NEW pr \in Problems, NEW e \in Candidates(pr) PROVE e \subseteq Lessons(pr) \cup ReservedEntries(pr)
  <1>1. PICK g \in [SUBSET Representatives(pr) -> SUBSET SUBSET Grid(pr)] : Candidates(pr) = g[Representatives(pr)]
    BY CandidatesFold
  <1>2. Candidates(pr) \in SUBSET SUBSET Grid(pr)
    BY <1>1
  <1> QED BY <1>2 DEF Grid

-----------------------------------------------------------------------------
(***************************************************************************)
(* What passes has nothing beside the grid, if anything can be accepted.   *)
(***************************************************************************)
OfKind(S, r) == {x \in S : x[1] = r}

\* Sets with as many members of every kind have as many members.
LEMMA SameNumber ==
    ASSUME NEW A, NEW B, IsFiniteSet(A), IsFiniteSet(B), NEW R, \A x \in A \cup B : x[1] \in R,
           \A r \in R : Cardinality(OfKind(A, r)) = Cardinality(OfKind(B, r))
    PROVE  Cardinality(A) = Cardinality(B)
  <1> DEFINE Part(S, r) == OfKind(S, r)
             match == [r \in R |-> CHOOSE h : h \in Bijection(Part(A, r), Part(B, r))]
             map == [x \in A |-> match[x[1]][x]]
  <1>1. ASSUME NEW r \in R PROVE match[r] \in Bijection(Part(A, r), Part(B, r))
    <2>1. Part(A, r) \in SUBSET A /\ Part(B, r) \in SUBSET B
      BY DEF OfKind
    <2>2. Cardinality(Part(A, r)) = Cardinality(Part(B, r))
      OBVIOUS
    <2> HIDE DEF Part
    <2>3. IsFiniteSet(Part(A, r)) /\ IsFiniteSet(Part(B, r))
      BY <2>1, FS_Subset
    <2>4. \E h : h \in Bijection(Part(A, r), Part(B, r))
      BY <2>2, <2>3, FS_SameCardinalityBij DEF ExistsBijection
    <2> QED BY <2>4
  <1> HIDE DEF match
  <1>2. ASSUME NEW x \in A PROVE map[x] \in B /\ map[x][1] = x[1]
    <2>1. x[1] \in R /\ x \in Part(A, x[1])
      BY DEF OfKind
    <2>2. match[x[1]][x] \in Part(B, x[1])
      <3> HIDE DEF Part
      <3> QED BY <1>1, <2>1 DEF Bijection, Injection
    <2> QED BY <2>2 DEF OfKind
  <1>3. ASSUME NEW x \in A, NEW y \in A, map[x] = map[y] PROVE x = y
    <2>1. x[1] = y[1]
      BY <1>2, <1>3
    <2>2. x[1] \in R /\ x \in Part(A, x[1]) /\ y \in Part(A, x[1]) /\ match[x[1]][x] = match[x[1]][y]
      BY <1>3, <2>1 DEF OfKind
    <2> HIDE DEF Part, map
    <2> QED BY <1>1, <2>2 DEF Bijection, Injection, IsInjective
  <1>4. ASSUME NEW z \in B PROVE \E x \in A : map[x] = z
    <2>1. z[1] \in R /\ z \in Part(B, z[1])
      BY DEF OfKind
    <2>2. PICK x \in Part(A, z[1]) : match[z[1]][x] = z
      <3> HIDE DEF Part
      <3> QED BY <1>1, <2>1 DEF Bijection, Surjection
    <2> QED BY <2>2 DEF OfKind
  <1>5. map \in Bijection(A, B)
    <2>1. map \in [A -> B]
      BY <1>2
    <2> HIDE DEF map
    <2> QED BY <1>3, <1>4, <2>1 DEF Bijection, Injection, IsInjective, Surjection
  <1> HIDE DEF map
  <1> QED BY <1>5, FS_Bijection DEF ExistsBijection

\* What shares a class in a slot is of one unit.
LEMMA SharedCellSameUnit ==
    ASSUME NEW pr \in Problems, NEW e, Triples(e), Storable(pr, e), ClassesFullyOccupied(pr, e),
           NEW c \in pr.class, NEW x \in e, NEW y \in e, SameSlot(x, y), c \in pr.classes[x[1]], c \in pr.classes[y[1]]
    PROVE  OccupancyUnit(pr, x[1]) = OccupancyUnit(pr, y[1])
  <1> DEFINE slot == <<x[2], x[3]>>
             units == {OccupancyUnit(pr, z[1]) : z \in {w \in e : <<w[2], w[3]>> = slot /\ c \in pr.classes[w[1]]}}
             A == pr.req \cup pr.reserved
             unit == [a \in A |-> OccupancyUnit(pr, a)]
             all == {unit[a] : a \in A}
  <1>1. slot \in Slots(pr) /\ \A z \in e : z[1] \in A
    BY DEF Storable
  <1>2. Cardinality(units) = 1
    BY <1>1 DEF ClassesFullyOccupied
  <1>3. IsFiniteSet(all)
    <2>1. IsFiniteSet(A)
      BY ProblemAssumption, FS_Union
    <2>2. unit \in Surjection(A, all)
      BY DEF Surjection
    <2> HIDE DEF A, unit, all
    <2> QED BY <2>1, <2>2, FS_Surjection
  <1>4. units \in SUBSET all
    BY <1>1
  <1>5. PICK u : units = {u}
    <2> HIDE DEF units, all
    <2> QED BY <1>2, <1>3, <1>4, FS_Subset, FS_Singleton
  <1>6. OccupancyUnit(pr, x[1]) \in units /\ OccupancyUnit(pr, y[1]) \in units
    BY DEF SameSlot
  <1> QED BY <1>5, <1>6

\* The lessons of a class, one for each split, and the slots it has for them.
ClassLessons(pr, e, c) == {x \in e : x[1] \in Representatives(pr) /\ c \in pr.classes[x[1]]}

\* The slots of a class that no reserved block takes.
OpenSlots(pr, c) == {slot \in Slots(pr) : ~ReservedForClass(pr, c, slot[1], slot[2])}

\* Stored on the grid and accepted by the verifier, though reserved blocks might
\* be entered beside their slots.
Passing(pr, e) == pr \in Problems /\ Triples(e) /\ Storable(pr, e) /\ Verified(pr, e)

\* It is finite.
LEMMA PassingFinite ==
    ASSUME NEW pr, NEW e, Passing(pr, e) PROVE IsFiniteSet(e)
  <1>1. /\ pr \in Problems /\ IsFiniteSet(pr.req) /\ IsFiniteSet(pr.reserved)
        /\ IsFiniteSet(pr.day) /\ IsFiniteSet(Periods(pr))
    BY ProblemAssumption DEF Passing
  <1>2. IsFiniteSet(pr.req \cup pr.reserved)
    BY <1>1, FS_Union
  <1>3. IsFiniteSet((pr.req \cup pr.reserved) \X pr.day \X Periods(pr))
    BY <1>1, <1>2, FiniteTriples
  <1>4. ASSUME NEW x \in e PROVE x \in (pr.req \cup pr.reserved) \X pr.day \X Periods(pr)
    <2>1. x = <<x[1], x[2], x[3]>> /\ x[1] \in pr.req \cup pr.reserved /\ <<x[2], x[3]>> \in Slots(pr)
      BY DEF Passing, Triples, Storable
    <2>2. x[2] \in pr.day /\ x[3] \in Periods(pr)
      BY <2>1 DEF Slots
    <2> QED BY <2>1, <2>2
  <1> QED BY <1>3, <1>4, FS_Subset

\* What a class has beside one of its lessons is a branch of it.
LEMMA PassingApart ==
    ASSUME NEW pr, NEW e, Passing(pr, e), NEW c \in pr.class,
           NEW x \in ClassLessons(pr, e, c), NEW y \in e, SameSlot(x, y), c \in pr.classes[y[1]]
    PROVE  y[1] \in Branches(pr, x[1]) /\ (y \in ClassLessons(pr, e, c) => x = y)
  <1>1. /\ pr \in Problems /\ Triples(e) /\ Storable(pr, e) /\ ClassesFullyOccupied(pr, e)
        /\ pr.req \cap pr.reserved = {} /\ \A b \in pr.reserved : pr.split[b] = None
    BY ProblemAssumption DEF Passing, Verified
  <1>2. x \in e /\ x[1] \in pr.req /\ IsRepresentative(pr, x[1]) /\ c \in pr.classes[x[1]]
    BY DEF ClassLessons, Representatives
  <1>3. OccupancyUnit(pr, x[1]) = OccupancyUnit(pr, y[1])
    BY <1>1, <1>2, SharedCellSameUnit
  <1>4. y[1] \in pr.req \cup pr.reserved
    BY <1>1 DEF Storable
  <1>5. y[1] \in Branches(pr, x[1])
    BY <1>1, <1>2, <1>3, <1>4 DEF OccupancyUnit, Branches
  <1>6. ASSUME y \in ClassLessons(pr, e, c) PROVE x = y
    <2>1. IsRepresentative(pr, y[1])
      BY <1>6 DEF ClassLessons, Representatives
    <2>2. Branches(pr, y[1]) = Branches(pr, x[1])
      BY <1>2, <1>5, BranchesOfBranch
    <2>3. x[1] = y[1]
      BY <1>2, <2>1, <2>2 DEF IsRepresentative
    <2>4. x = <<x[1], x[2], x[3]>> /\ y = <<y[1], y[2], y[3]>>
      BY <1>1, <1>2 DEF Triples
    <2> QED BY <2>3, <2>4 DEF SameSlot
  <1> QED BY <1>5, <1>6

\* Different lessons of a class are in different slots of its own.
LEMMA ClassLessonsPlaced ==
    ASSUME NEW pr, NEW e, Passing(pr, e), NEW c \in pr.class
    PROVE  [x \in ClassLessons(pr, e, c) |-> <<x[2], x[3]>>] \in Injection(ClassLessons(pr, e, c), OpenSlots(pr, c))
  <1> DEFINE lessons == ClassLessons(pr, e, c)
             place == [x \in lessons |-> <<x[2], x[3]>>]
  <1>1. ASSUME NEW x \in lessons PROVE place[x] \in OpenSlots(pr, c)
    <2>1. x \in e /\ x[1] \in pr.req /\ c \in pr.classes[x[1]] /\ <<x[2], x[3]>> \in Slots(pr)
      BY DEF ClassLessons, Representatives, Passing, Storable
    <2>2. ASSUME NEW b \in ReservedAt(pr, x[2], x[3]), c \in pr.classes[b] PROVE FALSE
      <3> DEFINE z == <<b, x[2], x[3]>>
      <3>1. z \in ReservedEntries(pr)
        BY <2>1 DEF ReservedEntries, ReservedAt, Slots
      <3>2. z[1] = b /\ SameSlot(x, z)
        BY DEF SameSlot
      <3> HIDE DEF z
      <3>3. pr.classes[x[1]] \cap pr.classes[z[1]] = {}
        BY <2>1, <3>1, <3>2 DEF Passing, Verified, ReservedBlocksRespected
      <3> QED BY <2>1, <2>2, <3>2, <3>3
    <2> QED BY <2>1, <2>2 DEF OpenSlots, ReservedForClass
  <1>2. ASSUME NEW x \in lessons, NEW y \in lessons, place[x] = place[y] PROVE x = y
    <2>1. SameSlot(x, y)
      BY <1>2 DEF SameSlot
    <2>2. y \in e /\ c \in pr.classes[y[1]]
      BY DEF ClassLessons
    <2> QED BY <2>1, <2>2, PassingApart
  <1>3. place \in [lessons -> OpenSlots(pr, c)]
    BY <1>1
  <1> HIDE DEF place, lessons
  <1>4. place \in Injection(lessons, OpenSlots(pr, c))
    BY <1>2, <1>3 DEF Injection, IsInjective
  <1> QED BY <1>4 DEF place, lessons

\* A week has a place for all lessons of a class if it has one at all.
LEMMA ClassLessonsFill ==
    ASSUME NEW pr, NEW e, Passing(pr, e), NEW f, Accepted(pr, f), NEW c \in pr.class, NEW slot \in OpenSlots(pr, c)
    PROVE  \E x \in ClassLessons(pr, e, c) : <<x[2], x[3]>> = slot
  <1> DEFINE place(h) == [x \in ClassLessons(pr, h, c) |-> <<x[2], x[3]>>]
             free == OpenSlots(pr, c)
  <1>1. Passing(pr, f)
    BY AcceptedFacts DEF Accepted, Passing
  <1>2. IsFiniteSet(free)
    <2>1. IsFiniteSet(Slots(pr))
      BY ProblemAssumption, FS_Product DEF Passing, Slots
    <2>2. free \in SUBSET Slots(pr)
      BY DEF OpenSlots
    <2> HIDE DEF free
    <2> QED BY <2>1, <2>2, FS_Subset
  <1>3. /\ place(e) \in Injection(ClassLessons(pr, e, c), free)
        /\ place(f) \in Injection(ClassLessons(pr, f, c), free)
    BY <1>1, ClassLessonsPlaced
  <1>4. place(f) \in Surjection(ClassLessons(pr, f, c), free)
    <2>1. ASSUME NEW s \in free PROVE \E x \in ClassLessons(pr, f, c) : place(f)[x] = s
      <3> DEFINE d == s[1]
                 p == s[2]
                 S == {x \in LessonsAt(LessonsOf(pr, f), d, p) : c \in pr.classes[x[1]] /\ IsRepresentative(pr, x[1])}
      <3>1. s = <<d, p>> /\ d \in pr.day /\ p \in Periods(pr) /\ ~ReservedForClass(pr, c, d, p)
        BY DEF OpenSlots, Slots
      <3>2. Cardinality(S) = 1
        <4> HIDE DEF d, p
        <4> QED BY <3>1, AcceptedOccupancy DEF ClassOccupancy
      <3>3. S # {}
        <4> HIDE DEF S
        <4> QED BY <3>2, FS_EmptySet
      <3>4. PICK x \in LessonsOf(pr, f) : x[2] = d /\ x[3] = p /\ c \in pr.classes[x[1]] /\ IsRepresentative(pr, x[1])
        BY <3>3 DEF LessonsAt
      <3>5. x \in ClassLessons(pr, f, c)
        BY <3>4, AcceptedFacts DEF ClassLessons, Representatives, LessonsOf
      <3> QED BY <3>1, <3>4, <3>5
    <2>2. place(f) \in [ClassLessons(pr, f, c) -> free]
      BY <1>3 DEF Injection
    <2> HIDE DEF place, free
    <2> QED BY <2>1, <2>2 DEF Surjection
  <1>5. IsFiniteSet(ClassLessons(pr, e, c)) /\ IsFiniteSet(ClassLessons(pr, f, c))
    <2> HIDE DEF place, free
    <2> QED BY <1>2, <1>3, FS_Injection
  <1>6. Cardinality(ClassLessons(pr, e, c)) = Cardinality(ClassLessons(pr, f, c))
    <2> DEFINE R == {r \in Representatives(pr) : c \in pr.classes[r]}
    <2>1. \A h : \A x \in ClassLessons(pr, h, c) : x[1] \in R
      BY DEF ClassLessons
    <2>2. ASSUME NEW r \in R, NEW h, Passing(pr, h)
          PROVE  Cardinality(OfKind(ClassLessons(pr, h, c), r)) = pr.weekly[r]
      <3>1. OfKind(ClassLessons(pr, h, c), r) = {x \in h : x[1] = r}
        BY DEF ClassLessons, OfKind
      <3>2. r \in pr.req
        BY DEF Representatives
      <3> QED BY <2>2, <3>1, <3>2 DEF Passing, Verified, WeeklyLessonsPlaced
    <2>3. \A r \in R : Cardinality(OfKind(ClassLessons(pr, e, c), r)) = Cardinality(OfKind(ClassLessons(pr, f, c), r))
      <3> HIDE DEF R
      <3> QED BY <1>1, <2>2
    <2>4. \A x \in ClassLessons(pr, e, c) \cup ClassLessons(pr, f, c) : x[1] \in R
      BY <2>1
    <2> HIDE DEF R
    <2> QED BY <1>5, <2>3, <2>4, SameNumber
  <1>7. Cardinality(ClassLessons(pr, f, c)) = Cardinality(free)
    <2> HIDE DEF place, free
    <2> QED BY <1>2, <1>3, <1>4, FS_Injection
  <1>8. place(e) \in Surjection(ClassLessons(pr, e, c), free)
    <2> HIDE DEF place, free
    <2> QED BY <1>2, <1>3, <1>6, <1>7, FS_Injection
  <1>9. \E x \in ClassLessons(pr, e, c) : place(e)[x] = slot
    <2> HIDE DEF place
    <2> QED BY <1>8 DEF Surjection
  <1> QED BY <1>9

(***************************************************************************)
(* If there is a timetable at all, one that passes has no reserved block   *)
(* beside its slots: a class has a lesson there, or another block.         *)
(***************************************************************************)
LEMMA PassingIsAccepted ==
    ASSUME NEW pr, NEW e, Passing(pr, e), NEW f, Accepted(pr, f) PROVE Accepted(pr, e)
  <1> SUFFICES ASSUME NEW z \in e, z \notin Lessons(pr) \cup ReservedEntries(pr) PROVE FALSE
    BY DEF Accepted, Passing
  <1> DEFINE b == z[1]
             slot == <<z[2], z[3]>>
  <1>1. /\ pr \in Problems /\ Triples(e) /\ Storable(pr, e) /\ ClassesFullyOccupied(pr, e)
        /\ z = <<b, z[2], z[3]>> /\ slot \in Slots(pr) /\ z[2] \in pr.day /\ z[3] \in Periods(pr)
    BY DEF Passing, Triples, Storable, Slots, Verified
  <1>2. b \in pr.reserved /\ slot \notin pr.slots[b]
    BY <1>1 DEF Storable, Lessons, ReservedEntries
  <1>3. PICK c \in pr.class : c \in pr.classes[b]
    <2>1. pr.classes[b] \in (SUBSET pr.class) \ {{}}
      BY <1>1, <1>2, ProblemAssumption
    <2> QED BY <2>1
  <1>4. CASE slot \in OpenSlots(pr, c)
    <2>1. PICK x \in ClassLessons(pr, e, c) : <<x[2], x[3]>> = slot
      BY <1>4, ClassLessonsFill
    <2>2. SameSlot(x, z)
      BY <2>1 DEF SameSlot
    <2>3. b \in Branches(pr, x[1])
      BY <1>3, <2>2, PassingApart
    <2>4. pr.req \cap pr.reserved = {}
      BY <1>1, ProblemAssumption
    <2> QED BY <1>2, <2>3, <2>4 DEF Branches
  <1>5. CASE slot \notin OpenSlots(pr, c)
    <2>1. PICK a \in ReservedAt(pr, z[2], z[3]) : c \in pr.classes[a]
      BY <1>1, <1>5 DEF OpenSlots, ReservedForClass
    <2> DEFINE y == <<a, z[2], z[3]>>
    <2>2. a \in pr.reserved /\ slot \in pr.slots[a] /\ y \in ReservedEntries(pr)
      BY <1>1, <2>1 DEF ReservedAt, ReservedEntries
    <2>3. y \in e
      <3>1. \A x \in ReservedEntries(pr) : x \in e
        BY DEF Passing, Verified, ReservedBlocksRespected
      <3> QED BY <2>2, <3>1
    <2>4. y[1] = a /\ SameSlot(y, z)
      BY DEF SameSlot
    <2> HIDE DEF y
    <2>5. OccupancyUnit(pr, a) = OccupancyUnit(pr, b)
      BY <1>1, <1>3, <2>1, <2>3, <2>4, SharedCellSameUnit
    <2>6. pr.split[a] = None /\ pr.split[b] = None
      BY <1>1, <1>2, <2>2, ProblemAssumption
    <2>7. a = b
      BY <2>5, <2>6 DEF OccupancyUnit
    <2> QED BY <1>2, <2>2, <2>7
  <1> QED BY <1>4, <1>5

-----------------------------------------------------------------------------
(***************************************************************************)
(* The solver agrees with the verifier.                                    *)
(***************************************************************************)
\* Once the solver has solved a problem it has a solution, whatever is restored.
AgreeingInv == SolvingInv /\ (problem \in Solved => Solutions[problem] # {})

\* Edits keep the problem; a regeneration has solved the draft.
LEMMA GenerateAgreeing == ASSUME Generate PROVE AgreeingInv
  <1>1. SolvingInv
    BY GenerateInv
  <1>2. ASSUME problem \in Solved PROVE Solutions[problem] # {}
    <2>1. PICK result \in SolveResults(problem, {}) : TRUE
      BY <1>2 DEF Generate
    <2> QED BY <2>1, ResultsAreSolutions
  <1> QED BY <1>1, <1>2 DEF AgreeingInv

LEMMA AgreeingInvKept == ASSUME AgreeingInv, [SolvingNext]_allVars PROVE AgreeingInv'
  <1>1. SolvingInv /\ SolvingInv'
    BY SolvingInvKept DEF AgreeingInv
  <1>2. CASE Regenerate
    <2>1. entries' \in Solutions[problem']
      BY <1>1, <1>2, RegeneratedWithPins
    <2> QED BY <1>1, <2>1 DEF AgreeingInv
  <1>3. CASE ~Regenerate
    <2>1. problem' = problem
      <3>1. CASE MoveVersion
        BY <3>1, MovesExchange
      <3>2. CASE LockVersion \/ ReviewVersion \/ Restore
        BY <3>2 DEF LockVersion, LockOccurrence, UnlockOccurrence, ReviewVersion, ReviewMove, Restore
      <3>3. CASE Reoptimize
        BY <3>3, ReoptimizedKeepsLocks
      <3>4. CASE UNCHANGED allVars
        BY <3>4 DEF allVars, vars
      <3> QED BY <1>3, <3>1, <3>2, <3>3, <3>4 DEF SolvingNext
    <2>2. problem \in Solved => Solutions[problem] # {}
      BY DEF AgreeingInv
    <2>3. (problem \in Solved => Solutions[problem] # {})'
      BY <2>1, <2>2
    <2> QED BY <1>1, <2>3 DEF AgreeingInv
  <1> QED BY <1>2, <1>3

\* The constraints of the solver imply the rules of the verifier.
LEMMA SolutionIsAccepted ==
    ASSUME NEW pr \in SolverProblems, NEW e \in Solutions[pr] PROVE Accepted(pr, e) /\ ~HasNestedBlocks(pr)
  <1>1. pr \in Problems
    BY SolvedAssumption
  <1>2. Verified(pr, e) /\ e \subseteq Lessons(pr) \cup ReservedEntries(pr)
    BY <1>1, SolutionsAreVerified, SolutionsOnTheGrid
  <1>3. PICK f \in Candidates(pr) : HardModel(pr, LessonsOf(pr, f))
    BY DEF Solutions
  <1> QED BY <1>1, <1>2, <1>3, NestedHasNoModel DEF Accepted

\* The rules of the verifier imply the constraints of the solver.
LEMMA AcceptedIsSolution ==
    ASSUME NEW pr \in SolverProblems, NEW e, Accepted(pr, e), ~HasNestedBlocks(pr) PROVE e \in Solutions[pr]
  <1>1. e \in Candidates(pr) /\ HardModel(pr, LessonsOf(pr, e))
    BY AcceptedIsCandidate, AcceptedIsModel
  <1>2. e = BuiltEntries(pr, e)
    BY AcceptedFacts DEF BuiltEntries
  <1>3. BuiltEntries(pr, e) \in {BuiltEntries(pr, h) : h \in {f \in Candidates(pr) : HardModel(pr, LessonsOf(pr, f))}}
    BY <1>1
  <1> QED BY <1>2, <1>3 DEF Solutions

(***************************************************************************)
(* SolverAgreesWithVerifier: whatever the problem and however it was       *)
(* edited, regenerated or restored, the verifier (verifier.py) accepts a   *)
(* timetable exactly if the constraints of the solver                      *)
(* (model_builder.py) do.                                                  *)
(***************************************************************************)
THEOREM SolverAgrees == SolvingSpec => []SolverAgreesWithVerifier
  <1>1. ASSUME AgreeingInv PROVE SolverAgreesWithVerifier
    <2>1. ASSUME problem \in Solved PROVE Verified(problem, entries) <=> entries \in Solutions[problem]
      <3>1. problem \in SolverProblems /\ Passing(problem, entries) <=> Verified(problem, entries)
        BY <1>1, <2>1, SolvedAssumption DEF Passing, AgreeingInv, SolvingInv
      <3>2. problem \in SolverProblems
        BY <2>1, SolvedAssumption
      <3>3. PICK f : f \in Solutions[problem]
        BY <1>1, <2>1 DEF AgreeingInv
      <3>4. Accepted(problem, f) /\ ~HasNestedBlocks(problem)
        BY <3>2, <3>3, SolutionIsAccepted
      <3>5. ASSUME Verified(problem, entries) PROVE entries \in Solutions[problem]
        <4>1. Accepted(problem, entries)
          BY <3>1, <3>4, <3>5, PassingIsAccepted
        <4> QED BY <3>2, <3>4, <4>1, AcceptedIsSolution
      <3>6. ASSUME entries \in Solutions[problem] PROVE Verified(problem, entries)
        BY <3>2, <3>6, SolutionIsAccepted DEF Accepted
      <3> QED BY <3>5, <3>6
    <2>2. ASSUME NEW pr \in SolverProblems, HasNestedBlocks(pr) PROVE Solutions[pr] = {}
      BY <2>2, SolutionIsAccepted
    <2>3. ASSUME NEW pr \in SolverProblems, ~HasNestedBlocks(pr) PROVE Disagreements[pr] = {}
      <3>1. pr \in Problems
        BY SolvedAssumption
      <3>2. ASSUME NEW e \in Candidates(pr) PROVE Verified(pr, e) <=> e \in Solutions[pr]
        <4>1. ASSUME Verified(pr, e) PROVE e \in Solutions[pr]
          BY <2>3, <3>1, <4>1, CandidatesOnGrid, AcceptedIsSolution DEF Accepted
        <4>2. ASSUME e \in Solutions[pr] PROVE Verified(pr, e)
          BY <4>2, SolutionIsAccepted DEF Accepted
        <4> QED BY <4>1, <4>2
      <3>3. Disagreements[pr] = {e \in Candidates(pr) : Verified(pr, e) # (e \in Solutions[pr])}
        BY DEF Disagreements
      <3>4. ASSUME NEW e \in Candidates(pr) PROVE ~(Verified(pr, e) # (e \in Solutions[pr]))
        <4>1. Verified(pr, e) \in BOOLEAN
          BY DEF Verified
        <4> QED BY <3>2, <4>1
      <3> QED BY <3>3, <3>4
    <2> QED BY <2>1, <2>2, <2>3 DEF SolverAgreesWithVerifier
  <1>2. Generate => AgreeingInv
    BY GenerateAgreeing
  <1>3. AgreeingInv /\ [SolvingNext]_allVars => AgreeingInv'
    BY AgreeingInvKept
  <1> QED BY <1>1, <1>2, <1>3, PTL DEF SolvingSpec

(***************************************************************************)
(* ReoptimizeKeepsValidTimetable: whatever the problems, a reoptimization  *)
(* (reoptimize.py) returns a valid timetable as it was, for it is one of   *)
(* the solver's own and nothing is less disruptive.                        *)
(***************************************************************************)
THEOREM ReoptimizingKeepsValid == SolvingSpec => []ReoptimizeKeepsValidTimetable
  BY SolverAgrees, ReoptimizingChangesNothing, PTL

-----------------------------------------------------------------------------
(***************************************************************************)
(* The views.                                                              *)
(***************************************************************************)
\* What the matrix shows of a teacher in a slot.
Cell(pr, e, t, slot) == IF slot \in DOMAIN TeacherMatrix(pr, e)[t] THEN TeacherMatrix(pr, e)[t][slot] ELSE {}

\* On the grid the matrix shows what the teacher's own view does.
LEMMA CellIsView ==
    ASSUME NEW pr, NEW e, Storable(pr, e), NEW t \in Teachers(pr), NEW slot \in Slots(pr)
    PROVE  /\ Cell(pr, e, t, slot) = {x \in e : Slot(x) = slot /\ pr.teacher[x[1]] = t}
           /\ TeacherView(pr, e, t)[slot] = {x \in e : Slot(x) = slot /\ pr.teacher[x[1]] = t}
  <1> DEFINE own == {x \in e : pr.teacher[x[1]] = t}
  <1>1. \A x \in e : Slot(x) \in Slots(pr)
    BY DEF Storable, Slot
  <1>2. t # None
    BY DEF Teachers
  <1>3. {x \in {y \in e : pr.teacher[y[1]] # None /\ Slot(y) \in Slots(pr)} : pr.teacher[x[1]] = t} = own
    BY <1>1, <1>2
  <1>4. TeacherMatrix(pr, e)[t] = [s \in {Slot(x) : x \in own} |-> {x \in own : Slot(x) = s}]
    BY <1>3 DEF TeacherMatrix
  <1>5. Cell(pr, e, t, slot) = {x \in own : Slot(x) = slot}
    <2> HIDE DEF own
    <2>1. CASE slot \in {Slot(x) : x \in own}
      BY <1>4, <2>1 DEF Cell
    <2>2. CASE slot \notin {Slot(x) : x \in own}
      <3>1. {x \in own : Slot(x) = slot} = {}
        BY <2>2
      <3> QED BY <1>4, <2>2, <3>1 DEF Cell
    <2> QED BY <2>1, <2>2
  <1> QED BY <1>5 DEF TeacherView

(***************************************************************************)
(* ViewsShowTheTimetable: of whatever timetable is active, moved,          *)
(* regenerated for another grid or restored, the view of each of its       *)
(* classes and of its teacher show an entry, for what is stored is on the  *)
(* grid; a verified one fills each cell of a class, and none twice.        *)
(***************************************************************************)
THEOREM ViewsAreWhole == SolvingSpec => []ViewsShowTheTimetable
  <1>1. ASSUME SolvingInv PROVE ViewsShowTheTimetable
    <2> DEFINE teachers == Teachers(problem)
               slots == Slots(problem)
    <2>1. Storable(problem, entries)
      BY <1>1 DEF SolvingInv
    <2>2. ASSUME NEW x \in entries
          PROVE  /\ \A c \in problem.classes[x[1]] : x \in ClassView(problem, entries, c)[Slot(x)]
                 /\ problem.teacher[x[1]] # None => x \in Cell(problem, entries, problem.teacher[x[1]], Slot(x))
      <3>1. Slot(x) \in slots /\ x[1] \in problem.req \cup problem.reserved
        BY <2>1 DEF Storable, Slot
      <3>2. ASSUME problem.teacher[x[1]] # None
            PROVE  x \in Cell(problem, entries, problem.teacher[x[1]], Slot(x))
        <4>1. problem.teacher[x[1]] \in teachers
          BY <3>1, <3>2 DEF Teachers
        <4> QED BY <2>1, <3>1, <4>1, CellIsView
      <3> QED BY <3>1, <3>2 DEF ClassView
    <2>3. ASSUME NEW t \in teachers, NEW slot \in slots
          PROVE  Cell(problem, entries, t, slot) = TeacherView(problem, entries, t)[slot]
      <3> HIDE DEF teachers, slots
      <3>1. Cell(problem, entries, t, slot) = {x \in entries : Slot(x) = slot /\ problem.teacher[x[1]] = t}
        BY <2>1, CellIsView DEF teachers, slots
      <3>2. TeacherView(problem, entries, t)[slot] = {x \in entries : Slot(x) = slot /\ problem.teacher[x[1]] = t}
        BY <2>1, CellIsView DEF teachers, slots
      <3> QED BY <3>1, <3>2
    <2>4. ASSUME Verified(problem, entries), NEW slot \in slots
          PROVE  /\ \A c \in problem.class :
                        Cardinality({OccupancyUnit(problem, x[1]) : x \in ClassView(problem, entries, c)[slot]}) = 1
                 /\ \A t \in teachers : Cardinality(Cell(problem, entries, t, slot)) <= 1
      <3>1. ASSUME NEW c \in problem.class
            PROVE  Cardinality({OccupancyUnit(problem, x[1]) : x \in ClassView(problem, entries, c)[slot]}) = 1
        <4>1. ClassView(problem, entries, c)[slot]
                  = {y \in entries : <<y[2], y[3]>> = slot /\ c \in problem.classes[y[1]]}
          BY DEF ClassView, Slot
        <4> QED BY <2>4, <4>1 DEF Verified, ClassesFullyOccupied
      <3>2. ASSUME NEW t \in teachers
            PROVE  Cardinality(Cell(problem, entries, t, slot)) <= 1
        <4> DEFINE S == Cell(problem, entries, t, slot)
        <4>1. S = {x \in entries : Slot(x) = slot /\ problem.teacher[x[1]] = t}
          BY <2>1, CellIsView
        <4>2. t # None
          BY DEF Teachers
        <4>3. \A x, y \in entries : x # y /\ SameSlot(x, y) /\ problem.teacher[x[1]] = t => problem.teacher[y[1]] # t
          BY <2>4, <4>2 DEF Verified, TeachersNotDoubleBooked
        <4>4. \A x, y \in S : x = y
          BY <4>1, <4>3 DEF Slot, SameSlot
        <4> HIDE DEF S
        <4>5. Cardinality(S) \in {0, 1}
          BY <4>4, AtMostOne
        <4> QED BY <4>5 DEF S
      <3> QED BY <3>1, <3>2
    <2> QED BY <2>2, <2>3, <2>4 DEF ViewsShowTheTimetable, Cell
  <1>2. Generate => SolvingInv
    BY GenerateInv
  <1>3. SolvingInv /\ [SolvingNext]_allVars => SolvingInv'
    BY SolvingInvKept
  <1> QED BY <1>1, <1>2, <1>3, PTL DEF SolvingSpec

-----------------------------------------------------------------------------
(***************************************************************************)
(* The objective.                                                          *)
(***************************************************************************)
\* The summands of the objective.
DoublePenalties(pr, e) == [r \in Doubled(pr) |-> Weight.HIGH * (1 - Cardinality(PairsUsed(pr, e, r)))]

LessonPenalties(pr, e) == [x \in LessonsOf(pr, e) |-> LessonTerms(pr, x)]

DayPenalties(pr, e) == [r \in pr.req |-> MissingDays(pr, e, r)]

\* The values of the objective, and of the evaluator, by their parts.
LEMMA ObjectiveParts ==
    ASSUME NEW pr, NEW e
    PROVE  ObjectiveValues(pr, e)
               = {SumFunction(DoublePenalties(pr, e)) + SumFunction(LessonPenalties(pr, e)) + Weight.LOW * deficiency :
                     deficiency \in SumFunction(DayPenalties(pr, e)) .. SumFunction([r \in pr.req |-> pr.minDays[r]])}
  BY DEF ObjectiveValues, DoublePenalties, LessonPenalties, DayPenalties

\* A PREFERRED double is formed once at most.
LEMMA OneDouble ==
    ASSUME NEW pr \in Problems, NEW e, PreferredDoublesFormed(pr, e), NEW r \in Doubled(pr)
    PROVE  Weight.HIGH * (1 - Cardinality(PairsUsed(pr, e, r))) = IF PairsUsed(pr, e, r) = {} THEN Weight.HIGH ELSE 0
  <1> DEFINE pairs == PairsUsed(pr, e, r)
             Pairs(d) == {p \in PeriodsOn(e, r, d) : p + 1 \in PeriodsOn(e, r, d) /\ pr.block[p] = pr.block[p + 1]}
  <1>1. \A d1, d2 \in pr.day : \A p \in Pairs(d1), q \in Pairs(d2) : d1 = d2 /\ p = q
    BY DEF PreferredDoublesFormed, Doubled
  <1>2. \A x \in pairs : x = <<x[1], x[2]>> /\ x[1] \in pr.day /\ x[2] \in Pairs(x[1])
    BY DEF PairsUsed
  <1>3. \A x, y \in pairs : x = y
    <2> HIDE DEF pairs, Pairs
    <2> QED BY <1>1, <1>2
  <1>4. Weight.HIGH = 20
    BY DEF Weight
  <1>5. CASE pairs = {}
    BY <1>4, <1>5, FS_EmptySet
  <1>6. CASE pairs # {}
    <2>1. PICK x \in pairs : TRUE
      BY <1>6
    <2>2. pairs = {x}
      BY <1>3, <2>1
    <2>3. Cardinality(pairs) = 1
      BY <2>2, FS_Singleton
    <2> QED BY <1>4, <1>6, <2>3
  <1> QED BY <1>5, <1>6

\* Each sum of the objective is a natural number.
LEMMA DoublePenaltiesNatural ==
    ASSUME NEW pr \in Problems, NEW e, PreferredDoublesFormed(pr, e)
    PROVE  /\ DoublePenalties(pr, e) = [r \in Doubled(pr) |-> IF PairsUsed(pr, e, r) = {} THEN Weight.HIGH ELSE 0]
           /\ SumFunction(DoublePenalties(pr, e)) \in Nat
  <1>1. DoublePenalties(pr, e) = [r \in Doubled(pr) |-> IF PairsUsed(pr, e, r) = {} THEN Weight.HIGH ELSE 0]
    BY OneDouble DEF DoublePenalties
  <1>2. IsFiniteSet(Doubled(pr))
    <2>1. Doubled(pr) \in SUBSET pr.req /\ IsFiniteSet(pr.req)
      BY ProblemAssumption DEF Doubled
    <2> QED BY <2>1, FS_Subset
  <1>3. Weight.HIGH \in Nat
    BY DEF Weight
  <1>4. DoublePenalties(pr, e) \in [Doubled(pr) -> Nat]
    BY <1>1, <1>3
  <1> QED BY <1>1, <1>2, <1>4, SumIsNatural

LEMMA LessonTermsNatural ==
    ASSUME NEW pr \in Problems, NEW x, x[1] \in pr.req PROVE LessonTerms(pr, x) \in Nat
  <1> DEFINE missed == {v \in pr.preferences[x[1]] : x[3] \notin v[2]}
             f == [w \in missed |-> Weight[w[1]]]
  <1>1. IsFiniteSet(pr.preferences[x[1]]) /\ \A w \in pr.preferences[x[1]] : w[1] \in DOMAIN Weight
    BY ObjectiveAssumption
  <1>2. \A n \in DOMAIN Weight : Weight[n] \in Nat
    BY DEF Weight
  <1>3. IsFiniteSet(missed)
    <2>1. missed \in SUBSET pr.preferences[x[1]]
      OBVIOUS
    <2> HIDE DEF missed
    <2> QED BY <1>1, <2>1, FS_Subset
  <1>4. f \in [missed -> Nat]
    BY <1>1, <1>2
  <1>5. SumFunction(f) \in Nat
    <2> HIDE DEF f, missed
    <2> QED BY <1>3, <1>4, SumIsNatural
  <1>6. Weight.MEDIUM \in Nat
    BY DEF Weight
  <1> DEFINE sum == SumFunction(f)
  <1>7. LessonTerms(pr, x) = (IF <<pr.teacher[x[1]], x[2], x[3]>> \in pr.preferNot THEN Weight.MEDIUM ELSE 0) + sum
    BY DEF LessonTerms
  <1> HIDE DEF sum
  <1> QED BY <1>5, <1>6, <1>7 DEF sum

LEMMA LessonPenaltiesNatural ==
    ASSUME NEW pr \in Problems, NEW e, IsFiniteSet(e), \A x \in LessonsOf(pr, e) : x[1] \in pr.req
    PROVE  SumFunction(LessonPenalties(pr, e)) \in Nat
  <1>1. IsFiniteSet(LessonsOf(pr, e))
    BY FS_Subset DEF LessonsOf
  <1>2. LessonPenalties(pr, e) \in [LessonsOf(pr, e) -> Nat]
    BY LessonTermsNatural DEF LessonPenalties
  <1> QED BY <1>1, <1>2, SumIsNatural

LEMMA MissingDaysNatural ==
    ASSUME NEW pr \in Problems, NEW e, NEW r \in pr.req PROVE MissingDays(pr, e, r) \in Nat
  <1>1. IsFiniteSet(pr.day) /\ pr.minDays[r] \in Nat
    BY ProblemAssumption, ObjectiveAssumption
  <1> DEFINE n == Cardinality(DaysUsed(pr, e, r))
             k == pr.minDays[r] - n
  <1>2. n \in Nat
    <2>1. DaysUsed(pr, e, r) \in SUBSET pr.day
      BY DEF DaysUsed
    <2> QED BY <1>1, <2>1, FS_Subset, FS_CardinalityType
  <1> HIDE DEF n
  <1>3. k \in Int
    BY <1>1, <1>2
  <1> HIDE DEF k
  <1>4. \E m \in {0, k} : \A y \in {0, k} : m >= y
    BY <1>3
  <1>5. Max({0, k}) \in {0, k} /\ Max({0, k}) >= 0
    BY <1>4 DEF Max
  <1>6. Max({0, k}) \in Nat
    BY <1>3, <1>5
  <1> QED BY <1>6 DEF MissingDays, k, n

LEMMA DayPenaltiesNatural ==
    ASSUME NEW pr \in Problems, NEW e
    PROVE  /\ SumFunction(DayPenalties(pr, e)) \in Nat
           /\ SumFunction([r \in pr.req |-> pr.minDays[r]]) \in Nat
  <1>1. IsFiniteSet(pr.req) /\ IsFiniteSet(pr.day) /\ \A r \in pr.req : pr.minDays[r] \in Nat
    BY ProblemAssumption, ObjectiveAssumption
  <1>2. \A r \in pr.req : MissingDays(pr, e, r) \in Nat
    BY MissingDaysNatural
  <1>3. DayPenalties(pr, e) \in [pr.req -> Nat]
    BY <1>2 DEF DayPenalties
  <1>4. [r \in pr.req |-> pr.minDays[r]] \in [pr.req -> Nat]
    BY <1>1
  <1> QED BY <1>1, <1>3, <1>4, SumIsNatural

\* The penalty is a number, whatever is active.
LEMMA EvaluatedNatural ==
    ASSUME NEW pr \in Problems, NEW e, IsFiniteSet(e), \A x \in LessonsOf(pr, e) : x[1] \in pr.req
    PROVE  /\ EvaluatedPenalty(pr, e) \in Nat
           /\ PreferredDoublesFormed(pr, e) =>
                  EvaluatedPenalty(pr, e) = SumFunction(DoublePenalties(pr, e)) + SumFunction(LessonPenalties(pr, e))
                                                + SumFunction(DayPenalties(pr, e))
  <1> DEFINE doubles == [r \in Doubled(pr) |-> IF PairsUsed(pr, e, r) = {} THEN Weight.HIGH ELSE 0]
  <1>1. SumFunction(doubles) \in Nat
    <2>1. IsFiniteSet(Doubled(pr))
      <3>1. Doubled(pr) \in SUBSET pr.req /\ IsFiniteSet(pr.req)
        BY ProblemAssumption DEF Doubled
      <3> QED BY <3>1, FS_Subset
    <2>2. doubles \in [Doubled(pr) -> Nat]
      BY DEF Weight
    <2> HIDE DEF doubles
    <2> QED BY <2>1, <2>2, SumIsNatural
  <1>2. [r \in pr.req |-> Weight.LOW * MissingDays(pr, e, r)] = DayPenalties(pr, e)
    <2>1. ASSUME NEW r \in pr.req PROVE Weight.LOW * MissingDays(pr, e, r) = MissingDays(pr, e, r)
      <3>1. MissingDays(pr, e, r) \in Int
        BY MissingDaysNatural
      <3> QED BY <3>1 DEF Weight
    <2> QED BY <2>1 DEF DayPenalties
  <1>3. EvaluatedPenalty(pr, e) = SumFunction(doubles) + SumFunction(LessonPenalties(pr, e))
                                      + SumFunction(DayPenalties(pr, e))
    BY <1>2 DEF EvaluatedPenalty, LessonPenalties
  <1> HIDE DEF doubles
  <1>4. SumFunction(LessonPenalties(pr, e)) \in Nat /\ SumFunction(DayPenalties(pr, e)) \in Nat
    BY LessonPenaltiesNatural, DayPenaltiesNatural
  <1>5. EvaluatedPenalty(pr, e) \in Nat
    <2> DEFINE a == SumFunction(doubles)
               b == SumFunction(LessonPenalties(pr, e))
               c == SumFunction(DayPenalties(pr, e))
    <2>1. a \in Nat /\ b \in Nat /\ c \in Nat /\ EvaluatedPenalty(pr, e) = a + b + c
      BY <1>1, <1>3, <1>4
    <2> HIDE DEF a, b, c
    <2> QED BY <2>1
  <1>6. PreferredDoublesFormed(pr, e) => doubles = DoublePenalties(pr, e)
    BY DoublePenaltiesNatural DEF doubles
  <1> QED BY <1>3, <1>5, <1>6

\* Timetables that the objective is defined for.
Rated(pr, e) ==
    PreferredDoublesFormed(pr, e) /\ IsFiniteSet(e) /\ \A x \in LessonsOf(pr, e) : x[1] \in pr.req

\* Solutions that form their doubles are rated.
LEMMA SolutionIsRated ==
    ASSUME NEW pr \in SolverProblems, NEW e \in Solutions[pr], PreferredDoublesFormed(pr, e) PROVE Rated(pr, e)
  <1>1. Accepted(pr, e)
    BY SolutionIsAccepted
  <1>2. IsFiniteSet(e) /\ \A x \in LessonsOf(pr, e) : x[1] \in pr.req
    BY <1>1, AcceptedFacts DEF LessonsOf
  <1> QED BY <1>2 DEF Rated

\* No value of the objective is below what the evaluator says, which is one if any is.
LEMMA ObjectiveAboveEvaluated ==
    ASSUME NEW pr \in Problems, NEW e, Rated(pr, e), NEW value \in ObjectiveValues(pr, e)
    PROVE  /\ value \in Nat /\ EvaluatedPenalty(pr, e) <= value
           /\ EvaluatedPenalty(pr, e) \in ObjectiveValues(pr, e)
  <1> DEFINE a == SumFunction(DoublePenalties(pr, e))
             b == SumFunction(LessonPenalties(pr, e))
             least == SumFunction(DayPenalties(pr, e))
             most == SumFunction([r \in pr.req |-> pr.minDays[r]])
  <1>1. a \in Nat /\ b \in Nat /\ least \in Nat /\ most \in Nat
    BY DoublePenaltiesNatural, LessonPenaltiesNatural, DayPenaltiesNatural DEF Rated
  <1>2. EvaluatedPenalty(pr, e) = a + b + least
    BY EvaluatedNatural DEF Rated
  <1>3. ObjectiveValues(pr, e) = {a + b + Weight.LOW * deficiency : deficiency \in least .. most}
    BY ObjectiveParts
  <1>4. Weight.LOW = 1
    BY DEF Weight
  <1> HIDE DEF a, b, least, most
  <1>5. PICK deficiency \in least .. most : value = a + b + Weight.LOW * deficiency
    BY <1>3
  <1>6. deficiency \in Nat /\ least <= deficiency /\ value = a + b + deficiency
    BY <1>1, <1>4, <1>5
  <1>7. least \in least .. most /\ a + b + Weight.LOW * least = a + b + least
    BY <1>1, <1>4, <1>5
  <1>8. EvaluatedPenalty(pr, e) \in ObjectiveValues(pr, e)
    BY <1>2, <1>3, <1>7
  <1> QED BY <1>1, <1>2, <1>6, <1>8

\* An optimum is what the evaluator says of every timetable that has it.
LEMMA OptimumIsEvaluated ==
    ASSUME NEW pr \in Problems, NEW found, \A f \in found : Rated(pr, f),
           NEW e \in found, Optimum(pr, found) \in ObjectiveValues(pr, e)
    PROVE  Optimum(pr, found) = EvaluatedPenalty(pr, e)
  <1> DEFINE U == UNION {ObjectiveValues(pr, f) : f \in found}
  <1>1. U \in SUBSET Nat
    BY ObjectiveAboveEvaluated
  <1>2. Optimum(pr, found) \in Nat /\ EvaluatedPenalty(pr, e) <= Optimum(pr, found) /\ EvaluatedPenalty(pr, e) \in U
    BY ObjectiveAboveEvaluated
  <1>3. Optimum(pr, found) = Min(U)
    BY DEF Optimum
  <1> HIDE DEF U
  <1>4. Optimum(pr, found) <= EvaluatedPenalty(pr, e)
    <2>1. \A y \in U : Min(U) <= y
      BY <1>1, <1>2, Smallest
    <2> QED BY <1>2, <1>3, <2>1
  <1>5. EvaluatedPenalty(pr, e) \in Nat
    BY <1>1, <1>2
  <1> QED BY <1>2, <1>4, <1>5

\* What a solve returns is rated by the objective, and truly if it is proven optimal.
LEMMA ResultsAreRated ==
    ASSUME NEW pr \in SolverProblems, NEW pins, NEW result \in SolveResults(pr, pins)
    PROVE  /\ result.status \in {"OPTIMAL", "FEASIBLE"} /\ result.penalty \in Nat
           /\ result.status = "OPTIMAL" => result.penalty = EvaluatedPenalty(pr, result.entries)
  <1> DEFINE found == {e \in Solutions[pr] : PreferredDoublesFormed(pr, e) /\ pins \subseteq e}
             Feasible(e) == {[entries |-> e, status |-> "FEASIBLE", penalty |-> value] :
                                value \in ObjectiveValues(pr, e)}
             optimal == {[entries |-> e, status |-> "OPTIMAL", penalty |-> Optimum(pr, found)]
                            : e \in {f \in found : Optimum(pr, found) \in ObjectiveValues(pr, f)}}
  <1>1. SolveResults(pr, pins) = (UNION {Feasible(e) : e \in found}) \cup optimal
    BY DEF SolveResults
  <1>2. pr \in Problems /\ \A f \in found : Rated(pr, f)
    BY SolutionIsRated, SolvedAssumption
  <1>3. CASE result \in optimal
    <2>1. PICK e \in found : /\ Optimum(pr, found) \in ObjectiveValues(pr, e)
                             /\ result = [entries |-> e, status |-> "OPTIMAL", penalty |-> Optimum(pr, found)]
      BY <1>3
    <2> HIDE DEF found
    <2>2. Optimum(pr, found) = EvaluatedPenalty(pr, e) /\ Optimum(pr, found) \in Nat
      BY <1>2, <2>1, OptimumIsEvaluated, ObjectiveAboveEvaluated
    <2> QED BY <2>1, <2>2
  <1>4. CASE result \in UNION {Feasible(e) : e \in found}
    <2>1. PICK e \in found : \E value \in ObjectiveValues(pr, e) :
                                 result = [entries |-> e, status |-> "FEASIBLE", penalty |-> value]
      BY <1>4
    <2> HIDE DEF found
    <2> QED BY <1>2, <2>1, ObjectiveAboveEvaluated
  <1> QED BY <1>1, <1>3, <1>4

\* So is what a reoptimization returns.
LEMMA ReoptimizedIsRated ==
    ASSUME Reoptimize
    PROVE  /\ status' \in {"OPTIMAL", "FEASIBLE"} /\ penalty' \in Nat
           /\ status' = "OPTIMAL" => penalty' = EvaluatedPenalty(problem', entries')
  <1> DEFINE found == KeepingLocks(problem, entries, locked)
             best == LeastDisruptive(problem, entries, found)
  <1>1. problem \in Solved /\ problem \in SolverProblems /\ problem \in Problems
    BY SolvedAssumption DEF Reoptimize
  <1>2. \A f \in best : Rated(problem, f)
    BY <1>1, SolutionIsRated DEF LeastDisruptive, KeepingLocks
  <1>3. ReoptimizeInTime(found) \/ ReoptimizeFully(found)
    BY DEF Reoptimize
  <1>4. CASE ReoptimizeInTime(found)
    BY <1>4 DEF ReoptimizeInTime, Replace
  <1>5. CASE ReoptimizeFully(found)
    <2>1. PICK f \in best :
            \/ \E value \in ObjectiveValues(problem, f) : Replace(f, "FEASIBLE", value)
            \/ /\ Optimum(problem, best) \in ObjectiveValues(problem, f)
               /\ Replace(f, "OPTIMAL", Optimum(problem, best))
      BY <1>5 DEF ReoptimizeFully
    <2> HIDE DEF best
    <2>2. CASE \E value \in ObjectiveValues(problem, f) : Replace(f, "FEASIBLE", value)
      BY <1>1, <1>2, <2>2, ObjectiveAboveEvaluated DEF Replace
    <2>3. CASE /\ Optimum(problem, best) \in ObjectiveValues(problem, f)
               /\ Replace(f, "OPTIMAL", Optimum(problem, best))
      <3>1. Optimum(problem, best) = EvaluatedPenalty(problem, f) /\ Optimum(problem, best) \in Nat
        BY <1>1, <1>2, <2>3, OptimumIsEvaluated, ObjectiveAboveEvaluated
      <3> QED BY <2>3, <3>1 DEF Replace
    <2> QED BY <2>1, <2>2, <2>3
  <1> QED BY <1>3, <1>4, <1>5

(***************************************************************************)
(* ProvenPenaltiesAreTrue: whatever the problems and their weights, the    *)
(* penalty stored with a timetable that a solve or a reoptimization proved *)
(* optimal (objective.py) is the evaluator's (evaluate_total_soft_penalty),*)
(* however the timetable is locked or reviewed afterwards.                 *)
(***************************************************************************)
THEOREM PenaltiesAreTrue == SolvingSpec => []ProvenPenaltiesAreTrue
  <1>1. Generate => ProvenPenaltiesAreTrue
    <2> SUFFICES ASSUME Generate, status = "OPTIMAL" PROVE penalty = EvaluatedPenalty(problem, entries)
      BY DEF ProvenPenaltiesAreTrue
    <2>1. problem \in Solved => problem \in SolverProblems
      BY SolvedAssumption
    <2>2. PICK result \in IF problem \in Solved THEN SolveResults(problem, {}) ELSE GivenResults(problem) :
              entries = result.entries /\ status = result.status /\ penalty = result.penalty
      BY DEF Generate
    <2>3. CASE problem \in Solved
      BY <2>1, <2>2, <2>3, ResultsAreRated
    <2>4. CASE problem \notin Solved
      BY <2>2, <2>4 DEF GivenResults
    <2> QED BY <2>3, <2>4
  <1>2. SolvingInv /\ ProvenPenaltiesAreTrue /\ [SolvingNext]_allVars => ProvenPenaltiesAreTrue'
    <2> SUFFICES ASSUME SolvingInv, ProvenPenaltiesAreTrue, [SolvingNext]_allVars, status' = "OPTIMAL"
                 PROVE  penalty' = EvaluatedPenalty(problem', entries')
      BY DEF ProvenPenaltiesAreTrue
    <2>1. CASE MoveVersion \/ Restore
      BY <2>1 DEF MoveVersion, Restore
    <2>2. CASE LockVersion \/ ReviewVersion \/ UNCHANGED allVars
      BY <2>2 DEF LockVersion, LockOccurrence, UnlockOccurrence, ReviewVersion, ReviewMove, version, allVars, vars,
                  ProvenPenaltiesAreTrue
    <2>3. CASE Reoptimize
      BY <2>3, ReoptimizedIsRated
    <2>4. CASE Regenerate
      <3>1. PICK pr \in Drafts[problem], keys \in SUBSET locked :
                /\ problem' = pr
                /\ \E result \in SolveResults(pr, Pins(pr, keys)) :
                       /\ entries' = result.entries
                       /\ status' = result.status
                       /\ penalty' = result.penalty
        BY <2>4 DEF Regenerate
      <3>2. pr \in SolverProblems
        BY <2>4, <3>1, SolvedAssumption DEF Regenerate
      <3> QED BY <3>1, <3>2, ResultsAreRated
    <2> QED BY <2>1, <2>2, <2>3, <2>4 DEF SolvingNext
  <1>3. Generate => SolvingInv
    BY GenerateInv
  <1>4. SolvingInv /\ [SolvingNext]_allVars => SolvingInv'
    BY SolvingInvKept
  <1> QED BY <1>1, <1>2, <1>3, <1>4, PTL DEF SolvingSpec

-----------------------------------------------------------------------------
(***************************************************************************)
(* What is stored, locked and reviewed.                                    *)
(***************************************************************************)
\* A draft frees a slot of a reserved block only together with the block, the
\* day or the period.
ReservedSlotsStay ==
    \A pr \in Solved : \A draft \in Drafts[pr] :
        draft.req = pr.req =>
            \A x \in ReservedEntries(pr) :
                x[1] \in draft.reserved /\ <<x[2], x[3]>> \in Slots(draft) => x \in ReservedEntries(draft)

\* The keys of an occurrence are lessons of its own.
LEMMA KeysAreLessons ==
    ASSUME NEW pr \in Problems, NEW e, NEW r, NEW d \in pr.day, NEW p, IsOccurrence(pr, e, r, d, p)
    PROVE  /\ Occurrence(pr, e, r, d, p) \subseteq Lessons(pr)
           /\ OccurrenceKeys(pr, e, r, d, p) \subseteq Occurrence(pr, e, r, d, p)
  <1> DEFINE block == BlockPeriods(pr, e, r, d, p)
  <1>1. block \subseteq Periods(pr) /\ Min(block) \in block
    BY BlockIsInterval
  <1> HIDE DEF block
  <1>2. Branches(pr, r) \subseteq pr.req
    BY DEF Branches
  <1>3. Occurrence(pr, e, r, d, p) = Branches(pr, r) \X {d} \X block
    BY DEF Occurrence, block
  <1>4. OccurrenceKeys(pr, e, r, d, p) = Branches(pr, r) \X {d} \X {Min(block)}
    BY DEF OccurrenceKeys, block
  <1>5. OccurrenceKeys(pr, e, r, d, p) \subseteq Occurrence(pr, e, r, d, p)
    BY <1>1, <1>3, <1>4
  <1>6. ASSUME NEW x \in Occurrence(pr, e, r, d, p) PROVE x \in Lessons(pr)
    BY <1>1, <1>2, <1>3 DEF Lessons
  <1> QED BY <1>5, <1>6

\* An occurrence is part of the timetable.
LEMMA OccurrenceInEntries ==
    ASSUME NEW pr, NEW e, Triples(e), NEW r, NEW d, NEW p, IsOccurrence(pr, e, r, d, p)
    PROVE  Occurrence(pr, e, r, d, p) \subseteq e
  <1> SUFFICES ASSUME NEW x \in Occurrence(pr, e, r, d, p) PROVE x \in e
    OBVIOUS
  <1>1. x = <<x[1], x[2], x[3]>> /\ x[1] \in Branches(pr, r) /\ x[2] = d /\ x[3] \in BlockPeriods(pr, e, r, d, p)
    BY DEF Occurrence
  <1>2. x[3] \in PeriodsOn(e, x[1], x[2])
    BY <1>1 DEF IsOccurrence
  <1> QED BY <1>1, <1>2, PeriodsOnMembers

\* A plan moves lessons to lessons.
LEMMA PlanOfLessons ==
    ASSUME SolvingInv, NEW m, MoveAllowed(entries, m), m.lesson \in Lessons(problem), m.day \in problem.day
    PROVE  MovePlan(entries, m).removed \cup MovePlan(entries, m).added \subseteq Lessons(problem)
  <1>1. problem \in Problems /\ m.lesson[2] \in problem.day
    BY DEF SolvingInv, Lessons
  <1>2. CASE StaysPut(entries, m)
    BY <1>2 DEF MovePlan, NoChange
  <1>3. CASE ~StaysPut(entries, m)
    <2> DEFINE B == BlockPeriods(problem, entries, m.lesson[1], m.lesson[2], m.lesson[3])
               W == TargetWindow(entries, m)
               plan == MovePlan(entries, m)
               other == Occupant(entries, m)
    <2>1. /\ B \subseteq Periods(problem) /\ W \subseteq Periods(problem)
          /\ plan.added = At(Branches(problem, m.lesson[1]), m.day, W) \cup At(Branches(problem, other), m.lesson[2], B)
      BY <1>3, ExchangePlaces DEF At
    <2>2. /\ IsOccurrence(problem, entries, m.lesson[1], m.lesson[2], m.lesson[3])
          /\ IsOccurrence(problem, entries, other, m.day, m.period)
      BY <1>3 DEF MoveAllowed, CanExchange
    <2>3. plan.removed = Occurrence(problem, entries, m.lesson[1], m.lesson[2], m.lesson[3])
                             \cup Occurrence(problem, entries, other, m.day, m.period)
      BY <1>3 DEF MovePlan, SwapPlan
    <2> HIDE DEF B, W, plan, other
    <2>4. plan.removed \subseteq Lessons(problem)
      BY <1>1, <2>2, <2>3, KeysAreLessons
    <2>5. \A x \in plan.added : x = <<x[1], x[2], x[3]>> /\ x[1] \in problem.req /\ x[2] \in problem.day
                                    /\ x[3] \in Periods(problem)
      BY <1>1, <2>1, AtMember DEF Branches
    <2>6. \A x \in plan.added : x \in Lessons(problem)
      BY <2>5 DEF Lessons
    <2> QED BY <2>4, <2>6 DEF plan
  <1> QED BY <1>2, <1>3

\* A timetable on the grid has a penalty.
LEMMA GridIsRated ==
    ASSUME NEW pr \in Problems, NEW e, e \subseteq Lessons(pr) \cup ReservedEntries(pr)
    PROVE  EvaluatedPenalty(pr, e) \in Nat
  <1>1. IsFiniteSet(e)
    BY GridFinite
  <1>2. \A x \in LessonsOf(pr, e) : x[1] \in pr.req
    BY DEF LessonsOf, Lessons
  <1> QED BY <1>1, <1>2, EvaluatedNatural

\* The types, and which problem was replaced by which.
TypingInv ==
    /\ EditingInv /\ SolvingTypeOK
    /\ earlier # NoProblem => problem \in Drafts[earlier]

\* What each action stores is on the grid.
LEMMA GenerateTyping == ASSUME Generate PROVE TypingInv
  <1>1. EditingInv
    BY GenerateEdited
  <1>2. problem \in Problems /\ locked = {} /\ reviewed = NoMove /\ earlier = NoProblem
    BY DEF Generate
  <1>3. PICK result \in IF problem \in Solved THEN SolveResults(problem, {}) ELSE GivenResults(problem) :
            entries = result.entries /\ status = result.status /\ penalty = result.penalty
    BY DEF Generate
  <1>4. entries \subseteq Lessons(problem) \cup ReservedEntries(problem)
        /\ status \in {"OPTIMAL", "FEASIBLE"} /\ penalty \in Nat
    <2>1. CASE problem \in Solved
      <3>1. problem \in SolverProblems
        BY <2>1, SolvedAssumption
      <3> QED BY <1>3, <2>1, <3>1, ResultsAreSolutions, ResultsAreRated, SolutionsOnTheGrid
    <2>2. CASE problem \notin Solved
      <3>1. PICK e \in Timetables[problem] :
                result = [entries |-> e, status |-> "FEASIBLE", penalty |-> EvaluatedPenalty(problem, e)]
        BY <1>3, <2>2 DEF GivenResults
      <3>2. e \subseteq Lessons(problem) \cup ReservedEntries(problem)
        BY <1>2, GeneratedAssumption
      <3> QED BY <1>2, <1>3, <3>1, <3>2, GridIsRated
    <2> QED BY <2>1, <2>2
  <1> QED BY <1>1, <1>2, <1>4 DEF TypingInv, SolvingTypeOK, TypeOK

LEMMA MoveTyping == ASSUME TypingInv, MoveVersion PROVE SolvingTypeOK'
  <1>1. SolvingInv /\ SolvingTypeOK
    BY DEF TypingInv, EditingInv
  <1>2. PICK m : MoveAllowed(entries, m) /\ entries' = Applied(entries, MovePlan(entries, m))
    BY MovesExchange
  <1>3. UNCHANGED <<problem, locked, reviewed, earlier>>
    BY MovesExchange
  <1>4. entries' \subseteq Lessons(problem) \cup ReservedEntries(problem)
    BY <1>1, <1>2, ExchangeOnGrid DEF SolvingTypeOK, TypeOK
  <1>5. status' = "FEASIBLE" /\ penalty' \in Nat
    BY <1>1, <1>4, GridIsRated DEF MoveVersion, SolvingInv
  <1> QED BY <1>1, <1>3, <1>4, <1>5 DEF SolvingTypeOK, TypeOK

LEMMA LockTyping == ASSUME TypingInv, LockVersion PROVE SolvingTypeOK'
  <1>1. SolvingInv /\ SolvingTypeOK
    BY DEF TypingInv, EditingInv
  <1>2. UNCHANGED <<problem, entries, reviewed, version>>
    BY DEF LockVersion, LockOccurrence, UnlockOccurrence
  <1>3. locked' \subseteq Lessons(problem)
    <2>1. CASE LockOccurrence
      <3>1. PICK x \in entries \cap Lessons(problem) :
                /\ IsOccurrence(problem, entries, x[1], x[2], x[3])
                /\ locked' = locked \cup OccurrenceKeys(problem, entries, x[1], x[2], x[3])
        BY <2>1 DEF LockOccurrence
      <3>2. x[2] \in problem.day
        BY DEF Lessons
      <3>3. OccurrenceKeys(problem, entries, x[1], x[2], x[3]) \subseteq Lessons(problem)
        BY <1>1, <3>1, <3>2, KeysAreLessons DEF SolvingInv
      <3> QED BY <1>1, <3>1, <3>3 DEF SolvingTypeOK, TypeOK
    <2>2. CASE UnlockOccurrence
      BY <1>1, <2>2 DEF UnlockOccurrence, SolvingTypeOK, TypeOK
    <2> QED BY <2>1, <2>2 DEF LockVersion
  <1> QED BY <1>1, <1>2, <1>3 DEF SolvingTypeOK, TypeOK, version

LEMMA ReviewTyping == ASSUME TypingInv, ReviewVersion PROVE SolvingTypeOK'
  <1>1. SolvingInv /\ SolvingTypeOK
    BY DEF TypingInv, EditingInv
  <1>2. PICK m \in Moves : MoveAllowed(entries, m) /\ reviewed' = [move |-> m, plan |-> MovePlan(entries, m)]
    BY DEF ReviewVersion, ReviewMove
  <1>3. UNCHANGED <<problem, entries, locked, version>>
    BY DEF ReviewVersion, ReviewMove
  <1>4. m.lesson \in Lessons(problem) /\ m.day \in problem.day /\ m.period \in Periods(problem)
    BY DEF Moves
  <1>5. MovePlan(entries, m).removed \cup MovePlan(entries, m).added \subseteq Lessons(problem)
    BY <1>1, <1>2, <1>4, PlanOfLessons
  <1>6. /\ reviewed'.move.lesson \in Lessons(problem)
        /\ <<reviewed'.move.day, reviewed'.move.period>> \in Slots(problem)
        /\ reviewed'.plan.removed \cup reviewed'.plan.added \subseteq Lessons(problem)
    BY <1>2, <1>4, <1>5 DEF Slots
  <1> QED BY <1>1, <1>3, <1>6 DEF SolvingTypeOK, TypeOK, version

LEMMA ReoptimizeTyping == ASSUME TypingInv, Reoptimize PROVE SolvingTypeOK'
  <1>1. SolvingTypeOK
    BY DEF TypingInv
  <1>2. entries' \in Solutions[problem] /\ problem \in SolverProblems /\ UNCHANGED <<problem, locked, reviewed, earlier>>
    BY ReoptimizedKeepsLocks, SolvedAssumption DEF KeepingLocks
  <1>3. entries' \subseteq Lessons(problem) \cup ReservedEntries(problem)
    BY <1>2, SolutionsOnTheGrid
  <1> QED BY <1>1, <1>2, <1>3, ReoptimizedIsRated DEF SolvingTypeOK, TypeOK

LEMMA RegenerateTyping == ASSUME TypingInv, Regenerate PROVE SolvingTypeOK' /\ problem' \in Drafts[earlier']
  <1>1. SolvingInv /\ SolvingTypeOK
    BY DEF TypingInv, EditingInv
  <1>2. problem \in Solved /\ earlier' = problem /\ reviewed' = reviewed /\ reviewed = NoMove
    BY DEF Regenerate, TypingInv, EditingInv
  <1>3. PICK pr \in Drafts[problem], order \in KeyOrders(locked), keys \in SUBSET locked :
            /\ Classified(pr, entries, order, keys)
            /\ Pins(pr, keys) \subseteq Lessons(pr)
            /\ \E result \in SolveResults(pr, Pins(pr, keys)) :
                   /\ entries' = result.entries
                   /\ status' = result.status
                   /\ penalty' = result.penalty
            /\ problem' = pr
            /\ locked' = keys
    BY DEF Regenerate
  <1>4. pr \in SolverProblems /\ pr \in Problems
    BY <1>2, SolvedAssumption
  <1>5. /\ entries' \subseteq Lessons(pr) \cup ReservedEntries(pr)
        /\ status' \in {"OPTIMAL", "FEASIBLE"} /\ penalty' \in Nat
    BY <1>3, <1>4, ResultsAreSolutions, ResultsAreRated, SolutionsOnTheGrid
  <1>6. ASSUME NEW k \in keys PROVE k \in Lessons(pr)
    <2>1. k \in Lessons(problem)
      BY <1>1, <1>3 DEF SolvingTypeOK, TypeOK
    <2>2. k = <<k[1], k[2], k[3]>>
      BY <2>1 DEF Lessons
    <2>3. PICK i \in DOMAIN order : order[i] = k
      BY <1>3 DEF Classified, Range
    <2>4. IsOccurrence(pr, entries, k[1], k[2], k[3])
      BY <1>3, <2>3 DEF Classified, StaysLocked
    <2>5. k[3] \in BlockPeriods(pr, entries, k[1], k[2], k[3]) /\ k[1] \in Branches(pr, k[1])
      BY <2>4, BlockOnTheDay DEF IsOccurrence, Branches
    <2>6. k \in Occurrence(pr, entries, k[1], k[2], k[3])
      BY <2>2, <2>5 DEF Occurrence
    <2> QED BY <1>3, <2>6 DEF Pins, CompatibleMembers
  <1> QED BY <1>2, <1>3, <1>4, <1>5, <1>6 DEF SolvingTypeOK, TypeOK

LEMMA RestoreTyping == ASSUME ReservedSlotsStay, TypingInv, Restore PROVE SolvingTypeOK'
  <1>1. SolvingTypeOK
    BY DEF TypingInv
  <1>2. /\ earlier \in Solved /\ earlier \in SolverProblems /\ earlier \in Problems
        /\ problem \in Drafts[earlier] /\ earlier.req = problem.req /\ UNCHANGED <<problem, reviewed, earlier>>
    BY SolvedAssumption DEF Restore, TypingInv, SolvingTypeOK
  <1>3. PICK source \in VersionsOf(earlier) :
            /\ Storable(problem, source.entries)
            /\ entries' = source.entries
            /\ locked' = source.locked
            /\ status' = "FEASIBLE"
            /\ penalty' = EvaluatedPenalty(earlier, source.entries)
    BY DEF Restore
  <1>4. PICK e \in Solutions[earlier] :
            /\ PreferredDoublesFormed(earlier, e) /\ source.entries = e
            /\ \/ source.locked = {}
               \/ \E x \in LessonsOf(earlier, e) : source.locked = OccurrenceKeys(earlier, e, x[1], x[2], x[3])
    BY DEF VersionsOf
  <1>5. /\ e \subseteq Lessons(earlier) \cup ReservedEntries(earlier) /\ Triples(e) /\ Verified(earlier, e)
    BY <1>2, SolutionsOnTheGrid, GridIsStorable, SolutionsAreVerified
  <1>6. \A x \in e : x = <<x[1], x[2], x[3]>> /\ x[1] \in problem.req \cup problem.reserved
                         /\ <<x[2], x[3]>> \in Slots(problem) /\ x[2] \in problem.day /\ x[3] \in Periods(problem)
    BY <1>3, <1>4, <1>5 DEF Triples, Storable, Slots
  <1>7. ASSUME NEW x \in e PROVE /\ x[1] \in problem.req => x \in Lessons(problem)
                                 /\ x \in Lessons(problem) \cup ReservedEntries(problem)
    <2>1. x[1] \in problem.req => x \in Lessons(problem)
      <3>1. x = <<x[1], x[2], x[3]>> /\ x[2] \in problem.day /\ x[3] \in Periods(problem)
        BY <1>6
      <3> QED BY <3>1 DEF Lessons
    <2>2. CASE x[1] \notin problem.req
      <3>1. x \in ReservedEntries(earlier)
        BY <1>2, <1>5, <2>2 DEF Lessons
      <3>2. x[1] \in problem.reserved /\ <<x[2], x[3]>> \in Slots(problem)
        BY <1>6, <2>2
      <3>3. x \in ReservedEntries(problem)
        BY <1>2, <3>1, <3>2 DEF ReservedSlotsStay
      <3> QED BY <2>2, <3>3
    <2> QED BY <2>1, <2>2
  <1>8. source.locked \subseteq Lessons(problem)
    <2> SUFFICES ASSUME NEW x \in LessonsOf(earlier, e), source.locked = OccurrenceKeys(earlier, e, x[1], x[2], x[3])
                 PROVE  source.locked \subseteq Lessons(problem)
      BY <1>4
    <2>1. x \in e /\ x[1] \in earlier.req /\ x[2] \in earlier.day
      BY <1>5 DEF LessonsOf, Lessons
    <2>2. IsOccurrence(earlier, e, x[1], x[2], x[3])
      BY <1>2, <1>4, <1>5, <2>1, LessonsHaveOccurrences
    <2>3. OccurrenceKeys(earlier, e, x[1], x[2], x[3]) \subseteq e
      BY <1>2, <1>5, <2>1, <2>2, KeysAreLessons, OccurrenceInEntries
    <2>4. \A k \in OccurrenceKeys(earlier, e, x[1], x[2], x[3]) : k[1] \in problem.req
      BY <1>2 DEF OccurrenceKeys, Branches
    <2> QED BY <1>7, <2>3, <2>4
  <1>9. penalty' \in Nat
    BY <1>2, <1>3, <1>4, <1>5, GridIsRated
  <1> QED BY <1>1, <1>2, <1>3, <1>4, <1>7, <1>8, <1>9 DEF SolvingTypeOK, TypeOK

(***************************************************************************)
(* SolvingTypeOK: what is stored, locked and reviewed are lessons on the   *)
(* grid of the configuration of the version, and reserved blocks in their  *)
(* slots, if no draft has freed a slot of a block that stays: the entry of *)
(* a restored version is looked up by its block, its day and its period    *)
(* alone (schedule_version_repository.py).                                 *)
(***************************************************************************)
THEOREM SolvingTypes == ASSUME ReservedSlotsStay PROVE SolvingSpec => []SolvingTypeOK
  <1>1. ASSUME TypingInv, [SolvingNext]_allVars PROVE TypingInv'
    <2>1. EditingInv /\ EditingInv'
      BY <1>1, EditingInvKept DEF TypingInv
    <2>2. CASE Regenerate
      BY <1>1, <2>1, <2>2, RegenerateTyping DEF TypingInv
    <2>3. CASE ~Regenerate
      <3>1. UNCHANGED <<problem, earlier>> /\ SolvingTypeOK'
        <4>1. CASE MoveVersion
          BY <1>1, <4>1, MovesExchange, MoveTyping
        <4>2. CASE LockVersion
          BY <1>1, <4>2, LockTyping DEF LockVersion, LockOccurrence, UnlockOccurrence, version
        <4>3. CASE ReviewVersion
          BY <1>1, <4>3, ReviewTyping DEF ReviewVersion, ReviewMove, version
        <4>4. CASE Reoptimize
          BY <1>1, <4>4, ReoptimizedKeepsLocks, ReoptimizeTyping
        <4>5. CASE Restore
          BY <1>1, <4>5, RestoreTyping DEF Restore
        <4>6. CASE UNCHANGED allVars
          BY <1>1, <4>6 DEF TypingInv, SolvingTypeOK, TypeOK, allVars, vars, version
        <4> QED BY <1>1, <2>3, <4>1, <4>2, <4>3, <4>4, <4>5, <4>6 DEF SolvingNext
      <3> QED BY <1>1, <2>1, <3>1 DEF TypingInv
    <2> QED BY <2>2, <2>3
  <1>2. Generate => TypingInv
    BY GenerateTyping
  <1>3. TypingInv => SolvingTypeOK
    BY DEF TypingInv
  <1> QED BY <1>1, <1>2, <1>3, PTL DEF SolvingSpec

-----------------------------------------------------------------------------
(***************************************************************************)
(* Locks that can be found.                                                *)
(***************************************************************************)
\* A draft does not join requirements to a split that were apart.
DraftsJoinNoSplits ==
    \A pr \in Solved : \A draft \in Drafts[pr] : \A r \in draft.req \cap pr.req :
        Branches(draft, r) \cap (pr.req \cup pr.reserved) \subseteq Branches(pr, r)

\* The branches of a split are PREFERRED doubles all or none: those the code
\* writes are none (synchronized_split_repository.py:87).
BranchesAlike ==
    \A pr \in Solved : \A r \in pr.req : \A s \in Branches(pr, r) : PrefersDouble(pr, s) <=> PrefersDouble(pr, r)

\* Splits are locked as a whole.
Closed(pr, keys) ==
    \A k \in keys : /\ k = <<k[1], k[2], k[3]>> /\ k[1] \in pr.req
                    /\ \A s \in Branches(pr, k[1]) : <<s, k[2], k[3]>> \in keys

\* The keys of an occurrence name all branches of its split.
LEMMA KeysClosed ==
    ASSUME NEW pr, NEW e, NEW r \in pr.req, NEW d, NEW p
    PROVE  Closed(pr, OccurrenceKeys(pr, e, r, d, p))
  <1> DEFINE n == Min(BlockPeriods(pr, e, r, d, p))
             keys == Branches(pr, r) \X {d} \X {n}
  <1>1. OccurrenceKeys(pr, e, r, d, p) = keys
    BY DEF OccurrenceKeys
  <1> HIDE DEF n
  <1>2. ASSUME NEW k \in keys
        PROVE  /\ k = <<k[1], k[2], k[3]>> /\ k[1] \in pr.req
               /\ \A s \in Branches(pr, k[1]) : <<s, k[2], k[3]>> \in keys
    <2>1. k = <<k[1], k[2], k[3]>> /\ k[1] \in Branches(pr, r) /\ k[2] = d /\ k[3] = n
      OBVIOUS
    <2>2. k[1] \in pr.req /\ Branches(pr, k[1]) = Branches(pr, r)
      BY <2>1, BranchesOfBranch
    <2> QED BY <2>1, <2>2
  <1> HIDE DEF keys
  <1> QED BY <1>1, <1>2 DEF Closed

\* Locking and unlocking an occurrence.
LEMMA ClosedWith ==
    ASSUME NEW pr, NEW keys, Closed(pr, keys), NEW e, NEW r \in pr.req, NEW d, NEW p
    PROVE  /\ Closed(pr, keys \cup OccurrenceKeys(pr, e, r, d, p))
           /\ Closed(pr, keys \ OccurrenceKeys(pr, e, r, d, p))
  <1> DEFINE n == Min(BlockPeriods(pr, e, r, d, p))
             own == OccurrenceKeys(pr, e, r, d, p)
  <1>1. Closed(pr, own)
    BY KeysClosed
  <1>2. own = Branches(pr, r) \X {d} \X {n}
    BY DEF OccurrenceKeys
  <1> HIDE DEF n, own
  <1>3. Closed(pr, keys \cup own)
    BY <1>1 DEF Closed
  <1>4. ASSUME NEW k \in keys \ own, NEW s \in Branches(pr, k[1]) PROVE <<s, k[2], k[3]>> \in keys \ own
    <2>1. k = <<k[1], k[2], k[3]>> /\ k[1] \in pr.req /\ <<s, k[2], k[3]>> \in keys
      BY DEF Closed
    <2>2. ASSUME <<s, k[2], k[3]>> \in own PROVE FALSE
      <3>1. s \in Branches(pr, r) /\ k[2] = d /\ k[3] = n
        BY <1>2, <2>2
      <3>2. k[1] \in Branches(pr, s) /\ Branches(pr, s) = Branches(pr, r)
        BY <2>1, <3>1, BranchesOfBranch
      <3> QED BY <1>2, <2>1, <3>1, <3>2
    <2> QED BY <2>1, <2>2
  <1>5. Closed(pr, keys \ own)
    BY <1>4 DEF Closed
  <1> QED BY <1>3, <1>5 DEF own

\* A lesson that is no block is found where all its branches are.
LEMMA FlexibleFindable ==
    ASSUME NEW pr \in Problems, NEW e, Triples(e), Storable(pr, e), NEW keys, Closed(pr, keys), NEW k \in keys,
           ~WholeDay(pr, k[1]), \A s \in Branches(pr, k[1]) : <<s, k[2], k[3]>> \in e
    PROVE  IsFindable(pr, e, keys, k)
  <1>1. k = <<k[1], k[2], k[3]>> /\ k[1] \in pr.req /\ k[1] \in Branches(pr, k[1])
    BY DEF Closed, Branches
  <1>2. \A s \in Branches(pr, k[1]) : k[3] \in PeriodsOn(e, s, k[2])
    BY PeriodsOnMembers
  <1>3. BlockPeriods(pr, e, k[1], k[2], k[3]) = {k[3]}
    BY DEF BlockPeriods
  <1>4. PeriodsOn(e, k[1], k[2]) \subseteq Periods(pr)
    BY DEF PeriodsOn, Storable, Slots
  <1>5. ~PrefersDouble(pr, k[1])
    BY DEF WholeDay
  <1>6. IsOccurrence(pr, e, k[1], k[2], k[3])
    BY <1>1, <1>2, <1>3, <1>4, <1>5 DEF IsOccurrence
  <1>7. Min({k[3]}) = k[3]
    <2>1. k[3] \in Nat
      BY <1>1, <1>2, <1>4, ProblemAssumption
    <2> QED BY <2>1 DEF Min
  <1>8. OccurrenceKeys(pr, e, k[1], k[2], k[3]) = Branches(pr, k[1]) \X {k[2]} \X {k[3]}
    BY <1>3, <1>7 DEF OccurrenceKeys
  <1>9. k \in OccurrenceKeys(pr, e, k[1], k[2], k[3])
    BY <1>1, <1>8
  <1>10. ASSUME NEW x \in Branches(pr, k[1]) \X {k[2]} \X {k[3]} PROVE x \in keys
    <2>1. x = <<x[1], k[2], k[3]>> /\ x[1] \in Branches(pr, k[1])
      OBVIOUS
    <2> QED BY <2>1 DEF Closed
  <1> QED BY <1>6, <1>8, <1>9, <1>10 DEF IsFindable

\* What is found is where all its branches are.
LEMMA FindableEverywhere ==
    ASSUME NEW pr, NEW e, Triples(e), NEW k, IsOccurrence(pr, e, k[1], k[2], k[3])
    PROVE  \A s \in Branches(pr, k[1]) : <<s, k[2], k[3]>> \in Occurrence(pr, e, k[1], k[2], k[3])
                                             /\ <<s, k[2], k[3]>> \in e
  <1>1. k[3] \in BlockPeriods(pr, e, k[1], k[2], k[3])
    BY BlockOnTheDay
  <1>2. Occurrence(pr, e, k[1], k[2], k[3]) \subseteq e
    BY OccurrenceInEntries
  <1> QED BY <1>1, <1>2 DEF Occurrence

\* The keys of a split name the same occurrence of a draft that joins no splits.
LEMMA SameOccurrence ==
    ASSUME DraftsJoinNoSplits, BranchesAlike,
           NEW old \in Solved, NEW pr \in Drafts[old], NEW e, Triples(e), Storable(old, e), SplitsSynchronized(old, e),
           NEW r \in old.req, NEW d, NEW p, IsOccurrence(pr, e, r, d, p), NEW s \in Branches(pr, r)
    PROVE  /\ s \in Branches(old, r) /\ IsOccurrence(pr, e, s, d, p)
           /\ Occurrence(pr, e, s, d, p) = Occurrence(pr, e, r, d, p)
  <1>1. pr \in Solved /\ pr \in Problems /\ r \in pr.req
    BY SolvedAssumption DEF IsOccurrence
  <1>2. \A t \in Branches(pr, r) : t \in Branches(old, r)
    <2> SUFFICES ASSUME NEW t \in Branches(pr, r) PROVE t \in Branches(old, r)
      OBVIOUS
    <2>1. p \in PeriodsOn(e, t, d)
      BY BlockOnTheDay DEF IsOccurrence
    <2>2. PICK x \in e : x[1] = t
      BY <2>1 DEF PeriodsOn
    <2>3. t \in old.req \cup old.reserved
      BY <2>2 DEF Storable
    <2> QED BY <1>1, <2>3 DEF DraftsJoinNoSplits
  <1>3. s \in pr.req /\ Branches(pr, s) = Branches(pr, r)
    BY <1>1, BranchesOfBranch
  <1>4. PeriodsOn(e, s, d) = PeriodsOn(e, r, d)
    BY <1>2, BranchesTogether
  <1>5. (WholeDay(pr, s) <=> WholeDay(pr, r)) /\ (PrefersDouble(pr, s) <=> PrefersDouble(pr, r))
    BY <1>1, ProblemAssumption DEF BranchesAlike
  <1>6. BlockPeriods(pr, e, s, d, p) = BlockPeriods(pr, e, r, d, p)
    BY <1>4, <1>5 DEF BlockPeriods
  <1>7. IsOccurrence(pr, e, s, d, p)
    BY <1>3, <1>4, <1>5, <1>6 DEF IsOccurrence
  <1>8. Occurrence(pr, e, s, d, p) = Occurrence(pr, e, r, d, p)
    BY <1>3, <1>6 DEF Occurrence
  <1> QED BY <1>2, <1>7, <1>8

\* Occurrences that have a block of a requirement in common are the same.
LEMMA BlockNamesOccurrence ==
    ASSUME NEW pr \in Problems, NEW e, NEW r, NEW s, NEW c, NEW d, NEW p, NEW q,
           Triples(e), IsOccurrence(pr, e, r, c, p), IsOccurrence(pr, e, s, d, q),
           NEW a \in Branches(pr, r),
           {x \in Occurrence(pr, e, r, c, p) : x[1] = a} = {x \in Occurrence(pr, e, s, d, q) : x[1] = a}
    PROVE  Occurrence(pr, e, r, c, p) = Occurrence(pr, e, s, d, q)
  <1> DEFINE B == BlockPeriods(pr, e, r, c, p)
             W == BlockPeriods(pr, e, s, d, q)
  <1>1. Occurrence(pr, e, r, c, p) = Branches(pr, r) \X {c} \X B /\ Occurrence(pr, e, s, d, q) = Branches(pr, s) \X {d} \X W
    BY DEF Occurrence
  <1>2. p \in B /\ r \in pr.req /\ s \in pr.req
    BY BlockOnTheDay DEF IsOccurrence
  <1> HIDE DEF B, W
  <1>3. <<a, c, p>> \in Branches(pr, s) \X {d} \X W
    BY <1>1, <1>2
  <1>4. a \in Branches(pr, s) /\ c = d
    BY <1>3
  <1>5. Branches(pr, r) = Branches(pr, s)
    BY <1>2, <1>4, BranchesOfBranch
  <1>6. B = W
    <2>1. ASSUME NEW i \in B PROVE i \in W
      <3>1. <<a, c, i>> \in {x \in Branches(pr, r) \X {c} \X B : x[1] = a}
        OBVIOUS
      <3>2. <<a, c, i>> \in Branches(pr, s) \X {d} \X W
        BY <1>1, <3>1
      <3> QED BY <3>2
    <2>2. ASSUME NEW i \in W PROVE i \in B
      <3>1. <<a, d, i>> \in {x \in Branches(pr, s) \X {d} \X W : x[1] = a}
        BY <1>4
      <3>2. <<a, d, i>> \in Branches(pr, r) \X {c} \X B
        BY <1>1, <3>1
      <3> QED BY <3>2
    <2> QED BY <2>1, <2>2
  <1> QED BY <1>1, <1>4, <1>5, <1>6

\* Every key has its turn.
LEMMA OrdersAll ==
    ASSUME NEW keys, IsFiniteSet(keys), NEW order \in KeyOrders(keys)
    PROVE  Range(order) = keys
  <1> DEFINE n == Cardinality(keys)
             D == 1 .. n
  <1>1. n \in Nat
    BY FS_CardinalityType
  <1>2. order \in [D -> keys] /\ \A i, j \in D : i # j => order[i] # order[j]
    BY DEF KeyOrders, SetToSeqs
  <1>3. order \in Injection(D, keys)
    <2> HIDE DEF D
    <2> QED BY <1>2 DEF Injection, IsInjective
  <1>4. Cardinality(D) = n
    <2> HIDE DEF n
    <2>1. 1 \in Int /\ n \in Int
      BY <1>1
    <2>2. Cardinality(1 .. n) = IF 1 > n THEN 0 ELSE n - 1 + 1
      BY <2>1, FS_Interval
    <2> QED BY <1>1, <2>2
  <1>5. order \in Surjection(D, keys)
    <2> HIDE DEF D
    <2> QED BY <1>3, <1>4, FS_Injection
  <1>6. \A k \in keys : \E i \in D : order[i] = k
    <2> HIDE DEF D
    <2> QED BY <1>5 DEF Surjection
  <1> HIDE DEF D
  <1> QED BY <1>2, <1>6 DEF Range

\* What classify_locks has kept before its turn i.
KeptBefore(keys, order, i) == keys \cap {order[j] : j \in 1 .. i - 1}

\* The occurrences that keys name.
OccurrencesOf(pr, e, keys) == {Occurrence(pr, e, k[1], k[2], k[3]) : k \in keys}

\* The blocks of a requirement in some occurrences.
BlocksOf(r, occurrences) == {{x \in o : x[1] = r} : o \in occurrences} \ {{}}

\* A key is classified like another one of the same occurrence.
LEMMA ClassifiedAlike ==
    ASSUME NEW pr \in Problems, NEW e, Triples(e), NEW keys, IsFiniteSet(keys), NEW order \in KeyOrders(keys),
           NEW kept, Classified(pr, e, order, kept), NEW k \in kept, NEW h \in keys,
           IsOccurrence(pr, e, h[1], h[2], h[3]),
           Occurrence(pr, e, h[1], h[2], h[3]) = Occurrence(pr, e, k[1], k[2], k[3])
    PROVE  h \in kept
  <1> DEFINE N == Cardinality(keys)
             Of(j) == Occurrence(pr, e, j[1], j[2], j[3])
             occ == Of(k)
             Turns == {i \in 1 .. N : order[i] \in kept /\ Of(order[i]) = occ}
             i == Min(Turns)
  <1>1. N \in Nat /\ DOMAIN order = 1 .. N /\ Range(order) = keys
    BY OrdersAll, FS_CardinalityType DEF KeyOrders, SetToSeqs
  <1>2. \A l \in 1 .. N : order[l] \in kept <=> StaysLocked(pr, e, order[l], KeptBefore(kept, order, l))
    BY <1>1 DEF Classified, KeptBefore
  <1>3. kept \subseteq keys
    BY <1>1 DEF Classified
  <1>4. \A l \in keys : \E j \in 1 .. N : order[j] = l
    BY <1>1 DEF Range
  <1>5. i \in Turns /\ i \in 1 .. N /\ \A l \in Turns : i <= l
    <2>1. Turns # {}
      BY <1>3, <1>4
    <2>2. Turns \in SUBSET Nat
      OBVIOUS
    <2> HIDE DEF Turns
    <2>3. i \in Turns /\ \A l \in Turns : i <= l
      BY <2>1, <2>2, Smallest
    <2> QED BY <2>3 DEF Turns
  <1> HIDE DEF i
  <1>6. order[i] \in kept /\ Of(order[i]) = occ
    BY <1>5
  <1>7. PICK j \in 1 .. N : order[j] = h
    BY <1>4
  <1>8. SUFFICES ASSUME h \notin kept PROVE FALSE
    OBVIOUS
  <1>9. Of(h) = occ
    OBVIOUS
  <1> DEFINE before == OccurrencesOf(pr, e, KeptBefore(kept, order, j))
             later == OccurrencesOf(pr, e, KeptBefore(kept, order, i))
  <1>10. StaysLocked(pr, e, order[i], KeptBefore(kept, order, i)) /\ ~StaysLocked(pr, e, h, KeptBefore(kept, order, j))
    BY <1>2, <1>5, <1>6, <1>7, <1>8
  <1> HIDE DEF Turns
  <1>11. RequiredPatternViolated(pr, occ, before) /\ ~RequiredPatternViolated(pr, occ, later)
    <2>1. /\ \A x \in occ : <<pr.teacher[x[1]], x[2], x[3]>> \notin pr.unavailable
          /\ ~FixedPlacementConflict(pr, occ) /\ ~ResourceViolated(pr, occ)
          /\ ~RequiredPatternViolated(pr, occ, later)
      <3> HIDE DEF Of
      <3>1. Of(order[i]) = Occurrence(pr, e, order[i][1], order[i][2], order[i][3])
        BY DEF Of
      <3>2. occ = Occurrence(pr, e, order[i][1], order[i][2], order[i][3])
        BY <1>6, <3>1
      <3> HIDE DEF occ
      <3> QED BY <1>10, <3>2 DEF StaysLocked, OccurrencesOf
    <2>2. RequiredPatternViolated(pr, occ, before)
      <3>1. occ = Occurrence(pr, e, h[1], h[2], h[3])
        BY <1>9
      <3> HIDE DEF occ
      <3> QED BY <1>10, <2>1, <3>1 DEF StaysLocked, OccurrencesOf
    <2> QED BY <2>1, <2>2
  <1>12. PICK r \in {x[1] : x \in occ} :
             LET Block == {x \in occ : x[1] = r}
                 size == Cardinality(Block)
             IN  /\ pr.mode[r] = "REQUIRED" /\ Block \notin BlocksOf(r, before)
                 /\ Cardinality({block \in BlocksOf(r, before) : Cardinality(block) = size})
                        >= Cardinality({l \in DOMAIN pr.sizes[r] : pr.sizes[r][l] = size})
    <2> HIDE DEF occ, before
    <2> QED BY <1>11 DEF RequiredPatternViolated, BlocksOf
  <1> DEFINE Block == {x \in occ : x[1] = r}
             size == Cardinality(Block)
             Sized(blocks) == {block \in blocks : Cardinality(block) = size}
             count == Cardinality({l \in DOMAIN pr.sizes[r] : pr.sizes[r][l] = size})
  <1>13. pr.mode[r] = "REQUIRED" /\ Block \notin BlocksOf(r, before) /\ Cardinality(Sized(BlocksOf(r, before))) >= count
    BY <1>12
  <1>14. r \in Branches(pr, k[1])
    BY DEF Occurrence
  <1>15. Block # {}
    <2> HIDE DEF occ
    <2> QED OBVIOUS
  <1>16. CASE i < j
    <2>1. order[i] \in KeptBefore(kept, order, j)
      BY <1>5, <1>6, <1>7, <1>16 DEF KeptBefore
    <2>2. occ \in before
      <3>1. Occurrence(pr, e, order[i][1], order[i][2], order[i][3]) = occ
        BY <1>6
      <3> HIDE DEF occ
      <3> QED BY <2>1, <3>1 DEF OccurrencesOf
    <2>3. Block \in BlocksOf(r, before)
      <3> HIDE DEF occ, before
      <3> QED BY <1>15, <2>2 DEF BlocksOf
    <2> QED BY <1>13, <2>3
  <1>17. CASE ~(i < j)
    <2>1. KeptBefore(kept, order, j) \subseteq KeptBefore(kept, order, i)
      BY <1>5, <1>7, <1>17 DEF KeptBefore
    <2>2. before \subseteq later
      BY <2>1 DEF OccurrencesOf
    <2>3. BlocksOf(r, before) \subseteq BlocksOf(r, later)
      <3> HIDE DEF before, later
      <3> QED BY <2>2 DEF BlocksOf
    <2>4. IsFiniteSet(BlocksOf(r, later))
      <3> DEFINE mine == KeptBefore(kept, order, i)
                 block == [l \in mine |-> {x \in Of(l) : x[1] = r}]
                 all == {block[l] : l \in mine}
      <3>1. IsFiniteSet(mine)
        <4>1. mine \in SUBSET keys
          BY <1>3 DEF KeptBefore
        <4> HIDE DEF mine
        <4> QED BY <4>1, FS_Subset
      <3>2. block \in Surjection(mine, all)
        <4>1. block \in [mine -> all]
          OBVIOUS
        <4> HIDE DEF mine
        <4>2. \A y \in all : \E l \in mine : block[l] = y
          <5> HIDE DEF block
          <5> QED OBVIOUS
        <4> HIDE DEF block, all
        <4> QED BY <4>1, <4>2 DEF Surjection
      <3>3. IsFiniteSet(all)
        <4> HIDE DEF mine, block, all
        <4> QED BY <3>1, <3>2, FS_Surjection
      <3>4. BlocksOf(r, later) \in SUBSET all
        <4> HIDE DEF mine
        <4>1. \A o \in later : \E l \in mine : o = Of(l)
          BY DEF OccurrencesOf, mine
        <4> HIDE DEF later, Of
        <4> QED BY <4>1 DEF BlocksOf
      <3> HIDE DEF all, later
      <3> QED BY <3>3, <3>4, FS_Subset
    <2>5. Cardinality(Sized(BlocksOf(r, later))) >= count
      <3> DEFINE A == Sized(BlocksOf(r, before))
                 B == Sized(BlocksOf(r, later))
      <3>1. A \in SUBSET B /\ B \in SUBSET BlocksOf(r, later)
        BY <2>3
      <3> HIDE DEF A, B, count, later
      <3>2. IsFiniteSet(B) /\ IsFiniteSet(A) /\ Cardinality(A) <= Cardinality(B)
        BY <2>4, <3>1, FS_Subset
      <3>3. Cardinality(A) \in Nat /\ Cardinality(B) \in Nat
        BY <3>2, FS_CardinalityType
      <3>4. count \in Nat
        <4>1. r \in pr.req
          BY <1>14 DEF Branches
        <4>2. IsFiniteSet(DOMAIN pr.sizes[r])
          BY <4>1, PatternFinite
        <4> HIDE DEF size
        <4>3. {l \in DOMAIN pr.sizes[r] : pr.sizes[r][l] = size} \in SUBSET DOMAIN pr.sizes[r]
          OBVIOUS
        <4> QED BY <4>2, <4>3, FS_Subset, FS_CardinalityType DEF count
      <3>5. Cardinality(A) >= count
        BY <1>13 DEF A
      <3>6. Cardinality(B) >= count
        BY <3>2, <3>3, <3>4, <3>5
      <3> QED BY <3>6 DEF B
    <2>6. Block \in BlocksOf(r, later)
      <3>1. r \in {x[1] : x \in occ}
        OBVIOUS
      <3> HIDE DEF occ, later
      <3> QED BY <1>11, <1>13, <2>5, <3>1 DEF RequiredPatternViolated, BlocksOf
    <2>7. PICK l \in KeptBefore(kept, order, i) : Block = {x \in Of(l) : x[1] = r}
      <3> HIDE DEF Block, Of
      <3>1. \A o \in later : \E l \in KeptBefore(kept, order, i) : o = Of(l)
        BY DEF OccurrencesOf, Of
      <3> HIDE DEF later
      <3> QED BY <2>6, <3>1 DEF BlocksOf
    <2>8. PICK n \in 1 .. i - 1 : order[n] = l
      BY DEF KeptBefore
    <2>9. l \in kept /\ n \in 1 .. N /\ n < i
      BY <1>1, <1>5, <2>8 DEF KeptBefore
    <2>10. IsOccurrence(pr, e, l[1], l[2], l[3]) /\ IsOccurrence(pr, e, k[1], k[2], k[3])
      <3>1. \A g \in kept : IsOccurrence(pr, e, g[1], g[2], g[3])
        BY <1>2, <1>3, <1>4 DEF StaysLocked
      <3> QED BY <2>9, <3>1
    <2>11. Of(l) = occ
      BY <1>14, <2>7, <2>10, BlockNamesOccurrence
    <2>12. n \in Turns
      BY <2>8, <2>9, <2>11 DEF Turns
    <2> QED BY <1>1, <1>5, <2>9, <2>12
  <1> QED BY <1>16, <1>17

\* What keeps locks findable: splits are locked as a whole, and the branches of
\* what is solved are together.
LockingInv ==
    /\ EditingInv
    /\ Closed(problem, locked)
    /\ problem \in Solved => SplitsSynchronized(problem, entries)
    /\ earlier # NoProblem => problem \in Drafts[earlier]
    /\ LocksAreFindable

\* A generated timetable has no locks, and its splits are together.
LEMMA GenerateLocking == ASSUME Generate PROVE LockingInv
  <1>1. EditingInv /\ locked = {} /\ earlier = NoProblem
    BY GenerateEdited DEF Generate
  <1>2. ASSUME problem \in Solved PROVE SplitsSynchronized(problem, entries)
    <2>1. PICK result \in SolveResults(problem, {}) : entries = result.entries
      BY <1>2 DEF Generate
    <2>2. problem \in SolverProblems /\ entries \in Solutions[problem]
      BY <1>2, <2>1, ResultsAreSolutions, SolvedAssumption
    <2> QED BY <2>2, SolutionIsAccepted DEF Accepted, Verified
  <1> QED BY <1>1, <1>2 DEF LockingInv, Closed, LocksAreFindable

\* Edits by hand.
LEMMA EditLocking == ASSUME LockingInv, MoveVersion \/ LockVersion PROVE LockingInv'
  <1>1. SolvingInv /\ EditingInv /\ EditingInv'
    BY EditingInvKept DEF LockingInv, EditingInv, SolvingNext
  <1>2. UNCHANGED <<problem, earlier>>
    BY MovesExchange DEF LockVersion, LockOccurrence, UnlockOccurrence, version
  <1>3. Closed(problem, locked')
    <2>1. CASE MoveVersion
      BY <2>1, MovesExchange DEF LockingInv
    <2>2. CASE LockVersion
      <3>1. PICK x \in entries \cap Lessons(problem) :
                \/ locked' = locked \cup OccurrenceKeys(problem, entries, x[1], x[2], x[3])
                \/ locked' = locked \ OccurrenceKeys(problem, entries, x[1], x[2], x[3])
        BY <2>2 DEF LockVersion, LockOccurrence, UnlockOccurrence
      <3>2. x[1] \in problem.req
        BY DEF Lessons
      <3> DEFINE own == OccurrenceKeys(problem, entries, x[1], x[2], x[3])
      <3>3. Closed(problem, locked)
        BY DEF LockingInv
      <3>4. Closed(problem, locked \cup own) /\ Closed(problem, locked \ own)
        BY <3>2, <3>3, ClosedWith
      <3> QED BY <3>1, <3>4
    <2> QED BY <2>1, <2>2
  <1>4. problem \in Solved => SplitsSynchronized(problem, entries')
    <2>1. CASE Move /\ MoveVersion
      BY <2>1 DEF Move, Verified
    <2>2. CASE ApplyMove /\ MoveVersion
      BY <1>1, <2>2 DEF ApplyMove, EditingInv
    <2>3. CASE LockVersion
      BY <2>3 DEF LockVersion, LockOccurrence, UnlockOccurrence, LockingInv
    <2> QED BY <2>1, <2>2, <2>3 DEF MoveVersion
  <1>5. LocksAreFindable'
    <2> SUFFICES ASSUME NEW k \in locked' PROVE IsFindable(problem', entries', locked', k) \/ WholeDay(problem, k[1])
      BY <1>2 DEF LocksAreFindable
    <2>1. \/ IsFindable(problem', entries', locked', k)
          \/ k \in locked /\ ~IsFindable(problem, entries, locked, k)
          \/ PrefersDouble(problem, k[1])
      BY <1>1, EditsFind
    <2> QED BY <2>1 DEF LockingInv, LocksAreFindable, WholeDay
  <1> QED BY <1>1, <1>2, <1>3, <1>4, <1>5 DEF LockingInv

\* A reoptimization keeps the lessons of every lock where they are.
LEMMA ReoptimizeLocking == ASSUME LockingInv, Reoptimize PROVE LockingInv'
  <1>1. SolvingInv /\ EditingInv /\ EditingInv' /\ SolvingInv'
    BY EditingInvKept DEF LockingInv, EditingInv, SolvingNext
  <1>2. /\ problem \in Solved /\ problem \in SolverProblems /\ problem \in Problems
        /\ entries' \in Solutions[problem] /\ UNCHANGED <<problem, locked, earlier>>
    BY ReoptimizedKeepsLocks, SolvedAssumption DEF KeepingLocks
  <1>3. SplitsSynchronized(problem, entries')
    BY <1>2, SolutionIsAccepted DEF Accepted, Verified
  <1>4. ASSUME NEW k \in locked, ~WholeDay(problem, k[1]) PROVE IsFindable(problem, entries', locked, k)
    <2>1. IsFindable(problem, entries, locked, k)
      BY <1>4 DEF LockingInv, LocksAreFindable
    <2>2. ASSUME NEW s \in Branches(problem, k[1]) PROVE <<s, k[2], k[3]>> \in entries'
      <3>1. /\ <<s, k[2], k[3]>> \in locked /\ Names(entries, <<s, k[2], k[3]>>)
            /\ BlockPeriods(problem, entries, s, k[2], k[3]) = BlockPeriods(problem, entries, k[1], k[2], k[3])
        BY <1>1, <1>2, <2>1, FindableNames DEF LockingInv
      <3>2. k[3] \in BlockPeriods(problem, entries, s, k[2], k[3])
        BY <2>1, <3>1, BlockOnTheDay DEF IsFindable
      <3> DEFINE h == <<s, k[2], k[3]>>
      <3>3. h[1] = s /\ h[2] = k[2] /\ h[3] = k[3] /\ h \in locked /\ Names(entries, h)
        BY <3>1
      <3> HIDE DEF h
      <3> QED BY <1>1, <3>2, <3>3, ReoptimizedWithLocked
    <2>3. Triples(entries') /\ Storable(problem, entries') /\ Closed(problem, locked)
      BY <1>1, <1>2 DEF SolvingInv, LockingInv
    <2> QED BY <1>2, <1>4, <2>2, <2>3, FlexibleFindable
  <1>5. LocksAreFindable'
    BY <1>2, <1>4 DEF LocksAreFindable
  <1> QED BY <1>1, <1>2, <1>3, <1>5 DEF LockingInv

\* A regeneration keeps a lock for all branches of a split or for none.
LEMMA RegenerateLocking == ASSUME DraftsJoinNoSplits, BranchesAlike, LockingInv, Regenerate PROVE LockingInv'
  <1>1. SolvingInv /\ EditingInv /\ EditingInv' /\ SolvingInv'
    BY EditingInvKept DEF LockingInv, EditingInv, SolvingNext
  <1>2. /\ problem \in Solved /\ earlier' = problem /\ Triples(entries) /\ Storable(problem, entries)
        /\ SplitsSynchronized(problem, entries) /\ Closed(problem, locked) /\ IsFiniteSet(locked)
    BY <1>1 DEF Regenerate, LockingInv, SolvingInv
  <1>3. PICK pr \in Drafts[problem], order \in KeyOrders(locked), keys \in SUBSET locked :
            Classified(pr, entries, order, keys) /\ problem' = pr /\ locked' = keys
    BY DEF Regenerate
  <1>4. pr \in Solved /\ pr \in SolverProblems /\ pr \in Problems
    BY <1>2, SolvedAssumption
  <1>5. entries' \in Solutions[pr] /\ Pins(pr, keys) \subseteq entries'
    BY <1>1, <1>3, RegeneratedWithPins
  <1>6. SplitsSynchronized(pr, entries')
    BY <1>4, <1>5, SolutionIsAccepted DEF Accepted, Verified
  <1>7. \A k \in keys : IsOccurrence(pr, entries, k[1], k[2], k[3])
    <2> SUFFICES ASSUME NEW k \in keys PROVE IsOccurrence(pr, entries, k[1], k[2], k[3])
      OBVIOUS
    <2>1. PICK i \in DOMAIN order : order[i] = k
      BY <1>3 DEF Classified, Range
    <2> QED BY <1>3, <2>1 DEF Classified, StaysLocked
  <1>8. ASSUME NEW k \in keys, NEW s \in Branches(pr, k[1]) PROVE <<s, k[2], k[3]>> \in keys
    <2>1. IsOccurrence(pr, entries, k[1], k[2], k[3]) /\ k[1] \in problem.req /\ k \in locked
      BY <1>2, <1>7 DEF Closed
    <2>2. /\ s \in Branches(problem, k[1]) /\ IsOccurrence(pr, entries, s, k[2], k[3])
          /\ Occurrence(pr, entries, s, k[2], k[3]) = Occurrence(pr, entries, k[1], k[2], k[3])
      BY <1>2, <2>1, SameOccurrence
    <2> DEFINE h == <<s, k[2], k[3]>>
    <2>3. h \in locked
      BY <1>2, <2>1, <2>2 DEF Closed
    <2>4. h[1] = s /\ h[2] = k[2] /\ h[3] = k[3]
      OBVIOUS
    <2> HIDE DEF h
    <2>5. h \in keys
      BY <1>2, <1>3, <1>4, <2>2, <2>3, <2>4, ClassifiedAlike
    <2> QED BY <2>5 DEF h
  <1>9. Closed(pr, keys)
    <2>1. \A k \in keys : k = <<k[1], k[2], k[3]>>
      BY <1>2 DEF Closed
    <2> QED BY <1>7, <1>8, <2>1 DEF Closed, IsOccurrence
  <1>10. ASSUME NEW k \in keys, ~WholeDay(pr, k[1]) PROVE IsFindable(pr, entries', keys, k)
    <2>1. \A s \in Branches(pr, k[1]) : <<s, k[2], k[3]>> \in Occurrence(pr, entries, k[1], k[2], k[3])
      BY <1>2, <1>7, FindableEverywhere
    <2>2. Occurrence(pr, entries, k[1], k[2], k[3]) \subseteq entries'
      BY <1>5 DEF Pins, CompatibleMembers
    <2>3. Triples(entries') /\ Storable(pr, entries')
      BY <1>1, <1>3 DEF SolvingInv
    <2> QED BY <1>4, <1>9, <1>10, <2>1, <2>2, <2>3, FlexibleFindable
  <1>11. LocksAreFindable'
    BY <1>3, <1>10 DEF LocksAreFindable
  <1> QED BY <1>1, <1>2, <1>3, <1>4, <1>6, <1>9, <1>11 DEF LockingInv

\* A restored lock names an occurrence of the earlier problem, all of whose
\* branches the configuration of the version still has.
LEMMA RestoreLocking == ASSUME DraftsJoinNoSplits, LockingInv, Restore PROVE LockingInv'
  <1>1. SolvingInv /\ EditingInv /\ EditingInv' /\ SolvingInv'
    BY EditingInvKept DEF LockingInv, EditingInv, SolvingNext
  <1>2. /\ earlier \in Solved /\ earlier \in SolverProblems /\ earlier \in Problems /\ problem \in Problems
        /\ problem \in Drafts[earlier] /\ earlier.req = problem.req /\ UNCHANGED <<problem, earlier>>
    BY <1>1, SolvedAssumption DEF Restore, LockingInv, SolvingInv
  <1>3. PICK source \in VersionsOf(earlier) : entries' = source.entries /\ locked' = source.locked
    BY DEF Restore
  <1>4. PICK e \in Solutions[earlier] :
            /\ PreferredDoublesFormed(earlier, e) /\ source.entries = e
            /\ \/ source.locked = {}
               \/ \E x \in LessonsOf(earlier, e) : source.locked = OccurrenceKeys(earlier, e, x[1], x[2], x[3])
    BY DEF VersionsOf
  <1>5. /\ Triples(e) /\ Storable(problem, e) /\ SplitsSynchronized(earlier, e) /\ Verified(earlier, e)
        /\ e \subseteq Lessons(earlier) \cup ReservedEntries(earlier)
    BY <1>1, <1>2, <1>3, <1>4, SolutionIsAccepted DEF Accepted, Verified, SolvingInv
  <1>6. \A r \in problem.req : Branches(problem, r) \subseteq Branches(earlier, r)
    <2> SUFFICES ASSUME NEW r \in problem.req, NEW s \in Branches(problem, r) PROVE s \in Branches(earlier, r)
      OBVIOUS
    <2>1. r \in earlier.req /\ s \in earlier.req
      BY <1>2 DEF Branches
    <2> QED BY <1>2, <2>1 DEF DraftsJoinNoSplits
  <1>7. SplitsSynchronized(problem, e)
    BY <1>2, <1>5, <1>6 DEF SplitsSynchronized
  <1>8. CASE source.locked = {}
    BY <1>1, <1>2, <1>3, <1>4, <1>7, <1>8 DEF LockingInv, Closed, LocksAreFindable
  <1>9. CASE \E x \in LessonsOf(earlier, e) : source.locked = OccurrenceKeys(earlier, e, x[1], x[2], x[3])
    <2>1. PICK x \in LessonsOf(earlier, e) : source.locked = OccurrenceKeys(earlier, e, x[1], x[2], x[3])
      BY <1>9
    <2> DEFINE keys == OccurrenceKeys(earlier, e, x[1], x[2], x[3])
    <2>2. x \in e /\ x[1] \in earlier.req /\ x[2] \in earlier.day
      BY <1>5 DEF LessonsOf, Lessons
    <2>3. Closed(earlier, keys)
      BY <2>2, KeysClosed
    <2>4. keys \subseteq e
      <3>1. IsOccurrence(earlier, e, x[1], x[2], x[3])
        BY <1>2, <1>4, <1>5, <2>2, LessonsHaveOccurrences
      <3> QED BY <1>2, <1>5, <2>2, <3>1, KeysAreLessons, OccurrenceInEntries
    <2> HIDE DEF keys
    <2>5. Closed(problem, keys)
      BY <1>2, <1>6, <2>3 DEF Closed
    <2>6. ASSUME NEW k \in keys, ~WholeDay(problem, k[1]) PROVE IsFindable(problem, e, keys, k)
      <3>1. \A s \in Branches(problem, k[1]) : <<s, k[2], k[3]>> \in e
        BY <2>4, <2>5 DEF Closed
      <3> QED BY <1>2, <1>5, <2>5, <2>6, <3>1, FlexibleFindable
    <2>7. entries' = e /\ locked' = keys
      BY <1>3, <1>4, <2>1 DEF keys
    <2>8. LocksAreFindable'
      BY <1>2, <2>6, <2>7 DEF LocksAreFindable
    <2> QED BY <1>1, <1>2, <1>7, <2>5, <2>7, <2>8 DEF LockingInv
  <1> QED BY <1>4, <1>8, <1>9

(***************************************************************************)
(* LocksAreFindable: through edits, reoptimizations, regenerations with    *)
(* the locks classify_locks keeps and restores, a lesson that is no block  *)
(* is found again under its key, and all branches of its split with it, if *)
(* no draft joins what was apart to a split and the branches of a split    *)
(* are of one kind.                                                        *)
(***************************************************************************)
THEOREM LocksStayFindable ==
    ASSUME DraftsJoinNoSplits, BranchesAlike
    PROVE  SolvingSpec => []LocksAreFindable
  <1>1. ASSUME LockingInv, [SolvingNext]_allVars PROVE LockingInv'
    <2>1. CASE MoveVersion \/ LockVersion
      BY <1>1, <2>1, EditLocking
    <2>2. CASE Reoptimize
      BY <1>1, <2>2, ReoptimizeLocking
    <2>3. CASE Regenerate
      BY <1>1, <2>3, RegenerateLocking
    <2>4. CASE Restore
      BY <1>1, <2>4, RestoreLocking
    <2>5. CASE ReviewVersion \/ UNCHANGED allVars
      <3>1. EditingInv'
        BY <1>1, EditingInvKept DEF LockingInv
      <3>2. UNCHANGED <<problem, entries, locked, earlier>>
        BY <2>5 DEF ReviewVersion, ReviewMove, version, allVars, vars
      <3> QED BY <1>1, <3>1, <3>2 DEF LockingInv, LocksAreFindable
    <2> QED BY <1>1, <2>1, <2>2, <2>3, <2>4, <2>5 DEF SolvingNext
  <1>2. Generate => LockingInv
    BY GenerateLocking
  <1>3. LockingInv => LocksAreFindable
    BY DEF LockingInv
  <1> QED BY <1>1, <1>2, <1>3, PTL DEF SolvingSpec
================================================================================
