----------------------------- MODULE SolverModel -----------------------------
(***************************************************************************)
(* The CP-SAT model of scheduling/model_builder.py: its hard constraints,  *)
(* one operator per builder function, over the set e of lessons whose      *)
(* variables are true, and its objective beside the independent evaluator  *)
(* of scheduling/objective.py.  Auxiliary variables are projected out.     *)
(*                                                                         *)
(* Fields of a problem that only the objective reads:                      *)
(*   preferNot     <<teacher, day, period>> that are PREFER_NOT            *)
(*   preferences   of a requirement: <<weight, preferred periods>>         *)
(*   minDays       of a requirement; 0 where there is none                 *)
(***************************************************************************)
EXTENDS Occurrences, Functions

Weight == [LOW |-> 1, MEDIUM |-> 5, HIGH |-> 20]

\* The entries of requirements.
LessonsOf(pr, e) == e \ ReservedEntries(pr)

LessonsAt(e, d, p) == {x \in e : x[2] = d /\ x[3] = p}

ReservedAt(pr, d, p) == {b \in pr.reserved : <<d, p>> \in pr.slots[b]}

ReservedForClass(pr, c, d, p) == \E b \in ReservedAt(pr, d, p) : c \in pr.classes[b]

\* A lesson whose variable is not fixed to 0.
LessonPossible(pr, x) ==
    /\ <<pr.teacher[x[1]], x[2], x[3]>> \notin pr.unavailable
    /\ \A c \in pr.classes[x[1]] : ~ReservedForClass(pr, c, x[2], x[3])

TeacherNonOverlap(pr, e) ==
    \A d \in pr.day, p \in Periods(pr) : \A t \in {pr.teacher[r] : r \in pr.req} :
        LET reserved == IF \E b \in ReservedAt(pr, d, p) : pr.teacher[b] = t THEN 1 ELSE 0
        IN Cardinality({x \in LessonsAt(e, d, p) : pr.teacher[x[1]] = t}) + reserved <= 1

GroupNonOverlap(pr, e) ==
    \A d \in pr.day, p \in Periods(pr) : \A g \in {pr.group[r] : r \in pr.req} :
        Cardinality({x \in LessonsAt(e, d, p) : pr.group[x[1]] = g}) <= 1

\* The branch that stands for a split.
IsRepresentative(pr, r) == r = CHOOSE s \in Branches(pr, r) : TRUE

ClassOccupancy(pr, e) ==
    \A c \in pr.class, d \in pr.day, p \in Periods(pr) :
        ReservedForClass(pr, c, d, p)
            \/ Cardinality({x \in LessonsAt(e, d, p) :
                               c \in pr.classes[x[1]] /\ IsRepresentative(pr, x[1])}) = 1

WeeklyFulfillment(pr, e) ==
    \A r \in pr.req : Cardinality({x \in e : x[1] = r}) = pr.weekly[r]

\* Mutated: what reserved blocks use is not taken off the capacity.
ResourceCapacityOfLessons(pr, e) ==
    \A resource \in {pr.resource[r] : r \in pr.req} \ {None}, d \in pr.day, p \in Periods(pr) :
        ResourceUse(pr, e, resource, d, p) <= pr.capacity[resource]

ResourceCapacity(pr, e) ==
    \A resource \in {pr.resource[r] : r \in pr.req} \ {None}, d \in pr.day, p \in Periods(pr) :
        LET reserved == Cardinality({b \in ReservedAt(pr, d, p) : pr.resource[b] = resource})
        IN ResourceUse(pr, e, resource, d, p) <= Max({0, pr.capacity[resource] - reserved})

FixedPlacements(pr, e) == pr.fixed \subseteq e

MaxPeriodsPerDay(pr, e) == \A r \in pr.req : DailyCapKept(pr, e, r)

SplitSync(pr, e) ==
    \A r \in pr.req : \A s \in Branches(pr, r) :
        \A d \in pr.day : PeriodsOn(e, r, d) = PeriodsOn(e, s, d)

\* The windows of a length whose periods r fills on a day.
FullWindows(pr, e, r, d, length) ==
    {p \in Periods(pr) : IsRun(pr, p .. p + length - 1) /\ p .. p + length - 1 \subseteq PeriodsOn(e, r, d)}

(***************************************************************************)
(* day_has_length is determined by the number of lessons of the day, and   *)
(* window_used by the lessons.  A day of three also fills two windows of   *)
(* two, but a block of two is not active there: sizes 3 and 2 exclude each *)
(* other.                                                                  *)
(***************************************************************************)
RequiredBlocks(pr, e) ==
    \A r \in {s \in pr.req : pr.mode[s] = "REQUIRED"} :
        LET Count(length) == Cardinality({i \in DOMAIN pr.sizes[r] : pr.sizes[r][i] = length})
            DaysWith(length) == {d \in pr.day : Cardinality(PeriodsOn(e, r, d)) = length}
            Lengths == Range(pr.sizes[r])
        IN /\ \A d \in pr.day : Cardinality(PeriodsOn(e, r, d)) \in Lengths \cup {0}
           /\ \A length \in Lengths : Cardinality(DaysWith(length)) = Count(length)
           /\ \A length \in Lengths \ {1}, d \in pr.day :
                  Cardinality(FullWindows(pr, e, r, d, length)) = IF d \in DaysWith(length) THEN 1 ELSE 0

\* _build_hard_model, over a variable for every requirement and slot; build_model
\* adds the cap on PREFERRED doubles.
HardModel(pr, e) ==
    /\ e \subseteq Lessons(pr)
    /\ \A x \in e : LessonPossible(pr, x)
    /\ TeacherNonOverlap(pr, e)
    /\ GroupNonOverlap(pr, e)
    /\ ClassOccupancy(pr, e)
    /\ WeeklyFulfillment(pr, e)
    /\ ResourceCapacity(pr, e)
    /\ FixedPlacements(pr, e)
    /\ MaxPeriodsPerDay(pr, e)
    /\ SplitSync(pr, e)
    /\ RequiredBlocks(pr, e)

----------------------------------------------------------------------------
PairsUsed(pr, e, r) ==
    {x \in pr.day \X Periods(pr) :
        /\ {x[2], x[2] + 1} \subseteq PeriodsOn(e, r, x[1])
        /\ pr.block[x[2]] = pr.block[x[2] + 1]}

DaysUsed(pr, e, r) == {d \in pr.day : PeriodsOn(e, r, d) # {}}

\* The requirements whose missing double is penalized.
Doubled(pr) == {r \in pr.req : PrefersDouble(pr, r)}

\* How many days r lacks of those it is to be spread over.
MissingDays(pr, e, r) == Max({0, pr.minDays[r] - Cardinality(DaysUsed(pr, e, r))})

\* The terms of one lesson: PREFER_NOT and the preferred periods.
LessonTerms(pr, x) ==
    (IF <<pr.teacher[x[1]], x[2], x[3]>> \in pr.preferNot THEN Weight.MEDIUM ELSE 0)
        + SumFunction([w \in {v \in pr.preferences[x[1]] : x[3] \notin v[2]} |-> Weight[w[1]]])

(***************************************************************************)
(* The values the objective may have for the entries e.  missing_double is *)
(* tied to the pairs, but a deficiency of days is only bounded from below: *)
(* it is as small as it can be when the solution is proven optimal.        *)
(***************************************************************************)
ObjectiveValues(pr, e) ==
    LET doubles == SumFunction([r \in Doubled(pr) |-> Weight.HIGH * (1 - Cardinality(PairsUsed(pr, e, r)))])
        lessons == SumFunction([x \in LessonsOf(pr, e) |-> LessonTerms(pr, x)])
        least == SumFunction([r \in pr.req |-> MissingDays(pr, e, r)])
        most == SumFunction([r \in pr.req |-> pr.minDays[r]])
    IN {doubles + lessons + Weight.LOW * deficiency : deficiency \in least .. most}

\* The value of a solution that is proven optimal.
Optimum(pr, solutions) == Min(UNION {ObjectiveValues(pr, e) : e \in solutions})

\* Mutated: a double is counted as missing on every day without one.
EvaluatedPenaltyPerDay(pr, e) ==
    SumFunction([r \in Doubled(pr) |->
                    Weight.HIGH * (Cardinality(DaysUsed(pr, e, r)) - Cardinality(PairsUsed(pr, e, r)))])
        + SumFunction([x \in LessonsOf(pr, e) |-> LessonTerms(pr, x)])
        + SumFunction([r \in pr.req |-> Weight.LOW * MissingDays(pr, e, r)])

\* evaluate_total_soft_penalty
EvaluatedPenalty(pr, e) ==
    SumFunction([r \in Doubled(pr) |-> IF PairsUsed(pr, e, r) = {} THEN Weight.HIGH ELSE 0])
        + SumFunction([x \in LessonsOf(pr, e) |-> LessonTerms(pr, x)])
        + SumFunction([r \in pr.req |-> Weight.LOW * MissingDays(pr, e, r)])

----------------------------------------------------------------------------
(***************************************************************************)
(* CP-SAT's search space, cut down to lessons that share no class: every   *)
(* timetable either the model or the verifier may accept is among them.    *)
(* Split by split, the lessons are placed where the classes are free.      *)
(***************************************************************************)
Representatives(pr) == {r \in pr.req : IsRepresentative(pr, r)}

Busy(pr, e, r) == {<<x[2], x[3]>> : x \in {y \in e : pr.classes[y[1]] \cap pr.classes[r] # {}}}

Placed(pr, r, slots) == {<<s, slot[1], slot[2]>> : s \in Branches(pr, r), slot \in slots}

Placements(pr, r, partial) ==
    UNION {{e \cup Placed(pr, r, slots) : slots \in kSubset(pr.weekly[r], Slots(pr) \ Busy(pr, e, r))} :
              e \in partial}

Candidates(pr) ==
    FoldSet(LAMBDA r, partial : Placements(pr, r, partial), {ReservedEntries(pr)}, Representatives(pr))

\* The patterns with two sizes above 1, which RequiredBlocks cannot satisfy.
HasNestedBlocks(pr) ==
    \E r \in pr.req : /\ pr.mode[r] = "REQUIRED"
                      /\ Cardinality(Range(pr.sizes[r]) \ {1}) > 1
=============================================================================
