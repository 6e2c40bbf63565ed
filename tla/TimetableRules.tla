---------------------------- MODULE TimetableRules ----------------------------
(***************************************************************************)
(* The rules of verification/verifier.py, over a SchedulingProblem and the *)
(* entries of a timetable.                                                 *)
(*                                                                         *)
(* An entry is <<activity, day, period>>: the activity is a teaching       *)
(* requirement or a reserved block, and what else a ScheduleEntry carries  *)
(* (teacher, group, resource, classes) is what the problem says of it.     *)
(* Periods are known by their index.  A problem pr is a record:            *)
(*   day, class          the days and the class sections                   *)
(*   block               instructional period -> its block                 *)
(*   req, reserved       the requirements and the reserved blocks          *)
(*   teacher, group, resource, classes, split                              *)
(*                       of every activity; None where there is none       *)
(*   weekly, mode, sizes, perDay                                           *)
(*                       lessons per week, block policy and cap per day of *)
(*                       a requirement; no cap is one of all periods       *)
(*   slots               the slots of a reserved block                     *)
(*   unavailable         <<teacher, day, period>> that are UNAVAILABLE     *)
(*   fixed               the fixed placements, as entries                  *)
(*   capacity            of each resource                                  *)
(***************************************************************************)
EXTENDS Integers, FiniteSets, Sequences

CONSTANT None

Periods(pr) == DOMAIN pr.block

Slots(pr) == pr.day \X Periods(pr)

Lessons(pr) == pr.req \X pr.day \X Periods(pr)

ReservedEntries(pr) == {x \in pr.reserved \X pr.day \X Periods(pr) : <<x[2], x[3]>> \in pr.slots[x[1]]}

SameSlot(x, y) == x[2] = y[2] /\ x[3] = y[3]

PeriodsOn(e, r, d) == {x[3] : x \in {y \in e : y[1] = r /\ y[2] = d}}

\* The branches of the split a requirement belongs to, or the requirement alone.
Branches(pr, r) == {s \in pr.req : s = r \/ (pr.split[r] # None /\ pr.split[s] = pr.split[r])}

\* Consecutive periods of one block: no break inside.
IsRun(pr, ps) ==
    /\ ps \subseteq Periods(pr)
    /\ \A p, q \in ps : p .. q \subseteq ps /\ pr.block[p] = pr.block[q]

TeachersNotDoubleBooked(pr, e) ==
    \A x, y \in e : x # y /\ SameSlot(x, y) /\ pr.teacher[x[1]] # None
                        => pr.teacher[x[1]] # pr.teacher[y[1]]

GroupsNotDoubleBooked(pr, e) ==
    \A x, y \in e : x # y /\ SameSlot(x, y) /\ pr.group[x[1]] # None
                        => pr.group[x[1]] # pr.group[y[1]]

WeeklyLessonsPlaced(pr, e) ==
    \A r \in pr.req : Cardinality({x \in e : x[1] = r}) = pr.weekly[r]

TeachersAvailable(pr, e) ==
    \A x \in e : <<pr.teacher[x[1]], x[2], x[3]>> \notin pr.unavailable

FixedPlacementsRespected(pr, e) == pr.fixed \subseteq e

\* The numbers of lessons per day are the block sizes, and each is one run.
RequiredBlocksKept(pr, e) ==
    \A r \in {s \in pr.req : pr.mode[s] = "REQUIRED"} :
        /\ \A n \in 1 .. Cardinality(Periods(pr)) :
               Cardinality({d \in pr.day : Cardinality(PeriodsOn(e, r, d)) = n})
                   = Cardinality({i \in DOMAIN pr.sizes[r] : pr.sizes[r][i] = n})
        /\ \A d \in pr.day : IsRun(pr, PeriodsOn(e, r, d))

ReservedBlocksRespected(pr, e) ==
    \A b \in ReservedEntries(pr) :
        /\ b \in e
        /\ \A x \in e : x[1] \in pr.req /\ SameSlot(x, b)
                            => pr.classes[x[1]] \cap pr.classes[b[1]] = {}

SplitsSynchronized(pr, e) ==
    \A r \in pr.req : \A s \in Branches(pr, r) :
        {<<x[2], x[3]>> : x \in {y \in e : y[1] = r}} = {<<x[2], x[3]>> : x \in {y \in e : y[1] = s}}

ResourceUse(pr, e, resource, d, p) ==
    Cardinality({x \in e : pr.resource[x[1]] = resource /\ x[2] = d /\ x[3] = p})

ResourceCapacityKept(pr, e) ==
    \A x \in e : pr.resource[x[1]] # None
        => ResourceUse(pr, e, pr.resource[x[1]], x[2], x[3]) <= pr.capacity[pr.resource[x[1]]]

\* The branches of a split occupy their classes as one unit.
OccupancyUnit(pr, a) == IF pr.split[a] = None THEN <<"activity", a>> ELSE <<"split", pr.split[a]>>

ClassesFullyOccupied(pr, e) ==
    \A c \in pr.class, slot \in Slots(pr) :
        Cardinality({OccupancyUnit(pr, x[1]) :
            x \in {y \in e : <<y[2], y[3]>> = slot /\ c \in pr.classes[y[1]]}}) = 1

DailyCapKept(pr, e, r) ==
    \A d \in pr.day : Cardinality(PeriodsOn(e, r, d)) <= pr.perDay[r]

\* verify: the conjunction of the checks.
Verified(pr, e) ==
    /\ TeachersNotDoubleBooked(pr, e)
    /\ GroupsNotDoubleBooked(pr, e)
    /\ WeeklyLessonsPlaced(pr, e)
    /\ TeachersAvailable(pr, e)
    /\ FixedPlacementsRespected(pr, e)
    /\ RequiredBlocksKept(pr, e)
    /\ ReservedBlocksRespected(pr, e)
    /\ SplitsSynchronized(pr, e)
    /\ ResourceCapacityKept(pr, e)
    /\ ClassesFullyOccupied(pr, e)
    /\ \A r \in pr.req : DailyCapKept(pr, e, r)

\* PREFERRED with a double: known by days, like REQUIRED, when it is edited.
PrefersDouble(pr, r) ==
    pr.mode[r] = "PREFERRED" /\ \E i \in DOMAIN pr.sizes[r] : pr.sizes[r][i] = 2

\* The solver's own cap on such a requirement, which verify does not check:
\* one double a week at most, and a day holds a single lesson or the double.
PreferredDoublesFormed(pr, e) ==
    LET Pairs(r, d) == {p \in PeriodsOn(e, r, d) : p + 1 \in PeriodsOn(e, r, d)
                                                       /\ pr.block[p] = pr.block[p + 1]}
    IN \A r \in {s \in pr.req : PrefersDouble(pr, s)} :
        /\ \A d \in pr.day : Cardinality(PeriodsOn(e, r, d)) <= 1 + Cardinality(Pairs(r, d))
        /\ \A d1, d2 \in pr.day : \A p \in Pairs(r, d1), q \in Pairs(r, d2) : d1 = d2 /\ p = q
=============================================================================
