---------------------------- MODULE ScheduleEditing ----------------------------
(***************************************************************************)
(* Manual editing of one timetable, scheduling/editing.py: moves, which    *)
(* exchange two occurrences, and locks.  An occurrence is the lessons that *)
(* move together (module Occurrences).                                     *)
(*                                                                         *)
(* A reviewed move is validated against one timetable and applied later,   *)
(* perhaps to another one and perhaps twice.                               *)
(***************************************************************************)
EXTENDS Occurrences

CONSTANTS
    Problems,    \* the problems of the instance
    Timetables,  \* some timetables the solver may return for each of them
    NoMove,      \* nothing was reviewed
    MaxLocks     \* bound: locked keys

VARIABLES
    problem,   \* the SchedulingProblem; never changes
    entries,   \* the entries of the Schedule
    locked,    \* its locked_occurrences
    reviewed   \* a MoveValidationResult somebody holds, or NoMove

vars == <<problem, entries, locked, reviewed>>

(***************************************************************************)
(* The grid is finite, with numbered periods.  An activity is a requirement*)
(* or a reserved block, which is in no split and has classes               *)
(* (reserved_activity_rules.py:110); a resource has a capacity.  A         *)
(* requirement has a teacher, a group and classes, its group's, REQUIRED   *)
(* blocks that fit into a day (preflight.py:705), and the branches of a    *)
(* split have the same classes (preflight.py:284, 747).  They are all      *)
(* blocks of days or all single lessons: those the code writes are         *)
(* FLEXIBLE (synchronized_split_repository.py:87), preflight does not look.*)
(***************************************************************************)
ASSUME ProblemAssumption ==
    \A pr \in Problems :
        /\ IsFiniteSet(pr.day) /\ IsFiniteSet(Periods(pr)) /\ Periods(pr) \subseteq Nat
        /\ IsFiniteSet(pr.req) /\ IsFiniteSet(pr.reserved) /\ pr.req \cap pr.reserved = {}
        /\ \A b \in pr.reserved : pr.split[b] = None /\ pr.classes[b] \in (SUBSET pr.class) \ {{}}
        /\ \A x \in pr.fixed : x[1] \in pr.req
        /\ \A a \in pr.req \cup pr.reserved : pr.resource[a] # None => pr.capacity[pr.resource[a]] \in Nat
        /\ \A r \in pr.req :
               /\ pr.teacher[r] # None /\ pr.group[r] # None
               /\ pr.sizes[r] \in Seq(Nat)
               /\ pr.mode[r] = "REQUIRED" =>
                      \A i \in DOMAIN pr.sizes[r] : pr.sizes[r][i] \in 1 .. Cardinality(Periods(pr))
               /\ pr.classes[r] \in (SUBSET pr.class) \ {{}}
               /\ \A s \in Branches(pr, r) :
                      pr.classes[s] = pr.classes[r] /\ (WholeDay(pr, s) <=> WholeDay(pr, r))

(***************************************************************************)
(* The solver places every activity on the grid, and keeps the rules that  *)
(* the verifier checks and its own cap.                                    *)
(***************************************************************************)
ASSUME GeneratedAssumption ==
    \A pr \in Problems : \A e \in Timetables[pr] :
        /\ e \subseteq Lessons(pr) \cup ReservedEntries(pr)
        /\ Verified(pr, e) /\ PreferredDoublesFormed(pr, e)

----------------------------------------------------------------------------
WindowStartingAt(p, n) == p .. p + n - 1

\* What the classes of r do in a window.
Occupants(e, r, d, w) ==
    {x[1] : x \in {y \in e : y[2] = d /\ y[3] \in w /\ problem.classes[y[1]] \cap problem.classes[r] # {}}}

\* Neither fixed nor locked, in any branch.
Free(e, r, d, p) ==
    /\ Occurrence(problem, e, r, d, p) \cap problem.fixed = {}
    /\ OccurrenceKeys(problem, e, r, d, p) \cap locked = {}

Shifted(lessons, d, n) == {<<x[1], d, x[3] + n>> : x \in lessons}

\* Mutated: the displaced lessons are shifted the way of the moved ones.
SwapPlanOneWay(e, source, r2, d2, p2) ==
    LET from == Occurrence(problem, e, source[1], source[2], source[3])
        to == Occurrence(problem, e, r2, d2, p2)
        offset == p2 - Min(BlockPeriods(problem, e, source[1], source[2], source[3]))
    IN [removed |-> from \cup to,
        added |-> Shifted(from, d2, offset) \cup Shifted(to, source[2], offset)]

\* _build_swap_plan: the two occurrences exchange places.
SwapPlan(e, source, r2, d2, p2) ==
    LET from == Occurrence(problem, e, source[1], source[2], source[3])
        to == Occurrence(problem, e, r2, d2, p2)
        offset == p2 - Min(BlockPeriods(problem, e, source[1], source[2], source[3]))
    IN [removed |-> from \cup to,
        added |-> Shifted(from, d2, offset) \cup Shifted(to, source[2], -offset)]

NoChange == [removed |-> {}, added |-> {}]

Applied(e, plan) == (e \ plan.removed) \cup plan.added

\* The part of _check_swap_hard_rules about the slots the lessons move to.
SlotsAccept(rest, added) ==
    \A x \in added :
        LET teacher == problem.teacher[x[1]]
            group == problem.group[x[1]]
            resource == problem.resource[x[1]]
            there == {y \in rest : SameSlot(x, y)}
        IN /\ <<teacher, x[2], x[3]>> \notin problem.unavailable
           /\ \A y \in there : problem.teacher[y[1]] # teacher /\ problem.group[y[1]] # group
           /\ resource # None
                  => 1 + ResourceUse(problem, rest, resource, x[2], x[3]) <= problem.capacity[resource]

\* Mutated: no recheck of the blocks and the caps of the whole week.
SwapAcceptedBySlots(e, plan) == SlotsAccept(e \ plan.removed, plan.added)

\* _check_swap_hard_rules
SwapAccepted(e, plan) ==
    /\ SlotsAccept(e \ plan.removed, plan.added)
    /\ RequiredBlocksKept(problem, Applied(e, plan))
    /\ \A x \in plan.added : DailyCapKept(problem, Applied(e, plan), x[1])

\* A move request: the lesson <<requirement, day, period>>, the target day and
\* period.  Window and occupant are those validate_move looks at.
TargetWindow(e, m) ==
    WindowStartingAt(m.period, Cardinality(BlockPeriods(problem, e, m.lesson[1], m.lesson[2], m.lesson[3])))

StaysPut(e, m) ==
    m.day = m.lesson[2] /\ TargetWindow(e, m) = BlockPeriods(problem, e, m.lesson[1], m.lesson[2], m.lesson[3])

Occupant(e, m) == CHOOSE r \in Occupants(e, m.lesson[1], m.day, TargetWindow(e, m)) : TRUE

MovePlan(e, m) ==
    IF StaysPut(e, m) THEN NoChange ELSE SwapPlan(e, m.lesson, Occupant(e, m), m.day, m.period)

\* The window is exactly one occurrence, of the same classes, that may move.
CanExchange(e, m) ==
    /\ Occupants(e, m.lesson[1], m.day, TargetWindow(e, m)) \subseteq problem.req
    /\ Cardinality(Occupants(e, m.lesson[1], m.day, TargetWindow(e, m))) = 1
    /\ LET other == Occupant(e, m)
       IN /\ IsOccurrence(problem, e, other, m.day, m.period)
          /\ BlockPeriods(problem, e, other, m.day, m.period) = TargetWindow(e, m)
          /\ problem.classes[other] = problem.classes[m.lesson[1]]
          /\ Free(e, other, m.day, m.period)
          /\ SwapAccepted(e, MovePlan(e, m))

\* validate_move, after the verification of the timetable.
MoveAllowed(e, m) ==
    /\ IsOccurrence(problem, e, m.lesson[1], m.lesson[2], m.lesson[3])
    /\ Free(e, m.lesson[1], m.lesson[2], m.lesson[3])
    /\ IsRun(problem, TargetWindow(e, m))
    /\ ~StaysPut(e, m) => CanExchange(e, m)

----------------------------------------------------------------------------
Init ==
    /\ problem \in Problems
    /\ entries \in Timetables[problem]
    /\ locked = {}
    /\ reviewed = NoMove

\* Requests for lessons that are not there are rejected.
Moves == [lesson : entries \cap Lessons(problem), day : problem.day, period : Periods(problem)]

\* validate_move, whose result is kept (one at a time, the first one).
ReviewMove ==
    /\ reviewed = NoMove
    /\ Verified(problem, entries)
    /\ \E m \in Moves :
           /\ MoveAllowed(entries, m)
           /\ reviewed' = [move |-> m, plan |-> MovePlan(entries, m)]
    /\ UNCHANGED <<problem, entries, locked>>

\* Mutated: the fresh plan is not compared with the reviewed one.
ApplyMoveAfresh ==
    /\ reviewed # NoMove
    /\ Verified(problem, entries)
    /\ MoveAllowed(entries, reviewed.move)
    /\ entries' = Applied(entries, MovePlan(entries, reviewed.move))
    /\ UNCHANGED <<problem, locked, reviewed>>

\* apply_move: the kept result is validated afresh, and must mean the same.
ApplyMove ==
    /\ reviewed # NoMove
    /\ Verified(problem, entries)
    /\ MoveAllowed(entries, reviewed.move)
    /\ MovePlan(entries, reviewed.move) = reviewed.plan
    /\ entries' = Applied(entries, reviewed.plan)
    /\ UNCHANGED <<problem, locked, reviewed>>

\* ScheduleEditingService.move: validated, applied and verified at once.
Move ==
    /\ Verified(problem, entries)
    /\ \E m \in Moves :
           /\ MoveAllowed(entries, m)
           /\ entries' = Applied(entries, MovePlan(entries, m))
    /\ Verified(problem, entries')
    /\ UNCHANGED <<problem, locked, reviewed>>

\* Mutated: only the branch that was asked for is locked.
LockOneBranch ==
    \E x \in entries \cap Lessons(problem) :
        /\ IsOccurrence(problem, entries, x[1], x[2], x[3])
        /\ locked' = locked \cup {<<x[1], x[2], Min(BlockPeriods(problem, entries, x[1], x[2], x[3]))>>}
        /\ Cardinality(locked') <= MaxLocks
        /\ UNCHANGED <<problem, entries, reviewed>>

LockOccurrence ==
    \E x \in entries \cap Lessons(problem) :
        /\ IsOccurrence(problem, entries, x[1], x[2], x[3])
        /\ locked' = locked \cup OccurrenceKeys(problem, entries, x[1], x[2], x[3])
        /\ Cardinality(locked') <= MaxLocks
        /\ UNCHANGED <<problem, entries, reviewed>>

UnlockOccurrence ==
    \E x \in entries \cap Lessons(problem) :
        /\ IsOccurrence(problem, entries, x[1], x[2], x[3])
        /\ locked' = locked \ OccurrenceKeys(problem, entries, x[1], x[2], x[3])
        /\ UNCHANGED <<problem, entries, reviewed>>

Next == ReviewMove \/ ApplyMove \/ Move \/ LockOccurrence \/ UnlockOccurrence

Spec == Init /\ [][Next]_vars

----------------------------------------------------------------------------
(* Each variable holds values of its kind. *)
TypeOK ==
    /\ problem \in Problems
    /\ entries \subseteq Lessons(problem) \cup ReservedEntries(problem)
    /\ locked \subseteq Lessons(problem)
    /\ \/ reviewed = NoMove
       \/ /\ reviewed.move.lesson \in Lessons(problem)
          /\ <<reviewed.move.day, reviewed.move.period>> \in Slots(problem)
          /\ reviewed.plan.removed \cup reviewed.plan.added \subseteq Lessons(problem)

(***************************************************************************)
(* A move that validate_move allows leaves a timetable that the verifier   *)
(* accepts: the rules it checks around the two occurrences, with the       *)
(* conditions on what may be exchanged, amount to all rules of verify.     *)
(***************************************************************************)
MovesKeepTimetableValid == Verified(problem, entries)

(***************************************************************************)
(* While an occurrence is locked, none of its lessons is moved or          *)
(* displaced by any move (LOCKED_OCCURRENCE in validate_move).             *)
(***************************************************************************)
LockedLessonsStay ==
    [][\A k \in locked \cap locked' :
           \A p \in BlockPeriods(problem, entries, k[1], k[2], k[3]) :
               <<k[1], k[2], p>> \in entries => <<k[1], k[2], p>> \in entries']_vars

(***************************************************************************)
(* A reviewed move that is applied, however late, can be taken back: moving*)
(* the lesson from where it was reviewed to go to where it came from is    *)
(* allowed and puts back exactly what the reviewed plan removed.  (Not so  *)
(* for PREFERRED doubles, whose lessons can come to be no occurrence on the*)
(* new day.)                                                               *)
(***************************************************************************)
MovesCanBeUndone ==
    [][(/\ ApplyMove /\ reviewed.plan # NoChange
        /\ \A x \in reviewed.plan.removed : ~PrefersDouble(problem, x[1])) =>
           LET m == reviewed.move
               back == [lesson |-> <<m.lesson[1], m.day, m.period>>,
                        day |-> m.lesson[2],
                        period |-> Min(BlockPeriods(problem, entries, m.lesson[1], m.lesson[2], m.lesson[3]))]
           IN /\ MoveAllowed(entries', back)
              /\ Applied(entries', MovePlan(entries', back)) = entries
              /\ MovePlan(entries', back).added = reviewed.plan.removed]_vars
=============================================================================
