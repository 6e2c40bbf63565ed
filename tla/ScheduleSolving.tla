--------------------------- MODULE ScheduleSolving ---------------------------
(***************************************************************************)
(* The life of one active timetable: generated, edited by hand (module     *)
(* ScheduleEditing), solved again around itself (scheduling/reoptimize.py),*)
(* regenerated for a changed configuration with the locks that still fit   *)
(* it, and restored to what it was before.                                 *)
(*                                                                         *)
(* The solver may stop at any solution when its time is up (FEASIBLE), or  *)
(* prove one of the best (OPTIMAL).                                        *)
(***************************************************************************)
EXTENDS ScheduleEditing, SolverModel, LockCompatibility, TimetableViews

CONSTANTS
    Solved,       \* bound: the problems that are solved; the others are reviewed
    SolverProblems, \* problems of which every candidate timetable is looked at
    Drafts,       \* the problems a solved one may be changed into
    NoProblem     \* there is no version of another configuration to restore

ASSUME SolvedAssumption ==
    /\ Solved \subseteq SolverProblems /\ SolverProblems \subseteq Problems
    /\ Drafts \in [Solved -> SUBSET Solved]

(***************************************************************************)
(* What preflight checks of reserved blocks (preflight.py:478-633) before  *)
(* anything is solved: their teachers are there, no two of them claim a    *)
(* class or a teacher at one time, nor more of a resource than there is.   *)
(* The entry of a reserved block names no group (result_builder.py:48).    *)
(***************************************************************************)
ASSUME ReservedAssumption ==
    \A pr \in Problems :
        /\ \A x \in ReservedEntries(pr) : <<pr.teacher[x[1]], x[2], x[3]>> \notin pr.unavailable
        /\ \A b \in pr.reserved : pr.group[b] = None
        /\ \A d \in pr.day, p \in Periods(pr) : \A a, b \in ReservedAt(pr, d, p) :
               a # b => /\ pr.classes[a] \cap pr.classes[b] = {}
                        /\ pr.teacher[a] # None => pr.teacher[a] # pr.teacher[b]
        /\ \A d \in pr.day, p \in Periods(pr) : \A b \in ReservedAt(pr, d, p) :
               pr.resource[b] # None =>
                   Cardinality({a \in ReservedAt(pr, d, p) : pr.resource[a] = pr.resource[b]})
                       <= pr.capacity[pr.resource[b]]

\* What the objective weighs: days to be spread over, preferred periods of a weight.
ASSUME ObjectiveAssumption ==
    \A pr \in Problems : \A r \in pr.req :
        /\ pr.minDays[r] \in Nat
        /\ IsFiniteSet(pr.preferences[r]) /\ \A w \in pr.preferences[r] : w[1] \in DOMAIN Weight

VARIABLES
    status,    \* solver_status of the active version
    penalty,   \* its total_soft_penalty
    earlier    \* the problem that the last regeneration replaced

version == <<status, penalty, earlier>>
allVars == <<vars, version>>

\* build_schedule_entries: the lessons whose variables are true, and the reserved blocks.
BuiltEntries(pr, e) == LessonsOf(pr, e) \cup ReservedEntries(pr)

Solutions ==
    [pr \in SolverProblems |->
        {BuiltEntries(pr, e) : e \in {f \in Candidates(pr) : HardModel(pr, LessonsOf(pr, f))}}]

----------------------------------------------------------------------------
\* solve, with some lesson variables pinned.
SolveResults(pr, pins) ==
    LET found == {e \in Solutions[pr] : PreferredDoublesFormed(pr, e) /\ pins \subseteq e}
    IN (UNION {{[entries |-> e, status |-> "FEASIBLE", penalty |-> value] : value \in ObjectiveValues(pr, e)}
                   : e \in found})
       \cup {[entries |-> e, status |-> "OPTIMAL", penalty |-> Optimum(pr, found)]
                  : e \in {f \in found : Optimum(pr, found) \in ObjectiveValues(pr, f)}}

\* The timetables to review are generated under a time limit.
GivenResults(pr) ==
    {[entries |-> e, status |-> "FEASIBLE", penalty |-> EvaluatedPenalty(pr, e)]
        : e \in Timetables[pr]}

Generate ==
    /\ problem \in Problems
    /\ \E result \in IF problem \in Solved THEN SolveResults(problem, {}) ELSE GivenResults(problem) :
           /\ entries = result.entries
           /\ status = result.status
           /\ penalty = result.penalty
    /\ locked = {}
    /\ reviewed = NoMove
    /\ earlier = NoProblem

----------------------------------------------------------------------------
\* move: the status says that nothing is proven of the new timetable.
MoveVersion ==
    /\ Move \/ ApplyMove
    /\ status' = "FEASIBLE"
    /\ penalty' = EvaluatedPenalty(problem, entries')
    /\ UNCHANGED earlier

\* lock and unlock verify, and keep status and penalty.
LockVersion ==
    /\ Verified(problem, entries)
    /\ LockOccurrence \/ UnlockOccurrence
    /\ UNCHANGED version

ReviewVersion ==
    /\ problem \notin Solved
    /\ ReviewMove
    /\ UNCHANGED version

----------------------------------------------------------------------------
\* What reoptimize asks of its reference: structure, not placement.
StructurallyValid(pr, e) ==
    /\ TeachersNotDoubleBooked(pr, e)
    /\ GroupsNotDoubleBooked(pr, e)
    /\ WeeklyLessonsPlaced(pr, e)
    /\ RequiredBlocksKept(pr, e)
    /\ SplitsSynchronized(pr, e)
    /\ ClassesFullyOccupied(pr, e)

Resolvable(pr, e) == \A x \in LessonsOf(pr, e) : IsOccurrence(pr, e, x[1], x[2], x[3])

\* _reference_occurrence_groups
Groups(pr, e) == {Occurrence(pr, e, x[1], x[2], x[3]) : x \in LessonsOf(pr, e)}

Anchor(group) == {x \in group : \A y \in group : x[3] <= y[3]}

LockedGroups(pr, e, keys) == {group \in Groups(pr, e) : Anchor(group) \cap keys # {}}

\* Mutated: a locked occurrence keeps its first lesson.
KeepingAnchors(pr, e, keys) ==
    {f \in Solutions[pr] : \A group \in LockedGroups(pr, e, keys) : Anchor(group) \subseteq f}

\* Phase 1: the hard constraints with every locked occurrence in its place.
KeepingLocks(pr, e, keys) ==
    {f \in Solutions[pr] : \A group \in LockedGroups(pr, e, keys) : group \subseteq f}

Disruption(pr, e, f) == Cardinality({group \in Groups(pr, e) : ~(group \subseteq f)})

\* Mutated: phase 2 is not held to the disruption that phase 1 found.
LeastPenalized(pr, e, found) == {f \in found : PreferredDoublesFormed(pr, f)}

\* Phase 2: the disruption is the least possible, and the cap on PREFERRED
\* doubles that phase 1 did not have holds too.
LeastDisruptive(pr, e, found) ==
    LET least == Min({Disruption(pr, e, f) : f \in found})
    IN {f \in found : Disruption(pr, e, f) = least /\ PreferredDoublesFormed(pr, f)}

\* A version is replaced by the solver; nothing is persisted when it finds none.
Replace(f, newStatus, newPenalty) ==
    /\ entries' = f
    /\ status' = newStatus
    /\ penalty' = newPenalty
    /\ UNCHANGED <<problem, locked, reviewed, earlier>>

\* Phase 1 ran out of time: its timetable is returned with a penalty of 0.
ReoptimizeInTime(found) == \E f \in found : Replace(f, "FEASIBLE", 0)

\* Phase 2 ran to its end or not.
ReoptimizeFully(found) ==
    LET best == LeastDisruptive(problem, entries, found)
    IN \E f \in best :
           \/ \E value \in ObjectiveValues(problem, f) : Replace(f, "FEASIBLE", value)
           \/ /\ Optimum(problem, best) \in ObjectiveValues(problem, f)
              /\ Replace(f, "OPTIMAL", Optimum(problem, best))

Reoptimize ==
    LET found == KeepingLocks(problem, entries, locked)
    IN /\ problem \in Solved
       /\ StructurallyValid(problem, entries)
       /\ Resolvable(problem, entries)
       /\ found # {}
       /\ ReoptimizeInTime(found) \/ ReoptimizeFully(found)

----------------------------------------------------------------------------
\* The lesson variables regenerate pins for the locks it keeps.
Pins(pr, keys) == CompatibleMembers(pr, entries, keys)

\* regenerate: the draft is published with a fresh solve.  A pin that is no
\* lesson variable is a KeyError, caught and reported as ERROR.
Regenerate ==
    /\ problem \in Solved
    /\ \E pr \in Drafts[problem], order \in KeyOrders(locked), keys \in SUBSET locked :
           /\ Classified(pr, entries, order, keys)
           /\ Pins(pr, keys) \subseteq Lessons(pr)
           /\ \E result \in SolveResults(pr, Pins(pr, keys)) :
                  /\ entries' = result.entries
                  /\ status' = result.status
                  /\ penalty' = result.penalty
           /\ problem' = pr
           /\ locked' = keys
    /\ earlier' = problem
    /\ UNCHANGED reviewed

\* The entries of a version carry the teachers, groups, resources and classes
\* that its own configuration gave them.
ReadWith(pr, old) ==
    [pr EXCEPT !.teacher = old.teacher, !.group = old.group, !.resource = old.resource, !.classes = old.classes]

\* The versions of a problem: whatever a solve returned, with a lock or none.
VersionsOf(pr) ==
    UNION {{[entries |-> e, locked |-> keys] :
               keys \in {{}} \cup {OccurrenceKeys(pr, e, x[1], x[2], x[3]) : x \in LessonsOf(pr, e)}} :
           e \in {f \in Solutions[pr] : PreferredDoublesFormed(pr, f)}}

\* persist_edited_version looks up what an entry names in the present
\* configuration; a KeyError undoes the version.
Storable(pr, e) == \A x \in e : x[1] \in pr.req \cup pr.reserved /\ <<x[2], x[3]>> \in Slots(pr)

\* restore verifies that reading, and stores the places under the present one.
Restore ==
    /\ earlier # NoProblem
    /\ earlier.req = problem.req
    /\ \E source \in VersionsOf(earlier) :
           /\ Verified(ReadWith(problem, earlier), source.entries)
           /\ Storable(problem, source.entries)
           /\ entries' = source.entries
           /\ locked' = source.locked
           /\ status' = "FEASIBLE"
           /\ penalty' = EvaluatedPenalty(earlier, source.entries)
    /\ UNCHANGED <<problem, reviewed, earlier>>

SolvingNext ==
    MoveVersion \/ LockVersion \/ ReviewVersion \/ Reoptimize \/ Regenerate \/ Restore

SolvingSpec == Generate /\ [][SolvingNext]_allVars

----------------------------------------------------------------------------
(* Each variable holds values of its kind. *)
SolvingTypeOK ==
    /\ TypeOK
    /\ status \in {"OPTIMAL", "FEASIBLE"}
    /\ penalty \in Nat
    /\ earlier \in Solved \cup {NoProblem}

Disagreements ==
    [pr \in SolverProblems |-> {e \in Candidates(pr) : Verified(pr, e) # (e \in Solutions[pr])}]

(***************************************************************************)
(* The solver's constraints and the verifier's checks, written twice and   *)
(* independently, accept the same timetables: no solution is rejected by   *)
(* the verifier (an internal error), none is missed.  Except that REQUIRED *)
(* blocks of two sizes above one, as in (3, 2), have no solution at all.   *)
(***************************************************************************)
SolverAgreesWithVerifier ==
    /\ problem \in Solved => (Verified(problem, entries) <=> entries \in Solutions[problem])
    /\ \A pr \in SolverProblems :
           IF HasNestedBlocks(pr) THEN Solutions[pr] = {} ELSE Disagreements[pr] = {}

(***************************************************************************)
(* Nothing but a restore leaves a timetable that the verifier rejects for  *)
(* the configuration it is filed under: the rules a move checks around the *)
(* two occurrences amount to all rules of verify, and a reoptimized        *)
(* timetable is repaired, whatever was restored.                           *)
(***************************************************************************)
StepsKeepTimetableValid == [][Verified(problem', entries') \/ Restore]_allVars

(***************************************************************************)
(* Around a timetable that fits its configuration, which is the only kind  *)
(* the service ever hands to reoptimize but for a restored one, both       *)
(* phases succeed and return the very timetable: the disruption is what    *)
(* comes first.                                                            *)
(***************************************************************************)
ReoptimizeKeepsValidTimetable ==
    (problem \in Solved /\ Verified(problem, entries) /\ PreferredDoublesFormed(problem, entries))
        => /\ Resolvable(problem, entries)
           /\ LeastDisruptive(problem, entries, KeepingLocks(problem, entries, locked)) = {entries}

\* The lock can be found again and taken away, under all its keys.
IsFindable(pr, e, keys, k) ==
    /\ IsOccurrence(pr, e, k[1], k[2], k[3])
    /\ k \in OccurrenceKeys(pr, e, k[1], k[2], k[3])
    /\ OccurrenceKeys(pr, e, k[1], k[2], k[3]) \subseteq keys

(***************************************************************************)
(* A lock can be found again and taken away.  Only where the lessons of a  *)
(* day are one block can a solve have put a bigger block around a locked   *)
(* lesson, which is then no longer found under its key, nor held in place. *)
(***************************************************************************)
LocksAreFindable ==
    \A k \in locked : IsFindable(problem, entries, locked, k) \/ WholeDay(problem, k[1])

(***************************************************************************)
(* No edit by hand puts a lock out of reach: what is locked can be         *)
(* unlocked, whatever is moved around it.  (Lessons of a PREFERRED double  *)
(* can join or leave their double.)                                        *)
(***************************************************************************)
EditsKeepLocksFindable ==
    [][\/ \A k \in locked' :
              \/ IsFindable(problem', entries', locked', k)
              \/ k \in locked /\ ~IsFindable(problem, entries, locked, k)
              \/ PrefersDouble(problem, k[1])
       \/ ~(MoveVersion \/ LockVersion)]_allVars

(***************************************************************************)
(* The lessons of a locked occurrence are where they were after every move,*)
(* every reoptimization and every regeneration that keeps the lock.        *)
(***************************************************************************)
KeptLocksStay ==
    [][\/ \A k \in locked \cap locked' :
              (k \in entries /\ k \in OccurrenceKeys(problem', entries, k[1], k[2], k[3]))
                  => \A p \in BlockPeriods(problem', entries, k[1], k[2], k[3]) :
                         <<k[1], k[2], p>> \in entries'
       \/ Restore]_allVars

(***************************************************************************)
(* The locks that are classified compatible with a draft can be pinned: as *)
(* blocks they are part of its REQUIRED patterns, and their lessons are    *)
(* variables of its model, but for those of a day that the draft no longer *)
(* has.                                                                    *)
(***************************************************************************)
CompatibleLocksCanBePinned ==
    problem \in Solved =>
        \A pr \in Drafts[problem], order \in KeyOrders(locked), keys \in SUBSET locked :
            Classified(pr, entries, order, keys) =>
                /\ \A x \in Pins(pr, keys) : x \in Lessons(pr) \/ x[2] \notin pr.day
                /\ \A r \in pr.req : pr.mode[r] = "REQUIRED" =>
                       \A n \in 1 .. Cardinality(Periods(pr)) :
                           Cardinality({d \in problem.day : Cardinality(PeriodsOn(Pins(pr, keys), r, d)) = n})
                               <= Cardinality({i \in DOMAIN pr.sizes[r] : pr.sizes[r][i] = n})

(***************************************************************************)
(* The penalty stored with a timetable that is proven optimal, the value   *)
(* of the solver's objective, is what the independent evaluator says of    *)
(* it.  (One the solver could not finish may be rated worse than it is, or *)
(* as 0.)                                                                  *)
(***************************************************************************)
ProvenPenaltiesAreTrue ==
    status = "OPTIMAL" => penalty = EvaluatedPenalty(problem, entries)

(***************************************************************************)
(* No view of the version drops a lesson, though each passes over what is  *)
(* not on its own grid: every entry is in a cell of all its classes and of *)
(* its teacher, whatever was moved, regenerated for fewer days or          *)
(* restored.  Of a verified timetable a class sees one lesson, or the      *)
(* branches of one split, in every cell, and a teacher one at most.        *)
(***************************************************************************)
ViewsShowTheTimetable ==
    LET matrix == TeacherMatrix(problem, entries)
        cell(t, slot) == IF slot \in DOMAIN matrix[t] THEN matrix[t][slot] ELSE {}
    IN  /\ \A x \in entries :
              /\ \A c \in problem.classes[x[1]] : x \in ClassView(problem, entries, c)[Slot(x)]
              /\ problem.teacher[x[1]] # None => x \in cell(problem.teacher[x[1]], Slot(x))
        /\ \A t \in Teachers(problem), slot \in Slots(problem) :
              cell(t, slot) = TeacherView(problem, entries, t)[slot]
        /\ Verified(problem, entries) => \A slot \in Slots(problem) :
              /\ \A c \in problem.class :
                    Cardinality({OccupancyUnit(problem, x[1]) : x \in ClassView(problem, entries, c)[slot]}) = 1
              /\ \A t \in Teachers(problem) : Cardinality(cell(t, slot)) <= 1
=============================================================================
