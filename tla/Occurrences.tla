------------------------------ MODULE Occurrences ------------------------------
(***************************************************************************)
(* The logical occurrences of a timetable, find_logical_occurrence: the    *)
(* lessons that are moved, locked, kept and counted together.  One is      *)
(* known by any of its lessons and locked under its first.                 *)
(*                                                                         *)
(* The problem pr need not be the one the timetable e was made for: locks  *)
(* are looked up under a changed configuration before it is published.     *)
(***************************************************************************)
EXTENDS TimetableRules, FiniteSetsExt

\* All lessons of a day are one block, by the policy of the requirement.
WholeDay(pr, r) == pr.mode[r] = "REQUIRED" \/ PrefersDouble(pr, r)

BlockPeriods(pr, e, r, d, p) == IF WholeDay(pr, r) THEN PeriodsOn(e, r, d) ELSE {p}

\* find_logical_occurrence raises neither an EditingError nor a KeyError.
IsOccurrence(pr, e, r, d, p) ==
    /\ r \in pr.req
    /\ p \in PeriodsOn(e, r, d)
    /\ PeriodsOn(e, r, d) \subseteq Periods(pr)
    /\ PrefersDouble(pr, r) => Cardinality(PeriodsOn(e, r, d)) <= 2
    /\ WholeDay(pr, r) => IsRun(pr, PeriodsOn(e, r, d))
    /\ \A s \in Branches(pr, r) : BlockPeriods(pr, e, r, d, p) \subseteq PeriodsOn(e, s, d)

\* The lessons of the occurrence, of all branches.
Occurrence(pr, e, r, d, p) == Branches(pr, r) \X {d} \X BlockPeriods(pr, e, r, d, p)

\* The keys it is locked under.
OccurrenceKeys(pr, e, r, d, p) == Branches(pr, r) \X {d} \X {Min(BlockPeriods(pr, e, r, d, p))}
=============================================================================
