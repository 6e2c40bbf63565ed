-------------------------- MODULE MCCalendarRevisions --------------------------
(* Small instances of CalendarRevisions. *)
EXTENDS CalendarRevisions, TLC

\* Two hours, one after the other.
MCBell == {<<8, 9>>, <<9, 10>>}

\* Natural ids carry no order.
IdSymmetry == Permutations(DayId) \union Permutations(PeriodId)
=============================================================================
