--------------------------- MODULE MCTimetableRequests ---------------------------
(* Small instances of TimetableRequests; each cfg picks its configuration tables. *)
EXTENDS TimetableRequests, TLC

\* Two tables, so that a read can be torn between them, or one alone.
TwoParts == {"calendar", "teaching"}
CalendarPart == {"calendar"}
TeachingPart == {"teaching"}
MCValue == {"a", "b"}
MCProvisioned == [p \in Part |-> "a"]
MCTimetable == {"t1", "t2"}
MCPlacement == {"k"}
MCPlaced == [t \in MCTimetable |-> MCPlacement]
\* t1 needs the calendar the year started with; t2 would book a teacher twice
\* with any teaching assignments but those.
MCFits == {<<p, q, t>> \in [Part -> MCValue] \X [Part -> MCValue] \X MCTimetable :
              IF t = "t1" THEN "calendar" \in Part => p["calendar"] = "a"
                          ELSE "teaching" \in Part => q["teaching"] = "a"}
MCLockFits == {x \in [Part -> MCValue] \X MCTimetable \X MCPlacement : x[1] = MCProvisioned}
\* t1 can be moved into t2 and no other way.
MCMoves == {<<"t1", "t2">>}

RequestSymmetry == Permutations(Request)
=============================================================================
