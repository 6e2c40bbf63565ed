---------------------------- MODULE TimetableViews ----------------------------
(***************************************************************************)
(* What the timetable of a class, of a teacher and of all teachers show of *)
(* a version, application/class_timetable_service.py and                   *)
(* teacher_timetable_*_service.py: grids of cells over the days and the    *)
(* instructional periods of the version's configuration.  A cell holds     *)
(* entries; their names, looked up strictly, are left out.                 *)
(***************************************************************************)
EXTENDS TimetableRules

Slot(x) == <<x[2], x[3]>>

Teachers(pr) == {pr.teacher[a] : a \in pr.req \cup pr.reserved} \ {None}

\* Mutated: a merged lesson is shown to one of its classes.
ClassViewOfFirst(pr, e, class) ==
    [slot \in Slots(pr) |->
        {x \in e : Slot(x) = slot /\ class = CHOOSE first \in pr.classes[x[1]] : TRUE}]

\* An entry belongs to every class section it lists.
ClassView(pr, e, class) ==
    [slot \in Slots(pr) |-> {x \in e : Slot(x) = slot /\ class \in pr.classes[x[1]]}]

TeacherView(pr, e, teacher) ==
    [slot \in Slots(pr) |-> {x \in e : Slot(x) = slot /\ pr.teacher[x[1]] = teacher}]

\* The cells that hold something, of every teacher; an entry off the grid is
\* passed over.
TeacherMatrix(pr, e) ==
    LET shown == {x \in e : pr.teacher[x[1]] # None /\ Slot(x) \in Slots(pr)}
        of(teacher) == {x \in shown : pr.teacher[x[1]] = teacher}
    IN [teacher \in Teachers(pr) |->
           [slot \in {Slot(x) : x \in of(teacher)} |-> {x \in of(teacher) : Slot(x) = slot}]]
=============================================================================
