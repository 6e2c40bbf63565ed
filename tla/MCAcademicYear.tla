----------------------------- MODULE MCAcademicYear -----------------------------
(* Small instance: a year is provisioned, and its repositories are called at will. *)
EXTENDS SchoolProvisioning, TLC

MCPart == {"setup", "calendar"}
MCShared == {"calendar"}
MCValue == {"a", "b"}
MCProvisioned == [p \in MCPart |-> "a"]
MCTimetable == {"t1", "t2"}
MCPlacement == {"k"}
MCPlaced == [t \in MCTimetable |-> MCPlacement]
MCFits == {<<p, q, t>> \in [MCPart -> MCValue] \X [MCPart -> MCValue] \X MCTimetable :
              t = "t1" => p["setup"] = "a" /\ q["setup"] = "a"}
MCLockFits == {x \in [MCPart -> MCValue] \X MCTimetable \X MCPlacement : x[1]["setup"] = "a"}
First == [name |-> "S", year |-> "2025", label |-> "25/26"]
MCCommand == {First, [First EXCEPT !.name = "T"], [First EXCEPT !.label = "2025"], [First EXCEPT !.year = "2026"]}
MCUsed == {First}
MCSymmetry == Permutations(Client)
=============================================================================
