-------------------------- MODULE MCScheduleSolving --------------------------
(* The problems of MCScheduleEditing, and small weeks that are solved. *)
EXTENDS ScheduleSolving, MCScheduleEditing

Week(days, weekly) ==
    [Plain(Pair, {"7a"}, weekly, OneClass(weekly)) EXCEPT
        !.day = days, !.fixed = {<<"sport", "mon", 1>>}]

ThreeDays == {"mon", "tue", "wed"}
MathArtSport == "math" :> 3 @@ "art" :> 2 @@ "sport" :> 1

(* Every policy of mathematics in turn, on three days of two periods. *)
FlexibleWeek == [Week(ThreeDays, MathArtSport) EXCEPT !.preferNot = {<<"art", "tue", 1>>}]

RequiredWeek ==
    [Week(ThreeDays, MathArtSport) EXCEPT
        !.mode["math"] = "REQUIRED", !.sizes["math"] = <<2, 1>>]

PreferredWeek ==
    [Week(ThreeDays, MathArtSport) EXCEPT
        !.mode["math"] = "PREFERRED", !.sizes["math"] = <<2, 1>>,
        !.minDays["art"] = 2, !.preferences["art"] = {<<"LOW", {2}>>},
        !.unavailable = {<<"art", "wed", 2>>}]

(* A day less. *)
ShortWeek ==
    [Week({"mon", "tue"}, "math" :> 2 @@ "art" :> 1 @@ "sport" :> 1) EXCEPT
        !.mode["math"] = "REQUIRED", !.sizes["math"] = <<2>>]

(* Blocks of three and two. *)
Nested ==
    LET weekly == "math" :> 5 @@ "art" :> 1
    IN [Plain(<<1, 1, 1>>, {"7a"}, weekly, OneClass(weekly)) EXCEPT
            !.mode["math"] = "REQUIRED", !.sizes["math"] = <<3, 2>>]

(* A laboratory that a reserved block and a class share. *)
SharedLab ==
    LET weekly == "lab7a" :> 2 @@ "math7a" :> 2 @@ "math7b" :> 3
        classes == "lab7a" :> {"7a"} @@ "math7a" :> {"7a"} @@ "math7b" :> {"7b"} @@ "club" :> {"7b"}
    IN [Plain(Pair, {"7a", "7b"}, weekly, classes) EXCEPT
            !.reserved = {"club"}, !.slots = "club" :> {<<"tue", 1>>},
            !.teacher = @ @@ "club" :> "kim", !.group = @ @@ "club" :> None,
            !.resource = [r \in DOMAIN weekly |-> None] @@ "club" :> "lab",
            !.resource["lab7a"] = "lab", !.split = @ @@ "club" :> None,
            !.teacher["math7a"] = "kim", !.capacity = "lab" :> 1]

MCSolved == {FlexibleWeek, RequiredWeek, PreferredWeek, ShortWeek}
MCDrafts ==
    FlexibleWeek :> {RequiredWeek, ShortWeek} @@ RequiredWeek :> {PreferredWeek}
        @@ PreferredWeek :> {} @@ ShortWeek :> {}
MCSolverProblems == MCSolved \cup {Blocks, SplitBlocks, Split, Merged, SharedHall, SharedLab, Nested}
MCSolvingTimetables == MCTimetables @@ MCPreferredTimetables @@ [pr \in MCSolverProblems |-> {}]
MCSolvingProblems == MCProblems \cup MCPreferredProblems \cup MCSolverProblems
MCNoProblem == [day |-> None]
=============================================================================
