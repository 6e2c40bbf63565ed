-------------------------- MODULE MCScheduleEditing --------------------------
(* Small problems for ScheduleEditing, each with a timetable. *)
EXTENDS ScheduleEditing, TLC

MaxPerDay == 9

(* A problem over two days where every requirement is FLEXIBLE, has a teacher and a
   group of its own and no resource, and nothing is reserved. *)
Plain(block, class, weekly, classes) ==
    LET req == DOMAIN weekly
    IN [day |-> {"mon", "tue"}, class |-> class, block |-> block,
        req |-> req, reserved |-> {}, slots |-> <<>>,
        teacher |-> [r \in req |-> r], group |-> [r \in req |-> r],
        resource |-> [r \in req |-> None], classes |-> classes,
        split |-> [r \in req |-> None], weekly |-> weekly,
        mode |-> [r \in req |-> "FLEXIBLE"], sizes |-> [r \in req |-> <<>>],
        perDay |-> [r \in req |-> MaxPerDay],
        unavailable |-> {}, fixed |-> {}, capacity |-> <<>>,
        preferNot |-> {}, preferences |-> [r \in req |-> {}], minDays |-> [r \in req |-> 0]]

TwoThenOne == <<1, 1, 2>>
Pair == <<1, 1>>

OneClass(weekly) == [r \in DOMAIN weekly |-> {"7a"}]

(* Doubles and singles over three days, with a break before the third period. *)
Blocks ==
    LET weekly == "math" :> 3 @@ "sport" :> 2 @@ "art" :> 4
    IN [Plain(TwoThenOne, {"7a"}, weekly, OneClass(weekly)) EXCEPT
            !.day = {"mon", "tue", "wed"},
            !.mode["math"] = "REQUIRED", !.sizes["math"] = <<2, 1>>,
            !.mode["sport"] = "REQUIRED", !.sizes["sport"] = <<2>>,
            !.perDay["art"] = 2, !.unavailable = {<<"sport", "wed", 1>>},
            !.fixed = {<<"art", "mon", 3>>, <<"art", "tue", 3>>}]

BlocksTimetable ==
    {<<"math", "mon", 1>>, <<"math", "mon", 2>>, <<"art", "mon", 3>>,
     <<"sport", "tue", 1>>, <<"sport", "tue", 2>>, <<"art", "tue", 3>>,
     <<"art", "wed", 1>>, <<"math", "wed", 2>>, <<"art", "wed", 3>>}

(* A split with doubles, which can change places with the other double. *)
SplitBlocks ==
    LET weekly == "german" :> 3 @@ "russian" :> 3 @@ "math" :> 3
    IN [Plain(TwoThenOne, {"7a"}, weekly, OneClass(weekly)) EXCEPT
            !.split["german"] = "language", !.split["russian"] = "language",
            !.mode = [r \in DOMAIN weekly |-> "REQUIRED"],
            !.sizes = [r \in DOMAIN weekly |-> <<2, 1>>]]

SplitBlocksTimetable ==
    {<<"german", "mon", 1>>, <<"german", "mon", 2>>, <<"russian", "mon", 1>>, <<"russian", "mon", 2>>,
     <<"math", "mon", 3>>, <<"math", "tue", 1>>, <<"math", "tue", 2>>,
     <<"german", "tue", 3>>, <<"russian", "tue", 3>>}

(* A split, at most once a day, beside a reserved club and a fixed lesson. *)
Split ==
    LET weekly == "german" :> 2 @@ "russian" :> 2 @@ "art" :> 2 @@ "sport" :> 1
        plain == Plain(TwoThenOne, {"7a"}, weekly, OneClass(weekly))
    IN [plain EXCEPT
            !.split["german"] = "language", !.split["russian"] = "language",
            !.perDay["german"] = 1, !.perDay["russian"] = 1,
            !.fixed = {<<"sport", "mon", 3>>},
            !.unavailable = {<<"russian", "tue", 2>>},
            !.reserved = {"club"}, !.slots = "club" :> {<<"tue", 3>>},
            !.teacher = @ @@ "club" :> "art", !.group = @ @@ "club" :> None,
            !.resource = @ @@ "club" :> None, !.split = @ @@ "club" :> None,
            !.classes = @ @@ "club" :> {"7a"}]

SplitTimetable ==
    {<<"german", "mon", 1>>, <<"russian", "mon", 1>>, <<"art", "mon", 2>>, <<"sport", "mon", 3>>,
     <<"german", "tue", 1>>, <<"russian", "tue", 1>>, <<"art", "tue", 2>>, <<"club", "tue", 3>>}

(* Two classes with a merged choir, one laboratory and a teacher in common. *)
Merged ==
    LET weekly == "choir" :> 1 @@ "art" :> 1 @@ "lab7a" :> 1 @@ "math7a" :> 1 @@ "lab7b" :> 1 @@ "math7b" :> 1
        classes == "choir" :> {"7a", "7b"} @@ "art" :> {"7a", "7b"} @@ "lab7a" :> {"7a"}
                       @@ "math7a" :> {"7a"} @@ "lab7b" :> {"7b"} @@ "math7b" :> {"7b"}
    IN [Plain(Pair, {"7a", "7b"}, weekly, classes) EXCEPT
            !.teacher["math7a"] = "kim", !.teacher["math7b"] = "kim",
            !.resource["lab7a"] = "lab", !.resource["lab7b"] = "lab",
            !.capacity = "lab" :> 1]

MergedTimetable ==
    {<<"choir", "mon", 1>>, <<"lab7a", "mon", 2>>, <<"math7b", "mon", 2>>,
     <<"art", "tue", 1>>, <<"math7a", "tue", 2>>, <<"lab7b", "tue", 2>>}

(* A split whose branches both use the hall, which holds two groups. *)
SharedHall ==
    LET weekly == "boys" :> 1 @@ "girls" :> 1 @@ "math7a" :> 3 @@ "sport7b" :> 1 @@ "math7b" :> 3
        classes == "boys" :> {"7a"} @@ "girls" :> {"7a"} @@ "math7a" :> {"7a"}
                       @@ "sport7b" :> {"7b"} @@ "math7b" :> {"7b"}
    IN [Plain(Pair, {"7a", "7b"}, weekly, classes) EXCEPT
            !.split["boys"] = "sport7a", !.split["girls"] = "sport7a",
            !.resource["boys"] = "hall", !.resource["girls"] = "hall", !.resource["sport7b"] = "hall",
            !.capacity = "hall" :> 2]

SharedHallTimetable ==
    {<<"boys", "mon", 1>>, <<"girls", "mon", 1>>, <<"math7a", "mon", 2>>, <<"math7a", "tue", 1>>,
     <<"math7a", "tue", 2>>, <<"math7b", "mon", 1>>, <<"math7b", "mon", 2>>, <<"sport7b", "tue", 1>>,
     <<"math7b", "tue", 2>>}

(* Two doubles that are preferred and not formed. *)
Preferred ==
    LET weekly == "math" :> 2 @@ "sport" :> 2
    IN [Plain(Pair, {"7a"}, weekly, OneClass(weekly)) EXCEPT
            !.mode["math"] = "PREFERRED", !.sizes["math"] = <<2>>,
            !.mode["sport"] = "PREFERRED", !.sizes["sport"] = <<2>>]

PreferredTimetable ==
    {<<"sport", "mon", 1>>, <<"math", "mon", 2>>, <<"math", "tue", 1>>, <<"sport", "tue", 2>>}

MCNoMove == [move |-> "none"]
MCProblems == {Blocks, SplitBlocks, Split, Merged}
MCHallProblems == {SharedHall}
MCPreferredProblems == {Preferred}
MCTimetables ==
    Blocks :> {BlocksTimetable} @@ SplitBlocks :> {SplitBlocksTimetable}
        @@ Split :> {SplitTimetable} @@ Merged :> {MergedTimetable}
MCHallTimetables == SharedHall :> {SharedHallTimetable}
MCPreferredTimetables == Preferred :> {PreferredTimetable}
=============================================================================
