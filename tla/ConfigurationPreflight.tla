------------------------ MODULE ConfigurationPreflight ------------------------
(***************************************************************************)
(* The rows of one configuration revision, the foreign keys among them,    *)
(* and what preflight reports of them.  Of the calendar it has the slots,  *)
(* and whether days and periods are numbered with gaps or, without gaps,   *)
(* the bell times of neighbouring periods overlap.  References are by      *)
(* natural id.  Every period is instructional, and no requirement has a    *)
(* block pattern, a time preference or a fixed placement, as no writer     *)
(* creates any of these.                                                   *)
(***************************************************************************)
EXTENDS Integers, FiniteSetsExt, Functions

CONSTANTS
    TeacherId, ActivityId, ClassId, GroupId, ResourceId, RequirementId, BlockId, SplitId,
    Slot,           \* the cells of the calendar
    Name,           \* names of activities and of classes
    Load,           \* weekly periods of a requirement
    Capacity,       \* capacities of a resource
    None

ASSUME RowsAssumption ==
    /\ Load \subseteq Nat \ {0} /\ Capacity \subseteq Nat \ {0}
    /\ None \notin TeacherId \union ResourceId \union SplitId \union Name

Status == {"PREFER_NOT", "UNAVAILABLE"}

CalendarState == {"sound", "gaps", "overlaps"}

NoRows == [i \in {} |-> None]

Empty ==
    [teachers |-> {},
     activities |-> NoRows,     \* [kind, name]
     classes |-> NoRows,        \* name
     groups |-> NoRows,         \* [role, class, name], a subgroup's name left out
     resources |-> NoRows,      \* capacity
     requirements |-> NoRows,   \* [teacher, activity, group, periods, resource, split]
     exceptions |-> NoRows,     \* <<teacher, slot>> to a status
     blocks |-> NoRows,         \* [activity, name, classes, teacher, slots, resource]
     calendar |-> "sound"]      \* what is wrong with the days and periods

Put(f, k, v) == [i \in DOMAIN f \union {k} |-> IF i = k THEN v ELSE f[i]]
Drop(f, S) == [i \in DOMAIN f \ S |-> f[i]]

Ids(t, table) == IF table = "teachers" THEN t.teachers ELSE DOMAIN t[table]

-----------------------------------------------------------------------------
(* Foreign keys. *)

Refs(table, id) == IF id = None THEN {} ELSE {<<table, id>>}

RequirementRefs(q) ==
    {<<"teachers", q.teacher>>, <<"activities", q.activity>>, <<"groups", q.group>>}
        \union Refs("resources", q.resource)

BlockRefs(b) ==
    {<<"activities", b.activity>>} \union ({"classes"} \X b.classes)
        \union Refs("teachers", b.teacher) \union Refs("resources", b.resource)

\* What keys that restrict a deletion point at.
Referenced(t) ==
    (UNION {RequirementRefs(t.requirements[i]) : i \in DOMAIN t.requirements})
        \union (UNION {BlockRefs(t.blocks[i]) : i \in DOMAIN t.blocks})
        \union {<<"classes", t.groups[i].class>> : i \in DOMAIN t.groups}

\* An unavailability goes with its teacher.
CascadeTeacher(t, id) ==
    [t EXCEPT !.teachers = @ \ {id}, !.exceptions = Drop(@, {id} \X Slot)]

-----------------------------------------------------------------------------
(* Preflight: the codes it reports of a configuration. *)

\* _check_references
Dangling(t) ==
    \/ \E ref \in Referenced(t) : ref[2] \notin Ids(t, ref[1])
    \/ \E cell \in DOMAIN t.exceptions : cell[1] \notin t.teachers

WholeClassGroups(t, class) ==
    {g \in DOMAIN t.groups : t.groups[g].role = "WHOLE_CLASS" /\ t.groups[g].class = class}

GroupCountMismatch(t) ==
    \E c \in DOMAIN t.classes : Cardinality(WholeClassGroups(t, c)) # 1

NonOrdinaryRequirement(t) ==
    \E i \in DOMAIN t.requirements : t.activities[t.requirements[i].activity].kind # "ORDINARY"

NonClubBlock(t) ==
    \E i \in DOMAIN t.blocks : t.activities[t.blocks[i].activity].kind # "CLUB"

TeacherUnavailable(t) ==
    \E i \in DOMAIN t.blocks : \E s \in t.blocks[i].slots :
        LET cell == <<t.blocks[i].teacher, s>>
        IN  cell \in DOMAIN t.exceptions /\ t.exceptions[cell] = "UNAVAILABLE"

\* Blocks that share a slot.
Meet(a, b) == a.slots \intersect b.slots # {}

ClassCollision(t) ==
    \E i, j \in DOMAIN t.blocks :
        /\ i # j
        /\ Meet(t.blocks[i], t.blocks[j])
        /\ t.blocks[i].classes \intersect t.blocks[j].classes # {}

TeacherCollision(t) ==
    \E i, j \in DOMAIN t.blocks :
        /\ i # j
        /\ Meet(t.blocks[i], t.blocks[j])
        /\ t.blocks[i].teacher = t.blocks[j].teacher /\ t.blocks[i].teacher # None

CapacityExceeded(t) ==
    \E h \in DOMAIN t.resources : \E s \in Slot :
        Cardinality({i \in DOMAIN t.blocks : t.blocks[i].resource = h /\ s \in t.blocks[i].slots})
            > t.resources[h]

Branches(t, x) == {i \in DOMAIN t.requirements : t.requirements[i].split = x}

SplitsInUse(t) == {x \in SplitId : Branches(t, x) # {}}

DegenerateSplit(t) == \E x \in SplitsInUse(t) : Cardinality(Branches(t, x)) < 2

\* A requirement's class, through its group.
ClassOf(t, i) == t.groups[t.requirements[i].group].class

InconsistentSplit(t) ==
    \E x \in SplitsInUse(t) : \E i, j \in Branches(t, x) :
        \/ t.requirements[i].periods # t.requirements[j].periods
        \/ ClassOf(t, i) # ClassOf(t, j)

WeeklyPeriods(t, S) == MapThenSumSet(LAMBDA i : t.requirements[i].periods, S)

\* The slots a teacher could be given a lesson in.
FreeSlots(t, teacher) ==
    {s \in Slot :
        /\ <<teacher, s>> \in DOMAIN t.exceptions => t.exceptions[<<teacher, s>>] # "UNAVAILABLE"
        /\ \A i \in DOMAIN t.blocks : t.blocks[i].teacher = teacher => s \notin t.blocks[i].slots}

Overloaded(t) ==
    \E q \in t.teachers :
        WeeklyPeriods(t, {i \in DOMAIN t.requirements : t.requirements[i].teacher = q})
            > Cardinality(FreeSlots(t, q))

\* Split branches count once.
Representatives(t) ==
    {i \in DOMAIN t.requirements :
        LET x == t.requirements[i].split
        IN  x # None => i = CHOOSE j \in Branches(t, x) : TRUE}

OccupancyMismatch(t) ==
    \E c \in DOMAIN t.classes :
        LET reserved == {i \in DOMAIN t.blocks : c \in t.blocks[i].classes}
        IN  WeeklyPeriods(t, {i \in Representatives(t) : ClassOf(t, i) = c})
                + MapThenSumSet(LAMBDA i : Cardinality(t.blocks[i].slots), reserved)
            # Cardinality(Slot)

\* The check of that code reports a fault.
Found(t, code) ==
    CASE code = "CLASS_SECTION_WHOLE_CLASS_GROUP_COUNT_MISMATCH" -> GroupCountMismatch(t)
      [] code = "NON_ORDINARY_TEACHING_REQUIREMENT_ACTIVITY" -> NonOrdinaryRequirement(t)
      [] code = "RESERVED_BLOCK_NON_CLUB_ACTIVITY" -> NonClubBlock(t)
      [] code = "RESERVED_BLOCK_TEACHER_UNAVAILABLE" -> TeacherUnavailable(t)
      [] code = "RESERVED_BLOCK_CLASS_SLOT_COLLISION" -> ClassCollision(t)
      [] code = "RESERVED_BLOCK_TEACHER_SLOT_COLLISION" -> TeacherCollision(t)
      [] code = "RESERVED_RESOURCE_CAPACITY_EXCEEDED" -> CapacityExceeded(t)
      [] code = "DEGENERATE_SPLIT_GROUP" -> DegenerateSplit(t)
      [] code = "SPLIT_GROUP_MISMATCH" -> InconsistentSplit(t)
      [] code = "TEACHER_OVERLOADED" -> Overloaded(t)
      [] code = "CLASS_OCCUPANCY_MISMATCH" -> OccupancyMismatch(t)
      [] OTHER -> FALSE

StructuralCodes ==
    {"CLASS_SECTION_WHOLE_CLASS_GROUP_COUNT_MISMATCH",
     "NON_ORDINARY_TEACHING_REQUIREMENT_ACTIVITY",
     "DEGENERATE_SPLIT_GROUP", "SPLIT_GROUP_MISMATCH"}

BlockCodes ==
    {"RESERVED_BLOCK_NON_CLUB_ACTIVITY", "RESERVED_BLOCK_TEACHER_UNAVAILABLE",
     "RESERVED_BLOCK_CLASS_SLOT_COLLISION", "RESERVED_BLOCK_TEACHER_SLOT_COLLISION",
     "RESERVED_RESOURCE_CAPACITY_EXCEEDED"}

WorkloadCodes == {"TEACHER_OVERLOADED", "CLASS_OCCUPANCY_MISMATCH"}

\* _check_period_clock_order
BellTimesOverlap(t) == t.calendar = "overlaps"

\* run_preflight: numbers with gaps hide all the rest; references and bell times,
\* reported beside each other, hide what comes after them.
Reports(t, code) ==
    IF t.calendar = "gaps" THEN code = "CALENDAR"
    ELSE IF Dangling(t) \/ BellTimesOverlap(t)
    THEN \/ Dangling(t) /\ code = "UNKNOWN_REFERENCE"
         \/ BellTimesOverlap(t) /\ code = "PERIOD_CLOCK_TIME_OVERLAP"
    ELSE Found(t, code)

Codes ==
    StructuralCodes \union BlockCodes \union WorkloadCodes
        \union {"CALENDAR", "UNKNOWN_REFERENCE", "PERIOD_CLOCK_TIME_OVERLAP"}

Clean(t) == \A code \in Codes : ~Reports(t, code)

\* A write adds one of the codes; those that t has already do not count.
Adds(t, candidate, codes) == ~(\A code \in codes : Reports(candidate, code) => Reports(t, code))
=============================================================================
