-------------------------- MODULE ConfigurationTables --------------------------
(***************************************************************************)
(* The writers of one academic year's configuration, the calendar's aside. *)
(* Each configuration revision has rows of its own, under the natural ids  *)
(* of the revision it was cloned from.  A writer validates its request     *)
(* against the draft; most of them then look rows up by year and natural   *)
(* id alone, so once a revision is published they meet its rows as well.   *)
(*                                                                         *)
(* A writer holds the academic year's row lock from its validation to its  *)
(* commit: each is one action.  A request that the validation turns down   *)
(* changes nothing and is no action; one that it lets through is answered  *)
(* or fails with an unexpected exception, which `outcome' records.         *)
(***************************************************************************)
EXTENDS ConfigurationPreflight

CONSTANTS
    MaxRevisions,   \* bound on the revisions that exist at a time
    MaxItems,       \* bound on what one revision holds, see Size
    MaxTotal        \* bound on what all revisions hold

ASSUME TablesAssumption == MaxRevisions \in Nat \ {0} /\ MaxItems \in Nat /\ MaxTotal \in Nat

NULL == 0
RevisionId == 1..MaxRevisions

VARIABLES
    live,       \* the revisions that exist
    draft,      \* academic_year.draft_revision_id
    published,  \* academic_year.published_revision_id
    tables,     \* tables[r]: the rows of revision r
    outcome     \* how the last request ended

lifecycle == <<live, draft, published>>
vars == <<lifecycle, tables, outcome>>

\* The calendar's slots are there from the start; a slot outlives what names it.
Init ==
    /\ live = {1} /\ draft = 1 /\ published = NULL
    /\ tables = [r \in RevisionId |-> Empty]
    /\ outcome = "done"

\* A class counts with its group, and a split's groups and requirements as one.
Size(t) ==
    Cardinality(t.teachers) + Cardinality(DOMAIN t.activities) + Cardinality(DOMAIN t.classes)
    + Cardinality(DOMAIN t.resources) + Cardinality(DOMAIN t.exceptions)
    + Cardinality(DOMAIN t.blocks) + Cardinality(SplitsInUse(t)) + Cardinality(Branches(t, None))

RoomFor(n) == MapThenSumSet(LAMBDA r : Size(tables[r]), live) + n <= MaxTotal
Room(n) == Size(tables[draft]) + n <= MaxItems /\ RoomFor(n)

\* A natural id is minted by the service: no revision has it.
Unused(table, ids) == {i \in ids : \A r \in live : i \notin Ids(tables[r], table)}
Minted(table, ids) == CHOOSE i \in Unused(table, ids) : TRUE

-----------------------------------------------------------------------------
(* How a writer ends. *)

Succeed == outcome' = "done" /\ UNCHANGED lifecycle
Fail == outcome' = "failed" /\ UNCHANGED <<tables, lifecycle>>

\* New rows, stamped with resolve_draft_revision_id.
Insert(t) == tables' = [tables EXCEPT ![draft] = t] /\ Succeed

\* Mutated form: the first row that is found will do.
AnyRow(table, id) == \E r \in live : id \in Ids(tables[r], table)

\* scalar_one() by year and natural id raises MultipleResultsFound on two rows.
Unique(table, id) == \A r \in live \ {draft} : id \notin Ids(tables[r], table)

Holder(table, id) == CHOOSE r \in live : id \in Ids(tables[r], table)

Rewrite(table, id, Written(_)) ==
    IF Unique(table, id)
    THEN tables' = [tables EXCEPT ![Holder(table, id)] = Written(@)] /\ Succeed
    ELSE Fail

\* As Rewrite; a foreign key may restrict the deletion.
Remove(table, id, Written(_)) ==
    IF Unique(table, id) /\ <<table, id>> \notin Referenced(tables[Holder(table, id)])
    THEN tables' = [tables EXCEPT ![Holder(table, id)] = Written(@)] /\ Succeed
    ELSE Fail

\* _natural_to_surrogate: a reference looked up by year may resolve to another
\* revision's row, and then the composite foreign key fails the commit.
MayMisresolve(refs) == ~(\A ref \in refs : Unique(ref[1], ref[2]))

-----------------------------------------------------------------------------
(* Teachers, and when they are unavailable. *)

CreateTeacher ==
    /\ draft # NULL /\ Room(1)
    /\ Unused("teachers", TeacherId) # {}
    /\ Insert([tables[draft] EXCEPT !.teachers = @ \union {Minted("teachers", TeacherId)}])

\* First and last name, which are not modelled.
UpdateTeacher(id) ==
    /\ draft # NULL
    /\ id \in tables[draft].teachers
    /\ Rewrite("teachers", id, LAMBDA t : t)

\* Mutated form: reserved blocks are forgotten.
TeacherForgottenBy(t, id) ==
    \/ \E i \in DOMAIN t.requirements : t.requirements[i].teacher = id
    \/ \E cell \in DOMAIN t.exceptions : cell[1] = id

\* teacher_rules.referenced_by
TeacherReferencedBy(t, id) ==
    \/ \E i \in DOMAIN t.requirements : t.requirements[i].teacher = id
    \/ \E cell \in DOMAIN t.exceptions : cell[1] = id
    \/ \E i \in DOMAIN t.blocks : t.blocks[i].teacher = id

DeleteTeacher(id) ==
    /\ draft # NULL
    /\ id \in tables[draft].teachers
    /\ ~TeacherReferencedBy(tables[draft], id)
    /\ Remove("teachers", id, LAMBDA t : CascadeTeacher(t, id))

Cells(teacher, given) == {<<teacher, s>> : s \in DOMAIN given}

\* The teacher's rows become the given ones; every lookup is by revision.
ReplaceExceptions(teacher, given) ==
    LET t == tables[draft]
        others == {cell \in DOMAIN t.exceptions : cell[1] # teacher}
    IN  /\ draft # NULL
        /\ teacher \in t.teachers
        /\ Room(Cardinality(DOMAIN given))
        /\ Insert([t EXCEPT !.exceptions =
                [cell \in others \union Cells(teacher, given) |->
                    IF cell[1] = teacher THEN given[cell[2]] ELSE t.exceptions[cell]]])

-----------------------------------------------------------------------------
(* Subjects are ORDINARY activities, special activities are CLUB ones. *)

\* find_duplicate of either surface, other activities than id considered.
NameTaken(t, kind, name, id) ==
    \E a \in DOMAIN t.activities \ {id} : t.activities[a] = [kind |-> kind, name |-> name]

CreateActivity(kind, name) ==
    LET t == tables[draft]
    IN  /\ draft # NULL /\ Room(1)
        /\ Unused("activities", ActivityId) # {}
        /\ ~NameTaken(t, kind, name, None)
        /\ Insert([t EXCEPT !.activities =
                Put(@, Minted("activities", ActivityId), [kind |-> kind, name |-> name])])

IsActivity(id, kind) ==
    id \in DOMAIN tables[draft].activities /\ tables[draft].activities[id].kind = kind

CreateSubject(name) == CreateActivity("ORDINARY", name)
CreateSpecialActivity(name) == CreateActivity("CLUB", name)

UpdateSubject(id, name) ==
    /\ draft # NULL
    /\ IsActivity(id, "ORDINARY")
    /\ ~NameTaken(tables[draft], "ORDINARY", name, id)
    /\ Rewrite("activities", id, LAMBDA t : [t EXCEPT !.activities[id].name = name])

\* Mutated form: the reserved blocks keep the name.
UpdateSpecialActivityAlone(id, name) ==
    /\ draft # NULL
    /\ IsActivity(id, "CLUB")
    /\ ~NameTaken(tables[draft], "CLUB", name, id)
    /\ Rewrite("activities", id, LAMBDA t : [t EXCEPT !.activities[id].name = name])

\* The blocks of the activity are renamed with it.
UpdateSpecialActivity(id, name) ==
    /\ draft # NULL
    /\ IsActivity(id, "CLUB")
    /\ ~NameTaken(tables[draft], "CLUB", name, id)
    /\ Rewrite("activities", id, LAMBDA t :
            [t EXCEPT !.activities[id].name = name,
                      !.blocks = [i \in DOMAIN @ |->
                            IF @[i].activity = id THEN [@[i] EXCEPT !.name = name] ELSE @[i]]])

BlocksUse(t, id) == \E i \in DOMAIN t.blocks : t.blocks[i].activity = id

\* subject_rules.referenced_by
SubjectReferencedBy(t, id) ==
    (\E i \in DOMAIN t.requirements : t.requirements[i].activity = id) \/ BlocksUse(t, id)

WithoutActivity(t, id) == [t EXCEPT !.activities = Drop(@, {id})]

DeleteSubject(id) ==
    /\ draft # NULL
    /\ IsActivity(id, "ORDINARY")
    /\ ~SubjectReferencedBy(tables[draft], id)
    /\ Remove("activities", id, LAMBDA t : WithoutActivity(t, id))

DeleteSpecialActivity(id) ==
    /\ draft # NULL
    /\ IsActivity(id, "CLUB")
    /\ ~BlocksUse(tables[draft], id)
    /\ Remove("activities", id, LAMBDA t : WithoutActivity(t, id))

-----------------------------------------------------------------------------
(* Classes, each with a participant group of the whole class. *)

ClassNameTaken(t, name, id) == \E c \in DOMAIN t.classes \ {id} : t.classes[c] = name

CreateClass(name) ==
    LET t == tables[draft]
        class == Minted("classes", ClassId)
        group == Minted("groups", GroupId)
    IN  /\ draft # NULL /\ Room(1)
        /\ Unused("classes", ClassId) # {} /\ Unused("groups", GroupId) # {}
        /\ ~ClassNameTaken(t, name, None)
        /\ Insert([t EXCEPT
                !.classes = Put(@, class, name),
                !.groups = Put(@, group, [role |-> "WHOLE_CLASS", class |-> class, name |-> name])])

\* resolve_canonical_whole_class_group: there is one, StructurallySound says.
Canonical(t, class) == CHOOSE g \in WholeClassGroups(t, class) : TRUE

\* The class and its group are looked up in turn, and both are renamed.
UpdateClass(id, name) ==
    LET group == Canonical(tables[draft], id)
    IN  /\ draft # NULL
        /\ id \in DOMAIN tables[draft].classes
        /\ ~ClassNameTaken(tables[draft], name, id)
        /\ IF ~Unique("groups", group) THEN Fail
           ELSE Rewrite("classes", id, LAMBDA t :
                    [t EXCEPT !.classes[id] = name, !.groups[group].name = name])

\* class_section_rules.referenced_by
ClassReferencedBy(t, id) ==
    \/ \E i \in DOMAIN t.requirements : t.requirements[i].group = Canonical(t, id)
    \/ \E i \in DOMAIN t.blocks : id \in t.blocks[i].classes
    \/ \E g \in DOMAIN t.groups : t.groups[g].role = "SUBGROUP" /\ t.groups[g].class = id

\* The membership goes first, then the group, then the class.
DeleteClass(id) ==
    LET group == Canonical(tables[draft], id)
        withoutGroup(t) == [t EXCEPT !.groups = Drop(@, {group})]
    IN  /\ draft # NULL
        /\ id \in DOMAIN tables[draft].classes
        /\ ~ClassReferencedBy(tables[draft], id)
        /\ IF /\ Unique("classes", id) /\ Unique("groups", group)
              /\ <<"groups", group>> \notin Referenced(tables[draft])
              /\ <<"classes", id>> \notin Referenced(withoutGroup(tables[draft]))
           THEN Insert([withoutGroup(tables[draft]) EXCEPT !.classes = Drop(@, {id})])
           ELSE Fail

-----------------------------------------------------------------------------
(* Resources.  Lowering a capacity is not checked against the blocks. *)

CreateResource(capacity) ==
    LET t == tables[draft]
    IN  /\ draft # NULL /\ Room(1)
        /\ Unused("resources", ResourceId) # {}
        /\ Insert([t EXCEPT !.resources = Put(@, Minted("resources", ResourceId), capacity)])

UpdateResource(id, capacity) ==
    /\ draft # NULL
    /\ id \in DOMAIN tables[draft].resources
    /\ Rewrite("resources", id, LAMBDA t : [t EXCEPT !.resources[id] = capacity])

\* find_resource_references
ResourceReferencedBy(t, id) ==
    \/ \E i \in DOMAIN t.requirements : t.requirements[i].resource = id
    \/ \E i \in DOMAIN t.blocks : t.blocks[i].resource = id

DeleteResource(id) ==
    /\ draft # NULL
    /\ id \in DOMAIN tables[draft].resources
    /\ ~ResourceReferencedBy(tables[draft], id)
    /\ Remove("resources", id, LAMBDA t : [t EXCEPT !.resources = Drop(@, {id})])

-----------------------------------------------------------------------------
(* Teaching assignments: plain requirements of a whole class. *)

\* new_validation_errors, less WARNING_ONLY_VALIDATION_CODES, is empty.
Acceptable(t, candidate) == ~Adds(t, candidate, Codes \ WorkloadCodes)

\* is_plain
Plain(t, i) ==
    t.groups[t.requirements[i].group].role = "WHOLE_CLASS" /\ t.requirements[i].split = None

Assignments(t) ==
    [teacher : t.teachers,
     activity : {a \in DOMAIN t.activities : t.activities[a].kind = "ORDINARY"},
     group : {g \in DOMAIN t.groups : t.groups[g].role = "WHOLE_CLASS"},
     periods : Load,
     resource : DOMAIN t.resources \union {None},
     split : {None}]

AssignmentTaken(t, q, id) ==
    \E i \in DOMAIN t.requirements \ {id} :
        LET other == t.requirements[i]
        IN  <<other.teacher, other.group, other.activity>> = <<q.teacher, q.group, q.activity>>

WithRequirement(t, id, q) == [t EXCEPT !.requirements = Put(@, id, q)]

CreateAssignment(q) ==
    LET t == tables[draft]
        written == WithRequirement(t, Minted("requirements", RequirementId), q)
    IN  /\ Room(1)
        /\ Unused("requirements", RequirementId) # {}
        /\ ~AssignmentTaken(t, q, None)
        /\ Acceptable(t, written)
        /\ \/ Insert(written)
           \/ MayMisresolve(RequirementRefs(q)) /\ Fail

UpdateAssignment(id, q) ==
    LET t == tables[draft]
    IN  /\ Plain(t, id)
        /\ ~AssignmentTaken(t, q, id)
        /\ Acceptable(t, WithRequirement(t, id, q))
        /\ \/ Rewrite("requirements", id, LAMBDA u : WithRequirement(u, id, q))
           \/ MayMisresolve(RequirementRefs(q)) /\ Fail

WithoutRequirement(t, id) == [t EXCEPT !.requirements = Drop(@, {id})]

DeleteAssignment(id) ==
    /\ Plain(tables[draft], id)
    /\ Acceptable(tables[draft], WithoutRequirement(tables[draft], id))
    /\ Rewrite("requirements", id, LAMBDA t : WithoutRequirement(t, id))

-----------------------------------------------------------------------------
(* Synchronized splits: two subgroups of a class, each with a teacher, that *)
(* are taught at the same time.  Every lookup is by revision.               *)

Branch(q, group, split) ==
    [teacher |-> q.teacher, activity |-> q.activity, group |-> group,
     periods |-> q.periods, resource |-> None, split |-> split]

WithSplit(t, class, a, b, split) ==
    LET groupA == Minted("groups", GroupId)
        groupB == CHOOSE g \in Unused("groups", GroupId) \ {groupA} : TRUE
        rowA == Minted("requirements", RequirementId)
        rowB == CHOOSE i \in Unused("requirements", RequirementId) \ {rowA} : TRUE
        subgroup == [role |-> "SUBGROUP", class |-> class, name |-> None]
    IN  [t EXCEPT
            !.groups = Put(Put(@, groupA, subgroup), groupB, subgroup),
            !.requirements = Put(Put(@, rowA, Branch(a, groupA, split)),
                                 rowB, Branch(b, groupB, split))]

\* Mutated form: the second branch is stored without the split's id.
WithHalfSplit(t, class, a, b, split) ==
    LET written == WithSplit(t, class, a, b, split)
        second == {i \in Branches(written, split) : written.requirements[i].teacher = b.teacher}
    IN  [written EXCEPT !.requirements = [i \in DOMAIN @ |->
            IF i \in second THEN [@[i] EXCEPT !.split = None] ELSE @[i]]]

\* The rows SqlAlchemySynchronizedSplitRepository writes are the ones validated.
StoredSplit(t, class, a, b, split) == WithSplit(t, class, a, b, split)

\* a and b hold the two branches' teachers and activities and their one load.
CreateSplit(class, a, b) ==
    LET t == tables[draft]
        splits == {x \in SplitId : \A r \in live : Branches(tables[r], x) = {}}
        split == CHOOSE x \in splits : TRUE
    IN  /\ draft # NULL /\ Room(1)
        /\ splits # {}
        /\ Cardinality(Unused("groups", GroupId)) >= 2
        /\ Cardinality(Unused("requirements", RequirementId)) >= 2
        /\ a.teacher # b.teacher /\ a.periods = b.periods
        /\ Acceptable(t, WithSplit(t, class, a, b, split))
        /\ Insert(StoredSplit(t, class, a, b, split))

-----------------------------------------------------------------------------
(* Reserved activities: blocks of slots for a special activity. *)

\* What a valid request names.
ReservedFields(t) ==
    [activity : {a \in DOMAIN t.activities : t.activities[a].kind = "CLUB"},
     classes : (SUBSET DOMAIN t.classes) \ {{}},
     teacher : t.teachers \union {None},
     slots : (SUBSET Slot) \ {{}},
     resource : DOMAIN t.resources \union {None}]

\* A block's name is its activity's.
BlockOf(t, fields) ==
    [activity |-> fields.activity, name |-> t.activities[fields.activity].name,
     classes |-> fields.classes, teacher |-> fields.teacher,
     slots |-> fields.slots, resource |-> fields.resource]

WithBlock(t, id, fields) == [t EXCEPT !.blocks = Put(@, id, BlockOf(t, fields))]

\* Mutated form: the blocks' classes may collide.
ReservableButClass(t, id, fields) ==
    ~Adds(t, WithBlock(t, id, fields), BlockCodes \ {"RESERVED_BLOCK_CLASS_SLOT_COLLISION"})

\* _candidate_diff_errors, of _RESERVED_ACTIVITY_BLOCKING_CODES, is empty.
Reservable(t, id, fields) == ~Adds(t, WithBlock(t, id, fields), BlockCodes)

\* scalar_one_or_none() finds one activity, one teacher and one resource.
ResolvesOnce(fields) ==
    \A ref \in Refs("activities", fields.activity) \union Refs("teachers", fields.teacher)
                   \union Refs("resources", fields.resource) :
        Unique(ref[1], ref[2])

\* Classes and slots are looked up by year; a published revision has the slots too.
ChildrenMayMisresolve(fields) ==
    live # {draft} \/ MayMisresolve({"classes"} \X fields.classes)

CreateReserved(fields) ==
    LET t == tables[draft]
        id == Minted("blocks", BlockId)
    IN  /\ Room(1)
        /\ Unused("blocks", BlockId) # {}
        /\ Reservable(t, id, fields)
        /\ \/ ResolvesOnce(fields) /\ Insert(WithBlock(t, id, fields))
           \/ (~ResolvesOnce(fields) \/ ChildrenMayMisresolve(fields)) /\ Fail

UpdateReserved(id, fields) ==
    /\ Reservable(tables[draft], id, fields)
    /\ \/ /\ ResolvesOnce(fields)
          /\ Rewrite("blocks", id, LAMBDA t : WithBlock(t, id, fields))
       \/ (~ResolvesOnce(fields) \/ ChildrenMayMisresolve(fields)) /\ Fail

DeleteReserved(id) ==
    /\ draft # NULL
    /\ id \in DOMAIN tables[draft].blocks
    /\ Rewrite("blocks", id, LAMBDA t : [t EXCEPT !.blocks = Drop(@, {id})])

-----------------------------------------------------------------------------
(* The revision lifecycle, and what the calendar's writers leave. *)

\* What is left of the draft's days and periods; the rows of the published
\* revision are CalendarRevisions' matter.  In a first setup numbers have no gaps,
\* but a move, or the deletion of an untimed period, does not look at bell times.
CalendarWrite ==
    /\ draft # NULL
    /\ \/ \E state \in CalendarState :
            /\ published = NULL => state # "gaps"
            /\ Insert([tables[draft] EXCEPT !.calendar = state])
       \/ published # NULL /\ Fail

BeginDraft ==
    /\ draft = NULL
    /\ RoomFor(Size(tables[published]))
    /\ \E r \in RevisionId \ live :
        /\ live' = live \union {r}
        /\ draft' = r
        /\ tables' = [tables EXCEPT ![r] = tables[published]]
    /\ outcome' = "done"
    /\ UNCHANGED published

\* Mutated form: the year keeps pointing at the revision it deleted.
DiscardDraftOnly ==
    /\ draft # NULL
    /\ published # NULL
    /\ live' = live \ {draft}
    /\ tables' = [tables EXCEPT ![draft] = Empty]
    /\ outcome' = "done"
    /\ UNCHANGED <<draft, published>>

DiscardDraft ==
    /\ draft # NULL
    /\ published # NULL
    /\ live' = live \ {draft}
    /\ draft' = NULL
    /\ tables' = [tables EXCEPT ![draft] = Empty]
    /\ outcome' = "done"
    /\ UNCHANGED published

\* A generation or regeneration that preflight lets through.
Publish ==
    /\ draft # NULL
    /\ Clean(tables[draft])
    /\ published' = draft
    /\ draft' = NULL
    /\ outcome' = "done"
    /\ UNCHANGED <<live, tables>>

-----------------------------------------------------------------------------
(* The services: a request with any fields, the ids of new rows minted. *)

TeacherService ==
    \/ CreateTeacher
    \/ \E id \in TeacherId : UpdateTeacher(id) \/ DeleteTeacher(id)

TeacherAvailabilityService ==
    \E id \in TeacherId : \E cells \in SUBSET Slot : \E given \in [cells -> Status] :
        ReplaceExceptions(id, given)

SubjectService ==
    \/ \E name \in Name : CreateSubject(name)
    \/ \E id \in ActivityId : DeleteSubject(id) \/ \E name \in Name : UpdateSubject(id, name)

SpecialActivityService ==
    \/ \E name \in Name : CreateSpecialActivity(name)
    \/ \E id \in ActivityId :
        DeleteSpecialActivity(id) \/ \E name \in Name : UpdateSpecialActivity(id, name)

ClassSectionService ==
    \/ \E name \in Name : CreateClass(name)
    \/ \E id \in ClassId : DeleteClass(id) \/ \E name \in Name : UpdateClass(id, name)

ResourceService ==
    \/ \E capacity \in Capacity : CreateResource(capacity)
    \/ \E id \in ResourceId :
        DeleteResource(id) \/ \E capacity \in Capacity : UpdateResource(id, capacity)

TeachingAssignmentService ==
    /\ draft # NULL
    /\ \/ \E q \in Assignments(tables[draft]) :
            \/ CreateAssignment(q)
            \/ \E id \in DOMAIN tables[draft].requirements : UpdateAssignment(id, q)
       \/ \E id \in DOMAIN tables[draft].requirements : DeleteAssignment(id)

SynchronizedSplitService ==
    /\ draft # NULL
    /\ \E class \in DOMAIN tables[draft].classes :
       \E a, b \in [teacher : tables[draft].teachers,
                    activity : {i \in DOMAIN tables[draft].activities : IsActivity(i, "ORDINARY")},
                    periods : Load] :
            CreateSplit(class, a, b)

ReservedActivityService ==
    /\ draft # NULL
    /\ \/ \E fields \in ReservedFields(tables[draft]) :
            \/ CreateReserved(fields)
            \/ \E id \in DOMAIN tables[draft].blocks : UpdateReserved(id, fields)
       \/ \E id \in BlockId : DeleteReserved(id)

Next ==
    \/ TeacherService \/ TeacherAvailabilityService
    \/ SubjectService \/ SpecialActivityService
    \/ ClassSectionService \/ ResourceService
    \/ TeachingAssignmentService \/ SynchronizedSplitService
    \/ ReservedActivityService
    \/ CalendarWrite \/ BeginDraft \/ DiscardDraft \/ Publish

Spec == Init /\ [][Next]_vars

-----------------------------------------------------------------------------
IsTable(t) ==
    /\ t.teachers \subseteq TeacherId
    /\ DOMAIN t.activities \subseteq ActivityId
    /\ Range(t.activities) \subseteq [kind : {"ORDINARY", "CLUB"}, name : Name]
    /\ DOMAIN t.classes \subseteq ClassId /\ Range(t.classes) \subseteq Name
    /\ DOMAIN t.groups \subseteq GroupId
    /\ Range(t.groups) \subseteq
            [role : {"WHOLE_CLASS", "SUBGROUP"}, class : ClassId, name : Name \union {None}]
    /\ DOMAIN t.resources \subseteq ResourceId /\ Range(t.resources) \subseteq Capacity
    /\ DOMAIN t.requirements \subseteq RequirementId
    /\ Range(t.requirements) \subseteq
            [teacher : TeacherId, activity : ActivityId, group : GroupId, periods : Load,
             resource : ResourceId \union {None}, split : SplitId \union {None}]
    /\ DOMAIN t.exceptions \subseteq TeacherId \X Slot /\ Range(t.exceptions) \subseteq Status
    /\ DOMAIN t.blocks \subseteq BlockId
    /\ Range(t.blocks) \subseteq
            [activity : ActivityId, name : Name, classes : (SUBSET ClassId) \ {{}},
             teacher : TeacherId \union {None}, slots : (SUBSET Slot) \ {{}},
             resource : ResourceId \union {None}]
    /\ t.calendar \in CalendarState

TypeOK ==
    /\ live \subseteq RevisionId
    /\ draft \in live \union {NULL}
    /\ published \in live \union {NULL}
    /\ \A r \in RevisionId : IsTable(tables[r])
    /\ outcome \in {"done", "failed"}

(***************************************************************************)
(* No sequence of writes, splits among them, takes a revision to a shape   *)
(* that preflight checks for only because rows might come by another way:  *)
(* a dangling reference, a class without its own group, a split of one     *)
(* branch or of branches that differ, a lesson of a special activity.      *)
(***************************************************************************)
StructurallySound ==
    \A r \in live :
        LET t == tables[r]
        IN  /\ ~Dangling(t)
            /\ ~GroupCountMismatch(t) /\ ~NonOrdinaryRequirement(t) /\ ~NonClubBlock(t)
            /\ ~DegenerateSplit(t) /\ ~InconsistentSplit(t)

(***************************************************************************)
(* The names the code copies stay the ones they were copied from: a whole  *)
(* class group's is its class's, a reserved block's is its activity's, in  *)
(* every revision and whichever of the two is written last.                *)
(***************************************************************************)
DerivedNames ==
    \A r \in live :
        LET t == tables[r]
        IN  /\ \A g \in DOMAIN t.groups :
                t.groups[g].role = "WHOLE_CLASS" => t.groups[g].name = t.classes[t.groups[g].class]
            /\ \A i \in DOMAIN t.blocks :
                t.blocks[i].name = t.activities[t.blocks[i].activity].name

(***************************************************************************)
(* Until the first timetable no write fails after its validation: what the *)
(* rules call in use covers all that the foreign keys restrict, and each   *)
(* lookup finds one row.                                                   *)
(***************************************************************************)
SetupWritesSucceed == published = NULL => outcome = "done"

(***************************************************************************)
(* No write, whatever it looks up by year and natural id alone, changes a  *)
(* row of a revision that has been published.                              *)
(***************************************************************************)
PublishedTablesImmutable ==
    [][\A r \in live \ {draft} : tables'[r] = tables[r]]_vars

Collides(t) == ClassCollision(t) \/ TeacherCollision(t)

(***************************************************************************)
(* Comparing codes rather than errors lets a write repeat a fault that the *)
(* draft already has.  It lets in a first collision of two reserved blocks *)
(* only while gaps in the calendar or overlapping bell times end preflight *)
(* before it looks at blocks, in the draft as in the candidate.            *)
(***************************************************************************)
FirstCollisionHidden ==
    [][\A r \in live :
        tables'[r].blocks # tables[r].blocks /\ Collides(tables'[r]) =>
            Collides(tables[r]) \/ tables[r].calendar # "sound"]_vars
=============================================================================
