----------------------- MODULE ConfigurationTablesProofs -----------------------
(***************************************************************************)
(* What the configuration writers keep, for any natural ids, fields and    *)
(* number of revisions: every revision sound, published ones as they are,  *)
(* no failure until the first timetable, and no first collision of blocks. *)
(*                                                                         *)
(* Foreign keys, preflight's structural checks and the names that are      *)
(* copied come to one condition, Sound, on the rows of one revision.  The  *)
(* first part takes it through every form of write on these rows, the      *)
(* second shows which form each writer has.                                *)
(***************************************************************************)
EXTENDS ConfigurationTables, FiniteSetTheorems, TLAPS

Fields == {"teachers", "activities", "classes", "groups", "resources", "requirements",
           "exceptions", "blocks", "calendar"}

Typed(t) == DOMAIN t = Fields /\ IsTable(t) /\ IsFiniteSet(DOMAIN t.requirements)

\* A lesson has its teacher, group and resource, and is of an ordinary activity.
RequirementsResolve(t) ==
    \A i \in DOMAIN t.requirements :
        LET q == t.requirements[i]
        IN  /\ q.teacher \in t.teachers
            /\ q.activity \in DOMAIN t.activities /\ t.activities[q.activity].kind = "ORDINARY"
            /\ q.group \in DOMAIN t.groups
            /\ q.resource \in DOMAIN t.resources \union {None}

\* A block has what it names, and the name of its special activity.
BlocksResolve(t) ==
    \A i \in DOMAIN t.blocks :
        LET b == t.blocks[i]
        IN  /\ b.activity \in DOMAIN t.activities /\ t.activities[b.activity].kind = "CLUB"
            /\ b.name = t.activities[b.activity].name
            /\ b.classes \subseteq DOMAIN t.classes
            /\ b.teacher \in t.teachers \union {None}
            /\ b.resource \in DOMAIN t.resources \union {None}

ExceptionsResolve(t) == \A cell \in DOMAIN t.exceptions : cell[1] \in t.teachers

\* Every class has one group of the whole class, with the class's name.
GroupsResolve(t) ==
    /\ \A g \in DOMAIN t.groups :
           /\ t.groups[g].class \in DOMAIN t.classes
           /\ t.groups[g].role = "WHOLE_CLASS" => t.groups[g].name = t.classes[t.groups[g].class]
    /\ \A g, h \in DOMAIN t.groups :
           (t.groups[g].role = "WHOLE_CLASS" /\ t.groups[h].role = "WHOLE_CLASS"
               /\ t.groups[g].class = t.groups[h].class) => g = h
    /\ \A c \in DOMAIN t.classes : WholeClassGroups(t, c) # {}

\* A branch has another one beside it, and agrees with all of its split.
SplitsWhole(t) ==
    \A i \in DOMAIN t.requirements :
        LET x == t.requirements[i].split
        IN  x # None =>
                /\ \E j \in Branches(t, x) : j # i
                /\ \A j \in Branches(t, x) :
                       /\ t.requirements[j].periods = t.requirements[i].periods
                       /\ ClassOf(t, j) = ClassOf(t, i)

Sound(t) ==
    /\ Typed(t)
    /\ RequirementsResolve(t) /\ BlocksResolve(t) /\ ExceptionsResolve(t) /\ GroupsResolve(t)
    /\ SplitsWhole(t)

-----------------------------------------------------------------------------
(***************************************************************************)
(* What a sound revision promises: preflight's structural checks, and that *)
(* nothing restricts a deletion that the rules allow.                      *)
(***************************************************************************)
\* A reference comes from a lesson, a block or a group.
LEMMA ReferencedRows ==
    ASSUME NEW t, NEW ref \in Referenced(t)
    PROVE  \/ \E i \in DOMAIN t.requirements : ref \in RequirementRefs(t.requirements[i])
           \/ \E i \in DOMAIN t.blocks : ref \in BlockRefs(t.blocks[i])
           \/ \E g \in DOMAIN t.groups : ref = <<"classes", t.groups[g].class>>
  <1> DEFINE requirements == {RequirementRefs(t.requirements[i]) : i \in DOMAIN t.requirements}
             blocks == {BlockRefs(t.blocks[i]) : i \in DOMAIN t.blocks}
             groups == {<<"classes", t.groups[i].class>> : i \in DOMAIN t.groups}
  <1>1. \A S \in requirements : \E i \in DOMAIN t.requirements : S = RequirementRefs(t.requirements[i])
    OBVIOUS
  <1>2. \A S \in blocks : \E i \in DOMAIN t.blocks : S = BlockRefs(t.blocks[i])
    OBVIOUS
  <1>3. \A r \in groups : \E g \in DOMAIN t.groups : r = <<"classes", t.groups[g].class>>
    OBVIOUS
  <1>4. Referenced(t) = (UNION requirements) \union (UNION blocks) \union groups
    BY DEF Referenced
  <1> HIDE DEF requirements, blocks, groups
  <1>5. (\E S \in requirements : ref \in S) \/ (\E S \in blocks : ref \in S) \/ ref \in groups
    BY <1>4
  <1>6. CASE \E S \in requirements : ref \in S
    BY <1>1, <1>6
  <1>7. CASE \E S \in blocks : ref \in S
    BY <1>2, <1>7
  <1>8. CASE ref \in groups
    BY <1>3, <1>8
  <1> QED BY <1>5, <1>6, <1>7, <1>8

\* No reference dangles.
LEMMA SoundResolves ==
    ASSUME NEW t, Sound(t)
    PROVE  ~Dangling(t)
  <1>1. \A i \in DOMAIN t.requirements : \A ref \in RequirementRefs(t.requirements[i]) :
            ref[2] \in Ids(t, ref[1])
    BY DEF Sound, RequirementsResolve, RequirementRefs, Refs, Ids
  <1>2. \A i \in DOMAIN t.blocks : \A ref \in BlockRefs(t.blocks[i]) : ref[2] \in Ids(t, ref[1])
    BY DEF Sound, BlocksResolve, BlockRefs, Refs, Ids
  <1>3. \A g \in DOMAIN t.groups : t.groups[g].class \in Ids(t, "classes")
    BY DEF Sound, GroupsResolve, Ids
  <1>4. \A g \in DOMAIN t.groups :
            LET ref == <<"classes", t.groups[g].class>> IN ref[2] \in Ids(t, ref[1])
    BY <1>3
  <1>5. \A ref \in Referenced(t) : ref[2] \in Ids(t, ref[1])
    <2> SUFFICES ASSUME NEW ref \in Referenced(t) PROVE ref[2] \in Ids(t, ref[1])
      OBVIOUS
    <2> QED BY ReferencedRows, <1>1, <1>2, <1>4
  <1> QED BY <1>5 DEF Dangling, Sound, ExceptionsResolve

\* A class has one group, and a split two branches that agree.
LEMMA SoundShape ==
    ASSUME NEW t, Sound(t)
    PROVE  /\ ~GroupCountMismatch(t) /\ ~NonOrdinaryRequirement(t) /\ ~NonClubBlock(t)
           /\ ~DegenerateSplit(t) /\ ~InconsistentSplit(t)
  <1>1. ~GroupCountMismatch(t)
    <2> SUFFICES ASSUME NEW c \in DOMAIN t.classes
                 PROVE  Cardinality(WholeClassGroups(t, c)) = 1
      BY DEF GroupCountMismatch
    <2>1. PICK g : g \in WholeClassGroups(t, c)
      BY DEF Sound, GroupsResolve
    <2>2. WholeClassGroups(t, c) = {g}
      BY <2>1 DEF Sound, GroupsResolve, WholeClassGroups
    <2> QED BY <2>2, FS_Singleton
  <1>2. ~NonOrdinaryRequirement(t) /\ ~NonClubBlock(t)
    BY DEF Sound, RequirementsResolve, BlocksResolve, NonOrdinaryRequirement, NonClubBlock
  <1>3. ~DegenerateSplit(t)
    <2> SUFFICES ASSUME NEW x \in SplitId, Branches(t, x) # {}
                 PROVE  ~(Cardinality(Branches(t, x)) < 2)
      BY DEF DegenerateSplit, SplitsInUse
    <2>1. PICK i, j \in Branches(t, x) : i # j
      BY RowsAssumption DEF Branches, Sound, SplitsWhole
    <2>2. IsFiniteSet(Branches(t, x))
      BY FS_Subset DEF Branches, Sound, Typed
    <2>3. IsFiniteSet({i}) /\ Cardinality({i}) = 1 /\ j \notin {i}
      BY <2>1, FS_Singleton
    <2>4. Cardinality({i} \union {j}) = 2
      <3> DEFINE S == {i}
      <3>1. IsFiniteSet(S) /\ Cardinality(S) = 1 /\ j \notin S
        BY <2>3
      <3> HIDE DEF S
      <3>2. Cardinality(S \union {j}) = Cardinality(S) + 1
        BY <3>1, FS_AddElement
      <3> QED BY <3>1, <3>2 DEF S
    <2>5. {i} \union {j} \in SUBSET Branches(t, x)
      BY <2>1
    <2>6. Cardinality({i} \union {j}) <= Cardinality(Branches(t, x))
      BY <2>2, <2>5, FS_Subset
    <2>7. Cardinality(Branches(t, x)) \in Nat
      BY <2>2, FS_CardinalityType
    <2> QED BY <2>4, <2>6, <2>7
  <1>4. ~InconsistentSplit(t)
    BY RowsAssumption DEF InconsistentSplit, SplitsInUse, Branches, Sound, SplitsWhole
  <1> QED BY <1>1, <1>2, <1>3, <1>4

\* What the rules call unused, no foreign key points at.
LEMMA UnusedIsUnreferenced ==
    ASSUME NEW t, Sound(t), NEW id
    PROVE  /\ ~TeacherReferencedBy(t, id) => <<"teachers", id>> \notin Referenced(t)
           /\ ~SubjectReferencedBy(t, id) => <<"activities", id>> \notin Referenced(t)
           /\ ~ResourceReferencedBy(t, id) => <<"resources", id>> \notin Referenced(t)
  <1>1. ASSUME NEW table \in {"teachers", "activities", "resources"}, <<table, id>> \in Referenced(t)
        PROVE  \/ \E i \in DOMAIN t.requirements : <<table, id>> \in RequirementRefs(t.requirements[i])
               \/ \E i \in DOMAIN t.blocks : <<table, id>> \in BlockRefs(t.blocks[i])
    BY <1>1, ReferencedRows
  <1>2. ASSUME NEW q, NEW table, <<table, id>> \in RequirementRefs(q)
        PROVE  /\ table = "teachers" => id = q.teacher
               /\ table = "activities" => id = q.activity
               /\ table = "resources" => id = q.resource
    BY <1>2 DEF RequirementRefs, Refs
  <1>3. ASSUME NEW b, NEW table, <<table, id>> \in BlockRefs(b)
        PROVE  /\ table = "teachers" => id = b.teacher
               /\ table = "activities" => id = b.activity
               /\ table = "resources" => id = b.resource
    BY <1>3 DEF BlockRefs, Refs
  <1>4. <<"teachers", id>> \in Referenced(t) => TeacherReferencedBy(t, id)
    BY <1>1, <1>2, <1>3 DEF TeacherReferencedBy
  <1>5. <<"activities", id>> \in Referenced(t) => SubjectReferencedBy(t, id)
    BY <1>1, <1>2, <1>3 DEF SubjectReferencedBy, BlocksUse
  <1>6. <<"resources", id>> \in Referenced(t) => ResourceReferencedBy(t, id)
    BY <1>1, <1>2, <1>3 DEF ResourceReferencedBy
  <1> QED BY <1>4, <1>5, <1>6

\* The same of a class and of its group.
LEMMA UnusedClassIsUnreferenced ==
    ASSUME NEW t, Sound(t), NEW id \in DOMAIN t.classes, ~ClassReferencedBy(t, id)
    PROVE  /\ <<"groups", Canonical(t, id)>> \notin Referenced(t)
           /\ <<"classes", id>> \notin Referenced([t EXCEPT !.groups = Drop(@, {Canonical(t, id)})])
  <1> DEFINE group == Canonical(t, id)
             u == [t EXCEPT !.groups = Drop(@, {group})]
  <1>1. group \in WholeClassGroups(t, id)
    BY DEF Sound, GroupsResolve, Canonical
  <1>2. u.groups = Drop(t.groups, {group}) /\ u.requirements = t.requirements /\ u.blocks = t.blocks
    BY DEF Sound, Typed, Fields
  <1>3. /\ \A i \in DOMAIN t.requirements : t.requirements[i].group # group
        /\ \A i \in DOMAIN t.blocks : id \notin t.blocks[i].classes
        /\ \A g \in DOMAIN t.groups : t.groups[g].role = "SUBGROUP" => t.groups[g].class # id
    BY DEF ClassReferencedBy
  <1> HIDE DEF u, group
  <1>4. <<"groups", group>> \notin Referenced(t)
    <2> SUFFICES ASSUME <<"groups", group>> \in Referenced(t) PROVE FALSE
      OBVIOUS
    <2>1. ~\E i \in DOMAIN t.requirements : <<"groups", group>> \in RequirementRefs(t.requirements[i])
      BY <1>3 DEF RequirementRefs, Refs
    <2>2. ~\E i \in DOMAIN t.blocks : <<"groups", group>> \in BlockRefs(t.blocks[i])
      BY DEF BlockRefs, Refs
    <2> QED BY <2>1, <2>2, ReferencedRows
  <1>5. <<"classes", id>> \notin Referenced(u)
    <2> SUFFICES ASSUME <<"classes", id>> \in Referenced(u) PROVE FALSE
      OBVIOUS
    <2>1. ~\E i \in DOMAIN t.requirements : <<"classes", id>> \in RequirementRefs(t.requirements[i])
      BY DEF RequirementRefs, Refs
    <2>2. ~\E i \in DOMAIN t.blocks : <<"classes", id>> \in BlockRefs(t.blocks[i])
      BY <1>3 DEF BlockRefs, Refs
    <2>3. PICK g \in DOMAIN u.groups : <<"classes", id>> = <<"classes", u.groups[g].class>>
      BY <1>2, <2>1, <2>2, ReferencedRows
    <2>4. g \in DOMAIN t.groups /\ g # group /\ u.groups[g] = t.groups[g] /\ t.groups[g].class = id
      BY <1>2, <2>3 DEF Drop
    <2> QED BY <1>1, <1>3, <2>4 DEF Sound, Typed, IsTable, Range, GroupsResolve, WholeClassGroups
  <1> QED BY <1>4, <1>5 DEF u, group

\* A write keeps what it does not touch: lessons and blocks resolve while the
\* rows they name stay, and groups and splits while they are the same.
LEMMA SameRows ==
    ASSUME NEW t, Sound(t), NEW u,
           t.teachers \subseteq u.teachers, DOMAIN t.resources \subseteq DOMAIN u.resources,
           \A a \in DOMAIN t.activities :
               a \in DOMAIN u.activities /\ u.activities[a] = t.activities[a]
    PROVE  /\ u.requirements = t.requirements /\ DOMAIN t.groups \subseteq DOMAIN u.groups =>
                  RequirementsResolve(u)
           /\ u.blocks = t.blocks /\ DOMAIN t.classes \subseteq DOMAIN u.classes =>
                  BlocksResolve(u)
           /\ u.exceptions = t.exceptions => ExceptionsResolve(u)
  <1>1. u.requirements = t.requirements /\ DOMAIN t.groups \subseteq DOMAIN u.groups =>
            RequirementsResolve(u)
    BY DEF Sound, RequirementsResolve
  <1>2. u.blocks = t.blocks /\ DOMAIN t.classes \subseteq DOMAIN u.classes => BlocksResolve(u)
    BY DEF Sound, BlocksResolve
  <1>3. u.exceptions = t.exceptions => ExceptionsResolve(u)
    BY DEF Sound, ExceptionsResolve
  <1> QED BY <1>1, <1>2, <1>3

LEMMA SameGroups ==
    ASSUME NEW t, Sound(t), NEW u, u.groups = t.groups
    PROVE  /\ u.classes = t.classes => GroupsResolve(u)
           /\ u.requirements = t.requirements => SplitsWhole(u)
  <1>1. u.classes = t.classes => GroupsResolve(u)
    BY DEF Sound, GroupsResolve, WholeClassGroups
  <1>2. u.requirements = t.requirements => SplitsWhole(u)
    <2> SUFFICES ASSUME u.requirements = t.requirements PROVE SplitsWhole(u)
      OBVIOUS
    <2>1. \A x : Branches(u, x) = Branches(t, x)
      BY DEF Branches
    <2>2. \A i : ClassOf(u, i) = ClassOf(t, i)
      BY DEF ClassOf
    <2> QED BY <2>1, <2>2 DEF Sound, SplitsWhole
  <1> QED BY <1>1, <1>2

-----------------------------------------------------------------------------
(***************************************************************************)
(* One lemma per form of write.  The rows stay sound, and a write brings   *)
(* reserved blocks to a first collision only behind a faulty calendar.     *)
(***************************************************************************)
NoFirstCollision(t, u) == u.blocks # t.blocks /\ Collides(u) => Collides(t) \/ t.calendar # "sound"

Becomes(t, u) == Sound(u) /\ NoFirstCollision(t, u)

\* A new teacher.
LEMMA TeacherAdded ==
    ASSUME NEW t, Sound(t),
           NEW id \in TeacherId
    PROVE  Becomes(t, [t EXCEPT !.teachers = @ \union {id}])
  <1> DEFINE u == [t EXCEPT !.teachers = @ \union {id}]
  <1>1. /\ DOMAIN u = Fields /\ u.teachers = t.teachers \union {id}
        /\ u.activities = t.activities /\ u.classes = t.classes /\ u.groups = t.groups
        /\ u.resources = t.resources /\ u.requirements = t.requirements
        /\ u.exceptions = t.exceptions /\ u.blocks = t.blocks /\ u.calendar = t.calendar
    BY DEF Sound, Typed, Fields
  <1> SUFFICES Becomes(t, u)
    OBVIOUS
  <1> HIDE DEF u
  <1>2. Typed(u)
    BY <1>1 DEF Sound, Typed, IsTable
  <1>3. RequirementsResolve(u) /\ BlocksResolve(u) /\ ExceptionsResolve(u)
    BY <1>1, SameRows
  <1>4. GroupsResolve(u) /\ SplitsWhole(u)
    BY <1>1, SameGroups
  <1> QED BY <1>1, <1>2, <1>3, <1>4 DEF Becomes, NoFirstCollision, Sound

\* A teacher that no lesson and no block names goes with the unavailabilities.
LEMMA TeacherDropped ==
    ASSUME NEW t, Sound(t),
           NEW id, ~TeacherReferencedBy(t, id)
    PROVE  Becomes(t, CascadeTeacher(t, id))
  <1> DEFINE u == CascadeTeacher(t, id)
  <1>1. /\ DOMAIN u = Fields /\ u.teachers = t.teachers \ {id}
        /\ u.activities = t.activities /\ u.classes = t.classes /\ u.groups = t.groups
        /\ u.resources = t.resources /\ u.requirements = t.requirements
        /\ u.blocks = t.blocks /\ u.calendar = t.calendar
        /\ u.exceptions = Drop(t.exceptions, {id} \X Slot)
    BY DEF Sound, Typed, Fields, CascadeTeacher
  <1> SUFFICES Becomes(t, u)
    OBVIOUS
  <1> HIDE DEF u
  <1>2. /\ DOMAIN u.exceptions = DOMAIN t.exceptions \ ({id} \X Slot)
        /\ \A i \in DOMAIN u.exceptions : u.exceptions[i] = t.exceptions[i]
        /\ Range(u.exceptions) \subseteq Range(t.exceptions)
    BY <1>1 DEF Drop, Range
  <1>3. Typed(u)
    BY <1>1, <1>2 DEF Sound, Typed, IsTable
  <1>4. RequirementsResolve(u) /\ BlocksResolve(u) /\ ExceptionsResolve(u)
    <2>1. RequirementsResolve(u)
      BY <1>1 DEF Sound, RequirementsResolve, TeacherReferencedBy
    <2>2. BlocksResolve(u)
      BY <1>1 DEF Sound, BlocksResolve, TeacherReferencedBy
    <2>3. ExceptionsResolve(u)
      BY <1>1, <1>2 DEF Sound, ExceptionsResolve, Typed, IsTable
    <2> QED BY <2>1, <2>2, <2>3
  <1>5. GroupsResolve(u) /\ SplitsWhole(u)
    BY <1>1, SameGroups
  <1> QED BY <1>1, <1>3, <1>4, <1>5 DEF Becomes, NoFirstCollision, Sound

\* A new subject or special activity.
LEMMA ActivityAdded ==
    ASSUME NEW t, Sound(t),
           NEW id \in ActivityId, id \notin DOMAIN t.activities,
           NEW kind \in {"ORDINARY", "CLUB"}, NEW name \in Name
    PROVE  Becomes(t, [t EXCEPT !.activities = Put(@, id, [kind |-> kind, name |-> name])])
  <1> DEFINE u == [t EXCEPT !.activities = Put(@, id, [kind |-> kind, name |-> name])]
  <1>1. /\ DOMAIN u = Fields /\ u.teachers = t.teachers /\ u.classes = t.classes
        /\ u.groups = t.groups /\ u.resources = t.resources
        /\ u.requirements = t.requirements /\ u.exceptions = t.exceptions
        /\ u.blocks = t.blocks /\ u.calendar = t.calendar
        /\ u.activities = Put(t.activities, id, [kind |-> kind, name |-> name])
    BY DEF Sound, Typed, Fields
  <1> SUFFICES Becomes(t, u)
    OBVIOUS
  <1> HIDE DEF u
  <1>2. /\ DOMAIN u.activities = DOMAIN t.activities \union {id}
        /\ u.activities[id] = [kind |-> kind, name |-> name]
        /\ \A i \in DOMAIN t.activities : i # id => u.activities[i] = t.activities[i]
        /\ Range(u.activities) \subseteq Range(t.activities) \union {[kind |-> kind, name |-> name]}
    BY <1>1 DEF Put, Range
  <1>3. Typed(u)
    BY <1>1, <1>2 DEF Sound, Typed, IsTable
  <1>4. RequirementsResolve(u) /\ BlocksResolve(u) /\ ExceptionsResolve(u)
    BY <1>1, <1>2, SameRows
  <1>5. GroupsResolve(u) /\ SplitsWhole(u)
    BY <1>1, SameGroups
  <1> QED BY <1>1, <1>3, <1>4, <1>5 DEF Becomes, NoFirstCollision, Sound

\* An activity that no lesson and no block names.
LEMMA ActivityDropped ==
    ASSUME NEW t, Sound(t),
           NEW id, ~SubjectReferencedBy(t, id)
    PROVE  Becomes(t, WithoutActivity(t, id))
  <1> DEFINE u == WithoutActivity(t, id)
  <1>1. /\ DOMAIN u = Fields /\ u.teachers = t.teachers
        /\ u.activities = Drop(t.activities, {id}) /\ u.classes = t.classes
        /\ u.groups = t.groups /\ u.resources = t.resources
        /\ u.requirements = t.requirements /\ u.exceptions = t.exceptions
        /\ u.blocks = t.blocks /\ u.calendar = t.calendar
    BY DEF Sound, Typed, Fields, WithoutActivity
  <1> SUFFICES Becomes(t, u)
    OBVIOUS
  <1> HIDE DEF u
  <1>2. /\ DOMAIN u.activities = DOMAIN t.activities \ {id}
        /\ \A i \in DOMAIN u.activities : u.activities[i] = t.activities[i]
        /\ Range(u.activities) \subseteq Range(t.activities)
    BY <1>1 DEF Drop, Range
  <1>3. \A i \in DOMAIN t.blocks :
            /\ t.blocks[i].activity \in DOMAIN u.activities
            /\ u.activities[t.blocks[i].activity] = t.activities[t.blocks[i].activity]
    BY <1>2 DEF Sound, BlocksResolve, SubjectReferencedBy, BlocksUse
  <1>4. Typed(u)
    BY <1>1, <1>2 DEF Sound, Typed, IsTable
  <1>5. RequirementsResolve(u)
    <2>1. \A i \in DOMAIN t.requirements : t.requirements[i].activity # id
      BY DEF SubjectReferencedBy
    <2>2. RequirementsResolve(t)
      BY DEF Sound
    <2>3. \A i \in DOMAIN t.requirements :
              /\ t.requirements[i].activity \in DOMAIN u.activities
              /\ u.activities[t.requirements[i].activity].kind = "ORDINARY"
      BY <1>2, <2>1, <2>2 DEF RequirementsResolve
    <2> QED BY <1>1, <2>2, <2>3 DEF RequirementsResolve
  <1>6. BlocksResolve(u)
    <2>1. BlocksResolve(t)
      BY DEF Sound
    <2>2. /\ u.blocks = t.blocks /\ u.classes = t.classes
          /\ u.teachers = t.teachers /\ u.resources = t.resources
      BY <1>1
    <2> QED BY <1>3, <2>1, <2>2 DEF BlocksResolve
  <1>7. ExceptionsResolve(u)
    BY <1>1, <1>2 DEF Sound, ExceptionsResolve
  <1>8. GroupsResolve(u) /\ SplitsWhole(u)
    BY <1>1, SameGroups
  <1> QED BY <1>1, <1>4, <1>5, <1>6, <1>7, <1>8 DEF Becomes, NoFirstCollision, Sound

\* A new resource.
LEMMA ResourceAdded ==
    ASSUME NEW t, Sound(t),
           NEW id \in ResourceId, id \notin DOMAIN t.resources,
           NEW capacity \in Capacity
    PROVE  Becomes(t, [t EXCEPT !.resources = Put(@, id, capacity)])
  <1> DEFINE u == [t EXCEPT !.resources = Put(@, id, capacity)]
  <1>1. /\ DOMAIN u = Fields /\ u.teachers = t.teachers /\ u.activities = t.activities
        /\ u.classes = t.classes /\ u.groups = t.groups
        /\ u.requirements = t.requirements /\ u.exceptions = t.exceptions
        /\ u.blocks = t.blocks /\ u.calendar = t.calendar
        /\ u.resources = Put(t.resources, id, capacity)
    BY DEF Sound, Typed, Fields
  <1> SUFFICES Becomes(t, u)
    OBVIOUS
  <1> HIDE DEF u
  <1>2. /\ DOMAIN u.resources = DOMAIN t.resources \union {id}
        /\ u.resources[id] = capacity
        /\ \A i \in DOMAIN t.resources : i # id => u.resources[i] = t.resources[i]
        /\ Range(u.resources) \subseteq Range(t.resources) \union {capacity}
    BY <1>1 DEF Put, Range
  <1>3. Typed(u)
    BY <1>1, <1>2 DEF Sound, Typed, IsTable
  <1>4. RequirementsResolve(u) /\ BlocksResolve(u) /\ ExceptionsResolve(u)
    BY <1>1, <1>2, SameRows
  <1>5. GroupsResolve(u) /\ SplitsWhole(u)
    BY <1>1, SameGroups
  <1> QED BY <1>1, <1>3, <1>4, <1>5 DEF Becomes, NoFirstCollision, Sound

\* A resource's capacity.
LEMMA ResourceChanged ==
    ASSUME NEW t, Sound(t),
           NEW id \in DOMAIN t.resources,
           NEW capacity \in Capacity
    PROVE  Becomes(t, [t EXCEPT !.resources[id] = capacity])
  <1> DEFINE u == [t EXCEPT !.resources[id] = capacity]
  <1>1. /\ DOMAIN u = Fields /\ u.teachers = t.teachers /\ u.activities = t.activities
        /\ u.classes = t.classes /\ u.groups = t.groups
        /\ u.requirements = t.requirements /\ u.exceptions = t.exceptions
        /\ u.blocks = t.blocks /\ u.calendar = t.calendar
        /\ u.resources = [t.resources EXCEPT ![id] = capacity]
    BY DEF Sound, Typed, Fields
  <1> SUFFICES Becomes(t, u)
    OBVIOUS
  <1> HIDE DEF u
  <1>2. /\ DOMAIN u.resources = DOMAIN t.resources
        /\ Range(u.resources) \subseteq Range(t.resources) \union {capacity}
    BY <1>1 DEF Range
  <1>3. Typed(u)
    BY <1>1, <1>2 DEF Sound, Typed, IsTable
  <1>4. RequirementsResolve(u) /\ BlocksResolve(u) /\ ExceptionsResolve(u)
    BY <1>1, <1>2, SameRows
  <1>5. GroupsResolve(u) /\ SplitsWhole(u)
    BY <1>1, SameGroups
  <1> QED BY <1>1, <1>3, <1>4, <1>5 DEF Becomes, NoFirstCollision, Sound

\* A resource that no lesson and no block uses.
LEMMA ResourceDropped ==
    ASSUME NEW t, Sound(t),
           NEW id, ~ResourceReferencedBy(t, id)
    PROVE  Becomes(t, [t EXCEPT !.resources = Drop(@, {id})])
  <1> DEFINE u == [t EXCEPT !.resources = Drop(@, {id})]
  <1>1. /\ DOMAIN u = Fields /\ u.teachers = t.teachers /\ u.activities = t.activities
        /\ u.classes = t.classes /\ u.groups = t.groups
        /\ u.resources = Drop(t.resources, {id}) /\ u.requirements = t.requirements
        /\ u.exceptions = t.exceptions /\ u.blocks = t.blocks /\ u.calendar = t.calendar
    BY DEF Sound, Typed, Fields
  <1> SUFFICES Becomes(t, u)
    OBVIOUS
  <1> HIDE DEF u
  <1>2. /\ DOMAIN u.resources = DOMAIN t.resources \ {id}
        /\ \A i \in DOMAIN u.resources : u.resources[i] = t.resources[i]
        /\ Range(u.resources) \subseteq Range(t.resources)
    BY <1>1 DEF Drop, Range
  <1>3. Typed(u)
    BY <1>1, <1>2 DEF Sound, Typed, IsTable
  <1>4. RequirementsResolve(u)
    BY <1>1, <1>2 DEF Sound, RequirementsResolve, ResourceReferencedBy
  <1>5. BlocksResolve(u)
    BY <1>1, <1>2 DEF Sound, BlocksResolve, ResourceReferencedBy
  <1>6. ExceptionsResolve(u)
    BY <1>1, <1>2 DEF Sound, ExceptionsResolve
  <1>7. GroupsResolve(u) /\ SplitsWhole(u)
    BY <1>1, SameGroups
  <1> QED BY <1>1, <1>3, <1>4, <1>5, <1>6, <1>7 DEF Becomes, NoFirstCollision, Sound

\* What the calendar's writers leave.
LEMMA CalendarMarked ==
    ASSUME NEW t, Sound(t),
           NEW b \in CalendarState
    PROVE  Becomes(t, [t EXCEPT !.calendar = b])
  <1> DEFINE u == [t EXCEPT !.calendar = b]
  <1>1. /\ DOMAIN u = Fields /\ u.teachers = t.teachers /\ u.activities = t.activities
        /\ u.classes = t.classes /\ u.groups = t.groups /\ u.resources = t.resources
        /\ u.requirements = t.requirements /\ u.exceptions = t.exceptions
        /\ u.blocks = t.blocks /\ u.calendar = b
    BY DEF Sound, Typed, Fields
  <1> SUFFICES Becomes(t, u)
    OBVIOUS
  <1> HIDE DEF u
  <1>2. Typed(u)
    BY <1>1 DEF Sound, Typed, IsTable
  <1>3. RequirementsResolve(u) /\ BlocksResolve(u) /\ ExceptionsResolve(u)
    BY <1>1, SameRows
  <1>4. GroupsResolve(u) /\ SplitsWhole(u)
    BY <1>1, SameGroups
  <1> QED BY <1>1, <1>2, <1>3, <1>4 DEF Becomes, NoFirstCollision, Sound

\* A subject's name, which no block copies.
LEMMA SubjectRenamed ==
    ASSUME NEW t, Sound(t),
           NEW id \in DOMAIN t.activities, t.activities[id].kind = "ORDINARY",
           NEW name \in Name
    PROVE  Becomes(t, [t EXCEPT !.activities[id].name = name])
  <1> DEFINE u == [t EXCEPT !.activities[id].name = name]
  <1>1. /\ DOMAIN u = Fields /\ u.teachers = t.teachers /\ u.classes = t.classes
        /\ u.groups = t.groups /\ u.resources = t.resources
        /\ u.requirements = t.requirements /\ u.exceptions = t.exceptions
        /\ u.blocks = t.blocks /\ u.calendar = t.calendar
        /\ u.activities = [t.activities EXCEPT ![id] = [t.activities[id] EXCEPT !.name = name]]
    BY DEF Sound, Typed, Fields
  <1> SUFFICES Becomes(t, u)
    OBVIOUS
  <1> HIDE DEF u
  <1>2. /\ DOMAIN u.activities = DOMAIN t.activities
        /\ u.activities[id] = [kind |-> "ORDINARY", name |-> name]
        /\ \A i \in DOMAIN t.activities \ {id} : u.activities[i] = t.activities[i]
        /\ Range(u.activities) \subseteq Range(t.activities) \union {u.activities[id]}
    BY <1>1 DEF Sound, Typed, IsTable, Range
  <1>3. Typed(u)
    BY <1>1, <1>2 DEF Sound, Typed, IsTable
  <1>4. RequirementsResolve(u)
    BY <1>1, <1>2 DEF Sound, RequirementsResolve
  <1>5. BlocksResolve(u)
    BY <1>1, <1>2 DEF Sound, BlocksResolve
  <1>6. ExceptionsResolve(u)
    BY <1>1, <1>2 DEF Sound, ExceptionsResolve
  <1>7. GroupsResolve(u) /\ SplitsWhole(u)
    BY <1>1, SameGroups
  <1> QED BY <1>1, <1>3, <1>4, <1>5, <1>6, <1>7 DEF Becomes, NoFirstCollision, Sound

\* A special activity's name, and its blocks' with it.
LEMMA SpecialActivityRenamed ==
    ASSUME NEW t, Sound(t),
           NEW id \in DOMAIN t.activities, t.activities[id].kind = "CLUB",
           NEW name \in Name
    PROVE  Becomes(t, [t EXCEPT
                !.activities[id].name = name,
                !.blocks = [i \in DOMAIN @ |->
                    IF @[i].activity = id THEN [@[i] EXCEPT !.name = name] ELSE @[i]]])
  <1> DEFINE u == [t EXCEPT
                !.activities[id].name = name,
                !.blocks = [i \in DOMAIN @ |->
                    IF @[i].activity = id THEN [@[i] EXCEPT !.name = name] ELSE @[i]]]
  <1>1. /\ DOMAIN u = Fields /\ u.teachers = t.teachers /\ u.classes = t.classes
        /\ u.groups = t.groups /\ u.resources = t.resources
        /\ u.requirements = t.requirements /\ u.exceptions = t.exceptions
        /\ u.calendar = t.calendar
        /\ u.activities = [t.activities EXCEPT ![id] = [t.activities[id] EXCEPT !.name = name]]
        /\ u.blocks = [i \in DOMAIN t.blocks |->
                IF t.blocks[i].activity = id THEN [t.blocks[i] EXCEPT !.name = name] ELSE t.blocks[i]]
    BY DEF Sound, Typed, Fields
  <1> SUFFICES Becomes(t, u)
    OBVIOUS
  <1> HIDE DEF u
  <1>2. /\ DOMAIN u.activities = DOMAIN t.activities
        /\ u.activities[id] = [kind |-> "CLUB", name |-> name]
        /\ \A i \in DOMAIN t.activities \ {id} : u.activities[i] = t.activities[i]
        /\ Range(u.activities) \subseteq Range(t.activities) \union {u.activities[id]}
    BY <1>1 DEF Sound, Typed, IsTable, Range
  <1>3. /\ DOMAIN u.blocks = DOMAIN t.blocks
        /\ \A i \in DOMAIN t.blocks : u.blocks[i] =
                IF t.blocks[i].activity = id THEN [t.blocks[i] EXCEPT !.name = name] ELSE t.blocks[i]
    BY <1>1
  <1>4. \A i \in DOMAIN t.blocks : t.blocks[i] \in
            [activity : ActivityId, name : Name, classes : (SUBSET ClassId) \ {{}},
             teacher : TeacherId \union {None}, slots : (SUBSET Slot) \ {{}},
             resource : ResourceId \union {None}]
    BY DEF Sound, Typed, IsTable, Range
  <1>5. \A i \in DOMAIN t.blocks : u.blocks[i] \in
            [activity : ActivityId, name : Name, classes : (SUBSET ClassId) \ {{}},
             teacher : TeacherId \union {None}, slots : (SUBSET Slot) \ {{}},
             resource : ResourceId \union {None}]
    <2> TAKE i \in DOMAIN t.blocks
    <2>1. CASE t.blocks[i].activity = id
      <3>1. u.blocks[i] = [t.blocks[i] EXCEPT !.name = name]
        BY <1>3, <2>1
      <3> QED BY <1>4, <3>1
    <2>2. CASE t.blocks[i].activity # id
      BY <1>3, <1>4, <2>2
    <2> QED BY <2>1, <2>2
  <1>6. Range(u.blocks) \subseteq
            [activity : ActivityId, name : Name, classes : (SUBSET ClassId) \ {{}},
             teacher : TeacherId \union {None}, slots : (SUBSET Slot) \ {{}},
             resource : ResourceId \union {None}]
    BY <1>3, <1>5 DEF Range
  <1>7. Typed(u)
    BY <1>1, <1>2, <1>6 DEF Sound, Typed, IsTable
  <1>8. RequirementsResolve(u)
    BY <1>1, <1>2 DEF Sound, RequirementsResolve
  <1>9. BlocksResolve(u)
    <2>1. \A i \in DOMAIN t.blocks :
            /\ u.blocks[i].activity = t.blocks[i].activity
            /\ u.blocks[i].teacher = t.blocks[i].teacher
            /\ u.blocks[i].classes = t.blocks[i].classes
            /\ u.blocks[i].resource = t.blocks[i].resource
            /\ u.blocks[i].name = IF t.blocks[i].activity = id THEN name ELSE t.blocks[i].name
      <3> TAKE i \in DOMAIN t.blocks
      <3>1. CASE t.blocks[i].activity = id
        <4>1. u.blocks[i] = [t.blocks[i] EXCEPT !.name = name]
          BY <1>3, <3>1
        <4> QED BY <1>4, <3>1, <4>1
      <3>2. CASE t.blocks[i].activity # id
        BY <1>3, <3>2
      <3> QED BY <3>1, <3>2
    <2>2. \A i \in DOMAIN t.blocks :
            /\ u.activities[t.blocks[i].activity].name =
                  IF t.blocks[i].activity = id THEN name ELSE t.blocks[i].name
            /\ u.activities[t.blocks[i].activity].kind = "CLUB"
      BY <1>2 DEF Sound, BlocksResolve
    <2>3. ASSUME NEW i \in DOMAIN u.blocks
          PROVE  LET b == u.blocks[i]
                 IN  /\ b.activity \in DOMAIN u.activities /\ u.activities[b.activity].kind = "CLUB"
                     /\ b.name = u.activities[b.activity].name
                     /\ b.classes \subseteq DOMAIN u.classes
                     /\ b.teacher \in u.teachers \union {None}
                     /\ b.resource \in DOMAIN u.resources \union {None}
      <3>1. i \in DOMAIN t.blocks
        BY <1>3
      <3>2. /\ t.blocks[i].activity \in DOMAIN u.activities
            /\ t.blocks[i].classes \subseteq DOMAIN u.classes
            /\ t.blocks[i].teacher \in u.teachers \union {None}
            /\ t.blocks[i].resource \in DOMAIN u.resources \union {None}
        BY <1>1, <1>2, <3>1 DEF Sound, BlocksResolve
      <3> QED BY <2>1, <2>2, <3>1, <3>2
    <2> QED BY <2>3 DEF BlocksResolve
  <1>10. ExceptionsResolve(u)
    BY <1>1, <1>2 DEF Sound, ExceptionsResolve
  <1>11. GroupsResolve(u) /\ SplitsWhole(u)
    BY <1>1, SameGroups
  <1>12. Collides(u) => Collides(t)
    <2>1. \A i \in DOMAIN t.blocks : /\ u.blocks[i].slots = t.blocks[i].slots
                                     /\ u.blocks[i].classes = t.blocks[i].classes
                                     /\ u.blocks[i].teacher = t.blocks[i].teacher
      BY <1>3, <1>4
    <2> QED BY <1>3, <2>1 DEF Collides, ClassCollision, TeacherCollision, Meet
  <1> QED BY <1>7, <1>8, <1>9, <1>10, <1>11, <1>12 DEF Becomes, NoFirstCollision, Sound

\* A new class, with the group of all its pupils.
LEMMA ClassAdded ==
    ASSUME NEW t, Sound(t),
           NEW id \in ClassId, id \notin DOMAIN t.classes,
           NEW g \in GroupId, g \notin DOMAIN t.groups,
           NEW name \in Name
    PROVE  Becomes(t, [t EXCEPT
                !.classes = Put(@, id, name),
                !.groups = Put(@, g, [role |-> "WHOLE_CLASS", class |-> id, name |-> name])])
  <1> DEFINE u == [t EXCEPT
                !.classes = Put(@, id, name),
                !.groups = Put(@, g, [role |-> "WHOLE_CLASS", class |-> id, name |-> name])]
  <1>1. /\ DOMAIN u = Fields /\ u.teachers = t.teachers /\ u.activities = t.activities
        /\ u.classes = Put(t.classes, id, name) /\ u.resources = t.resources
        /\ u.requirements = t.requirements /\ u.exceptions = t.exceptions
        /\ u.blocks = t.blocks /\ u.calendar = t.calendar
        /\ u.groups = Put(t.groups, g, [role |-> "WHOLE_CLASS", class |-> id, name |-> name])
    BY DEF Sound, Typed, Fields
  <1> SUFFICES Becomes(t, u)
    OBVIOUS
  <1> HIDE DEF u
  <1>2. /\ DOMAIN u.classes = DOMAIN t.classes \union {id}
        /\ u.classes[id] = name
        /\ \A i \in DOMAIN t.classes : u.classes[i] = t.classes[i]
        /\ Range(u.classes) \subseteq Range(t.classes) \union {name}
    BY <1>1 DEF Put, Range
  <1>3. /\ DOMAIN u.groups = DOMAIN t.groups \union {g}
        /\ u.groups[g] = [role |-> "WHOLE_CLASS", class |-> id, name |-> name]
        /\ \A i \in DOMAIN t.groups : u.groups[i] = t.groups[i]
        /\ Range(u.groups) \subseteq Range(t.groups) \union {u.groups[g]}
    <2>1. /\ DOMAIN u.groups = DOMAIN t.groups \union {g}
          /\ u.groups[g] = [role |-> "WHOLE_CLASS", class |-> id, name |-> name]
          /\ \A i \in DOMAIN t.groups : u.groups[i] = t.groups[i]
      BY <1>1 DEF Put
    <2> QED BY <2>1 DEF Range
  <1>4. Typed(u)
    BY <1>1, <1>2, <1>3 DEF Sound, Typed, IsTable
  <1>5. RequirementsResolve(u)
    BY <1>1, <1>2, <1>3 DEF Sound, RequirementsResolve
  <1>6. BlocksResolve(u)
    BY <1>1, <1>2, <1>3 DEF Sound, BlocksResolve
  <1>7. ExceptionsResolve(u)
    BY <1>1, <1>2, <1>3 DEF Sound, ExceptionsResolve
  <1>8. GroupsResolve(u)
    BY <1>1, <1>2, <1>3 DEF Sound, GroupsResolve, WholeClassGroups
  <1>9. SplitsWhole(u)
    BY <1>1, <1>2, <1>3 DEF Sound, SplitsWhole, Branches, ClassOf, RequirementsResolve
  <1> QED BY <1>1, <1>4, <1>5, <1>6, <1>7, <1>8, <1>9 DEF Becomes, NoFirstCollision, Sound

\* A class's name, and its group's with it.
LEMMA ClassRenamed ==
    ASSUME NEW t, Sound(t),
           NEW id \in DOMAIN t.classes, NEW g \in WholeClassGroups(t, id),
           NEW name \in Name
    PROVE  Becomes(t, [t EXCEPT !.classes[id] = name, !.groups[g].name = name])
  <1> DEFINE u == [t EXCEPT !.classes[id] = name, !.groups[g].name = name]
  <1>1. /\ DOMAIN u = Fields /\ u.teachers = t.teachers /\ u.activities = t.activities
        /\ u.resources = t.resources /\ u.requirements = t.requirements
        /\ u.exceptions = t.exceptions /\ u.blocks = t.blocks /\ u.calendar = t.calendar
        /\ u.classes = [t.classes EXCEPT ![id] = name]
        /\ u.groups = [t.groups EXCEPT ![g] = [t.groups[g] EXCEPT !.name = name]]
    BY DEF Sound, Typed, Fields
  <1> SUFFICES Becomes(t, u)
    OBVIOUS
  <1> HIDE DEF u
  <1>2. /\ DOMAIN u.classes = DOMAIN t.classes
        /\ u.classes[id] = name
        /\ \A i \in DOMAIN t.classes \ {id} : u.classes[i] = t.classes[i]
        /\ Range(u.classes) \subseteq Range(t.classes) \union {name}
    BY <1>1 DEF Range
  <1>3. /\ g \in DOMAIN t.groups /\ DOMAIN u.groups = DOMAIN t.groups
        /\ u.groups[g] = [role |-> "WHOLE_CLASS", class |-> id, name |-> name]
        /\ \A i \in DOMAIN t.groups \ {g} : u.groups[i] = t.groups[i]
        /\ Range(u.groups) \subseteq Range(t.groups) \union {u.groups[g]}
    BY <1>1 DEF Sound, Typed, IsTable, Range, WholeClassGroups
  <1>4. \A i \in DOMAIN t.groups :
            u.groups[i].role = t.groups[i].role /\ u.groups[i].class = t.groups[i].class
    BY <1>3 DEF WholeClassGroups
  <1>5. Typed(u)
    BY <1>1, <1>2, <1>3, <1>4 DEF Sound, Typed, IsTable
  <1>6. RequirementsResolve(u)
    BY <1>1, <1>2, <1>3, <1>4 DEF Sound, RequirementsResolve
  <1>7. BlocksResolve(u)
    BY <1>1, <1>2, <1>3, <1>4 DEF Sound, BlocksResolve
  <1>8. ExceptionsResolve(u)
    BY <1>1, <1>2, <1>3, <1>4 DEF Sound, ExceptionsResolve
  <1>9. GroupsResolve(u)
    <2>1. GroupsResolve(t)
      BY DEF Sound
    <2>2. \A c : WholeClassGroups(u, c) = WholeClassGroups(t, c)
      BY <1>3, <1>4 DEF WholeClassGroups
    <2>3. \A i \in DOMAIN t.groups :
              t.groups[i].role = "WHOLE_CLASS" /\ t.groups[i].class = id => i = g
      BY <2>1 DEF GroupsResolve, WholeClassGroups
    <2>4. \A i \in DOMAIN u.groups :
              u.groups[i].role = "WHOLE_CLASS" => u.groups[i].name = u.classes[u.groups[i].class]
      BY <1>2, <1>3, <1>4, <2>1, <2>3 DEF GroupsResolve
    <2> QED BY <1>2, <1>3, <1>4, <2>1, <2>2, <2>4 DEF GroupsResolve
  <1>10. SplitsWhole(u)
    <2>1. SplitsWhole(t) /\ RequirementsResolve(t)
      BY DEF Sound
    <2>2. \A x : Branches(u, x) = Branches(t, x)
      BY <1>1 DEF Branches
    <2>3. \A i \in DOMAIN t.requirements : ClassOf(u, i) = ClassOf(t, i)
      BY <1>1, <1>4, <2>1 DEF ClassOf, RequirementsResolve
    <2>4. \A x : Branches(t, x) \subseteq DOMAIN t.requirements
      BY DEF Branches
    <2> QED BY <1>1, <2>1, <2>2, <2>3, <2>4 DEF SplitsWhole
  <1> QED BY <1>1, <1>5, <1>6, <1>7, <1>8, <1>9, <1>10 DEF Becomes, NoFirstCollision, Sound

\* A class that nothing names, with its group.
LEMMA ClassDropped ==
    ASSUME NEW t, Sound(t),
           NEW id \in DOMAIN t.classes, ~ClassReferencedBy(t, id)
    PROVE  Becomes(t, [t EXCEPT !.groups = Drop(@, {Canonical(t, id)}), !.classes = Drop(@, {id})])
  <1> DEFINE group == Canonical(t, id)
             u == [t EXCEPT !.groups = Drop(@, {group}), !.classes = Drop(@, {id})]
  <1>1. /\ DOMAIN u = Fields /\ u.teachers = t.teachers /\ u.activities = t.activities
        /\ u.classes = Drop(t.classes, {id}) /\ u.groups = Drop(t.groups, {group})
        /\ u.resources = t.resources /\ u.requirements = t.requirements
        /\ u.exceptions = t.exceptions /\ u.blocks = t.blocks /\ u.calendar = t.calendar
    BY DEF Sound, Typed, Fields
  <1>2. group \in WholeClassGroups(t, id)
    BY DEF Sound, GroupsResolve, Canonical
  <1>3. \A i \in DOMAIN t.requirements : t.requirements[i].group # group
    BY DEF ClassReferencedBy
  <1> SUFFICES Becomes(t, u)
    OBVIOUS
  <1> HIDE DEF u, group
  <1>4. /\ DOMAIN u.classes = DOMAIN t.classes \ {id}
        /\ \A i \in DOMAIN u.classes : u.classes[i] = t.classes[i]
        /\ Range(u.classes) \subseteq Range(t.classes)
    BY <1>1 DEF Drop, Range
  <1>5. /\ DOMAIN u.groups = DOMAIN t.groups \ {group}
        /\ \A g \in DOMAIN u.groups : u.groups[g] = t.groups[g]
        /\ Range(u.groups) \subseteq Range(t.groups)
    BY <1>1 DEF Drop, Range
  <1>6. \A g \in DOMAIN u.groups : u.groups[g].class # id
    BY <1>2, <1>5 DEF Sound, Typed, IsTable, Range, GroupsResolve, WholeClassGroups, ClassReferencedBy
  <1>7. \A i \in DOMAIN t.requirements :
            /\ t.requirements[i].group \in DOMAIN u.groups
            /\ u.groups[t.requirements[i].group] = t.groups[t.requirements[i].group]
    BY <1>3, <1>5 DEF Sound, RequirementsResolve
  <1>8. \A c \in DOMAIN u.classes : WholeClassGroups(u, c) # {}
    <2> SUFFICES ASSUME NEW c \in DOMAIN u.classes
                 PROVE  WholeClassGroups(u, c) # {}
      OBVIOUS
    <2>1. PICK g \in DOMAIN t.groups : t.groups[g].role = "WHOLE_CLASS" /\ t.groups[g].class = c
      BY <1>4 DEF Sound, GroupsResolve, WholeClassGroups
    <2>2. g # group
      BY <2>1, <1>2, <1>4 DEF WholeClassGroups
    <2> QED BY <2>1, <2>2, <1>5 DEF WholeClassGroups
  <1>9. Typed(u)
    BY <1>1, <1>4, <1>5 DEF Sound, Typed, IsTable
  <1>10. RequirementsResolve(u) /\ ExceptionsResolve(u)
    BY <1>1, <1>7 DEF Sound, RequirementsResolve, ExceptionsResolve
  <1>11. BlocksResolve(u)
    BY <1>1, <1>4 DEF Sound, BlocksResolve, ClassReferencedBy
  <1>12. GroupsResolve(u)
    BY <1>4, <1>5, <1>6, <1>8 DEF Sound, GroupsResolve
  <1>13. SplitsWhole(u)
    <2>1. \A i \in DOMAIN t.requirements : ClassOf(u, i) = ClassOf(t, i)
      BY <1>1, <1>7 DEF ClassOf
    <2>2. \A x : Branches(u, x) = Branches(t, x) /\ Branches(t, x) \subseteq DOMAIN t.requirements
      BY <1>1 DEF Branches
    <2> QED BY <1>1, <2>1, <2>2 DEF Sound, SplitsWhole
  <1> QED BY <1>1, <1>9, <1>10, <1>11, <1>12, <1>13 DEF Becomes, NoFirstCollision, Sound

\* A plain requirement, new or in the place of another plain one.
LEMMA RequirementWritten ==
    ASSUME NEW t, Sound(t),
           NEW id \in RequirementId, id \in DOMAIN t.requirements => t.requirements[id].split = None,
           NEW q \in Assignments(t)
    PROVE  Becomes(t, WithRequirement(t, id, q))
  <1> DEFINE u == WithRequirement(t, id, q)
  <1>1. /\ DOMAIN u = Fields /\ u.teachers = t.teachers /\ u.activities = t.activities
        /\ u.classes = t.classes /\ u.groups = t.groups /\ u.resources = t.resources
        /\ u.requirements = Put(t.requirements, id, q)
        /\ u.exceptions = t.exceptions /\ u.blocks = t.blocks /\ u.calendar = t.calendar
    BY DEF Sound, Typed, Fields, WithRequirement
  <1> SUFFICES Becomes(t, u)
    OBVIOUS
  <1> HIDE DEF u
  <1>2. /\ DOMAIN u.requirements = DOMAIN t.requirements \union {id}
        /\ u.requirements[id] = q
        /\ \A i \in DOMAIN t.requirements : i # id => u.requirements[i] = t.requirements[i]
        /\ Range(u.requirements) \subseteq Range(t.requirements) \union {q}
    BY <1>1 DEF Put, Range
  <1>3. q \in [teacher : TeacherId, activity : ActivityId, group : GroupId, periods : Load,
               resource : ResourceId \union {None}, split : SplitId \union {None}]
    BY DEF Sound, Typed, IsTable, Assignments
  <1>4. IsFiniteSet(DOMAIN u.requirements)
    BY <1>2, FS_AddElement DEF Sound, Typed
  <1>5. Typed(u)
    BY <1>1, <1>2, <1>3, <1>4 DEF Sound, Typed, IsTable
  <1>6. RequirementsResolve(u)
    BY <1>1, <1>2 DEF Sound, RequirementsResolve, Assignments
  <1>7. BlocksResolve(u) /\ ExceptionsResolve(u) /\ GroupsResolve(u)
    BY <1>1, SameRows, SameGroups
  <1>8. q.split = None
    BY DEF Assignments
  <1>9. \A x : x # None => Branches(u, x) = Branches(t, x)
    BY <1>2, <1>8 DEF Branches
  <1>10. \A i \in DOMAIN u.requirements :
            u.requirements[i].split # None => i \in DOMAIN t.requirements /\ i # id
    BY <1>2, <1>8
  <1>11. SplitsWhole(u)
    <2>1. SplitsWhole(t)
      BY DEF Sound
    <2>2. \A i \in DOMAIN t.requirements \ {id} :
              u.requirements[i] = t.requirements[i] /\ ClassOf(u, i) = ClassOf(t, i)
      BY <1>1, <1>2 DEF ClassOf
    <2>3. \A x : x # None => Branches(t, x) \subseteq DOMAIN t.requirements \ {id}
      BY <1>2, <1>9, <1>10 DEF Branches
    <2> QED BY <1>9, <1>10, <2>1, <2>2, <2>3 DEF SplitsWhole
  <1> QED BY <1>1, <1>5, <1>6, <1>7, <1>11 DEF Becomes, NoFirstCollision, Sound

\* A plain requirement goes.
LEMMA RequirementDropped ==
    ASSUME NEW t, Sound(t),
           NEW id \in DOMAIN t.requirements, t.requirements[id].split = None
    PROVE  Becomes(t, WithoutRequirement(t, id))
  <1> DEFINE u == WithoutRequirement(t, id)
  <1>1. /\ DOMAIN u = Fields /\ u.teachers = t.teachers /\ u.activities = t.activities
        /\ u.classes = t.classes /\ u.groups = t.groups /\ u.resources = t.resources
        /\ u.requirements = Drop(t.requirements, {id})
        /\ u.exceptions = t.exceptions /\ u.blocks = t.blocks /\ u.calendar = t.calendar
    BY DEF Sound, Typed, Fields, WithoutRequirement
  <1> SUFFICES Becomes(t, u)
    OBVIOUS
  <1> HIDE DEF u
  <1>2. /\ DOMAIN u.requirements = DOMAIN t.requirements \ {id}
        /\ \A i \in DOMAIN u.requirements : u.requirements[i] = t.requirements[i]
        /\ Range(u.requirements) \subseteq Range(t.requirements)
    BY <1>1 DEF Drop, Range
  <1>3. IsFiniteSet(DOMAIN u.requirements)
    BY <1>2, FS_RemoveElement DEF Sound, Typed
  <1>4. Typed(u)
    BY <1>1, <1>2, <1>3 DEF Sound, Typed, IsTable
  <1>5. RequirementsResolve(u)
    BY <1>1, <1>2 DEF Sound, RequirementsResolve
  <1>6. BlocksResolve(u) /\ ExceptionsResolve(u) /\ GroupsResolve(u)
    BY <1>1, SameRows, SameGroups
  <1>7. \A x : x # None => Branches(u, x) = Branches(t, x)
    BY <1>2 DEF Branches
  <1>8. SplitsWhole(u)
    <2>1. \A i \in DOMAIN u.requirements : ClassOf(u, i) = ClassOf(t, i)
      BY <1>1, <1>2 DEF ClassOf
    <2>2. \A x : Branches(u, x) \subseteq DOMAIN u.requirements
      BY DEF Branches
    <2> QED BY <1>2, <1>7, <2>1, <2>2 DEF Sound, SplitsWhole
  <1> QED BY <1>1, <1>4, <1>5, <1>6, <1>8 DEF Becomes, NoFirstCollision, Sound

\* A reserved block, new or in the place of another one.
LEMMA BlockWritten ==
    ASSUME NEW t, Sound(t),
           NEW id \in BlockId, NEW fields \in ReservedFields(t), Reservable(t, id, fields)
    PROVE  Becomes(t, WithBlock(t, id, fields))
  <1> DEFINE b == BlockOf(t, fields)
             u == WithBlock(t, id, fields)
  <1>1. /\ DOMAIN u = Fields /\ u.teachers = t.teachers /\ u.activities = t.activities
        /\ u.classes = t.classes /\ u.groups = t.groups /\ u.resources = t.resources
        /\ u.requirements = t.requirements /\ u.exceptions = t.exceptions
        /\ u.blocks = Put(t.blocks, id, b) /\ u.calendar = t.calendar
    BY DEF Sound, Typed, Fields, WithBlock
  <1>2. /\ b.activity \in DOMAIN t.activities /\ t.activities[b.activity].kind = "CLUB"
        /\ b.name = t.activities[b.activity].name
        /\ b.classes \subseteq DOMAIN t.classes
        /\ b.teacher \in t.teachers \union {None}
        /\ b.resource \in DOMAIN t.resources \union {None}
    BY DEF BlockOf, ReservedFields
  <1>3. t.activities[fields.activity].name \in Name
    BY DEF Sound, Typed, IsTable, Range, ReservedFields
  <1>4. b \in [activity : ActivityId, name : Name, classes : (SUBSET ClassId) \ {{}},
               teacher : TeacherId \union {None}, slots : (SUBSET Slot) \ {{}},
               resource : ResourceId \union {None}]
    BY <1>3 DEF Sound, Typed, IsTable, BlockOf, ReservedFields
  <1> SUFFICES Becomes(t, u)
    OBVIOUS
  <1> HIDE DEF u, b
  <1>5. /\ DOMAIN u.blocks = DOMAIN t.blocks \union {id}
        /\ u.blocks[id] = b
        /\ \A i \in DOMAIN t.blocks : i # id => u.blocks[i] = t.blocks[i]
        /\ Range(u.blocks) \subseteq Range(t.blocks) \union {b}
    BY <1>1 DEF Put, Range
  <1>6. Typed(u)
    BY <1>1, <1>4, <1>5 DEF Sound, Typed, IsTable
  <1>7. RequirementsResolve(u) /\ ExceptionsResolve(u)
    BY <1>1 DEF Sound, RequirementsResolve, ExceptionsResolve
  <1>8. BlocksResolve(u)
    BY <1>1, <1>2, <1>5 DEF Sound, BlocksResolve
  <1>9. GroupsResolve(u) /\ SplitsWhole(u)
    BY <1>1, SameGroups
  <1>10. Sound(u)
    BY <1>6, <1>7, <1>8, <1>9 DEF Sound
  <1>11. NoFirstCollision(t, u)
    <2>1. \A code \in BlockCodes : Reports(u, code) => Reports(t, code)
      BY DEF Reservable, Adds, u
    <2>2. \A code : t.calendar = "sound" => (Reports(u, code) <=> Found(u, code))
                              /\ (Reports(t, code) <=> Found(t, code))
      BY <1>1, <1>10, SoundResolves DEF Reports, BellTimesOverlap
    <2>3. \A v : /\ Found(v, "RESERVED_BLOCK_CLASS_SLOT_COLLISION") <=> ClassCollision(v)
                 /\ Found(v, "RESERVED_BLOCK_TEACHER_SLOT_COLLISION") <=> TeacherCollision(v)
      BY DEF Found
    <2>4. /\ "RESERVED_BLOCK_CLASS_SLOT_COLLISION" \in BlockCodes
          /\ "RESERVED_BLOCK_TEACHER_SLOT_COLLISION" \in BlockCodes
      BY DEF BlockCodes
    <2> QED BY <2>1, <2>2, <2>3, <2>4 DEF NoFirstCollision, Collides
  <1> QED BY <1>10, <1>11 DEF Becomes

\* A reserved block goes.
LEMMA BlockDropped ==
    ASSUME NEW t, Sound(t), NEW id
    PROVE  Becomes(t, [t EXCEPT !.blocks = Drop(@, {id})])
  <1> DEFINE u == [t EXCEPT !.blocks = Drop(@, {id})]
  <1>1. /\ DOMAIN u = Fields /\ u.teachers = t.teachers /\ u.activities = t.activities
        /\ u.classes = t.classes /\ u.groups = t.groups /\ u.resources = t.resources
        /\ u.requirements = t.requirements /\ u.exceptions = t.exceptions
        /\ u.blocks = Drop(t.blocks, {id}) /\ u.calendar = t.calendar
    BY DEF Sound, Typed, Fields
  <1> SUFFICES Becomes(t, u)
    OBVIOUS
  <1> HIDE DEF u
  <1>2. /\ DOMAIN u.blocks = DOMAIN t.blocks \ {id}
        /\ \A i \in DOMAIN u.blocks : u.blocks[i] = t.blocks[i]
        /\ Range(u.blocks) \subseteq Range(t.blocks)
    BY <1>1 DEF Drop, Range
  <1>3. Typed(u)
    BY <1>1, <1>2 DEF Sound, Typed, IsTable
  <1>4. RequirementsResolve(u) /\ ExceptionsResolve(u)
    BY <1>1 DEF Sound, RequirementsResolve, ExceptionsResolve
  <1>5. BlocksResolve(u)
    BY <1>1, <1>2 DEF Sound, BlocksResolve
  <1>6. GroupsResolve(u) /\ SplitsWhole(u)
    BY <1>1, SameGroups
  <1>7. Collides(u) => Collides(t)
    BY <1>2 DEF Collides, ClassCollision, TeacherCollision, Meet
  <1> QED BY <1>3, <1>4, <1>5, <1>6, <1>7 DEF Becomes, NoFirstCollision, Sound

\* A split: two new subgroups of a class and a new requirement for each.
LEMMA SplitWritten ==
    ASSUME NEW t, Sound(t), NEW class \in DOMAIN t.classes,
           NEW a, NEW b, {a, b} \subseteq
                [teacher : t.teachers,
                 activity : {i \in DOMAIN t.activities : t.activities[i].kind = "ORDINARY"},
                 periods : Load],
           a.periods = b.periods,
           NEW split \in SplitId, Branches(t, split) = {},
           NEW groupA \in GroupId \ DOMAIN t.groups, NEW groupB \in GroupId \ DOMAIN t.groups,
           NEW rowA \in RequirementId \ DOMAIN t.requirements,
           NEW rowB \in RequirementId \ DOMAIN t.requirements,
           groupA # groupB, rowA # rowB,
           NEW subgroup, subgroup = [role |-> "SUBGROUP", class |-> class, name |-> None]
    PROVE  Becomes(t, [t EXCEPT
                !.groups = Put(Put(@, groupA, subgroup), groupB, subgroup),
                !.requirements = Put(Put(@, rowA, Branch(a, groupA, split)),
                                     rowB, Branch(b, groupB, split))])
  <1> DEFINE qa == Branch(a, groupA, split)
             qb == Branch(b, groupB, split)
             u == [t EXCEPT !.groups = Put(Put(@, groupA, subgroup), groupB, subgroup),
                            !.requirements = Put(Put(@, rowA, qa), rowB, qb)]
  <1>1. /\ DOMAIN u = Fields /\ u.teachers = t.teachers /\ u.activities = t.activities
        /\ u.classes = t.classes /\ u.resources = t.resources
        /\ u.groups = Put(Put(t.groups, groupA, subgroup), groupB, subgroup)
        /\ u.requirements = Put(Put(t.requirements, rowA, qa), rowB, qb)
        /\ u.exceptions = t.exceptions /\ u.blocks = t.blocks /\ u.calendar = t.calendar
    BY DEF Sound, Typed, Fields
  <1>2. /\ {qa, qb} \subseteq
            [teacher : t.teachers, activity : DOMAIN t.activities, group : GroupId, periods : Load,
             resource : {None}, split : {split}]
        /\ qa.group = groupA /\ qb.group = groupB /\ qa.periods = qb.periods
        /\ t.activities[qa.activity].kind = "ORDINARY" /\ t.activities[qb.activity].kind = "ORDINARY"
    BY DEF Branch
  <1> SUFFICES Becomes(t, u)
    OBVIOUS
  <1> HIDE DEF u, qa, qb
  <1>3. /\ DOMAIN u.groups = DOMAIN t.groups \union {groupA, groupB}
        /\ u.groups[groupA] = subgroup /\ u.groups[groupB] = subgroup
        /\ \A g \in DOMAIN t.groups : u.groups[g] = t.groups[g]
        /\ Range(u.groups) \subseteq Range(t.groups) \union {subgroup}
    <2> DEFINE one == Put(t.groups, groupA, subgroup)
    <2>1. /\ DOMAIN one = DOMAIN t.groups \union {groupA} /\ one[groupA] = subgroup
          /\ \A g \in DOMAIN t.groups : one[g] = t.groups[g]
      BY DEF Put
    <2>2. u.groups = Put(one, groupB, subgroup)
      BY <1>1
    <2> HIDE DEF one
    <2>3. /\ DOMAIN u.groups = DOMAIN one \union {groupB} /\ u.groups[groupB] = subgroup
          /\ \A g \in DOMAIN one : g # groupB => u.groups[g] = one[g]
      BY <2>2 DEF Put
    <2> QED BY <2>1, <2>3 DEF Range
  <1>4. /\ DOMAIN u.requirements = DOMAIN t.requirements \union {rowA, rowB}
        /\ u.requirements[rowA] = qa /\ u.requirements[rowB] = qb
        /\ \A i \in DOMAIN t.requirements : u.requirements[i] = t.requirements[i]
        /\ Range(u.requirements) \subseteq Range(t.requirements) \union {qa, qb}
    <2> DEFINE one == Put(t.requirements, rowA, qa)
    <2>1. /\ DOMAIN one = DOMAIN t.requirements \union {rowA} /\ one[rowA] = qa
          /\ \A i \in DOMAIN t.requirements : one[i] = t.requirements[i]
      BY DEF Put
    <2>2. u.requirements = Put(one, rowB, qb)
      BY <1>1
    <2> HIDE DEF one
    <2>3. /\ DOMAIN u.requirements = DOMAIN one \union {rowB} /\ u.requirements[rowB] = qb
          /\ \A i \in DOMAIN one : i # rowB => u.requirements[i] = one[i]
      BY <2>2 DEF Put
    <2> QED BY <2>1, <2>3 DEF Range
  <1>5. IsFiniteSet(DOMAIN u.requirements)
    <2>1. IsFiniteSet(DOMAIN t.requirements \union {rowA})
      BY FS_AddElement DEF Sound, Typed
    <2>2. IsFiniteSet((DOMAIN t.requirements \union {rowA}) \union {rowB})
      BY <2>1, FS_AddElement
    <2>3. DOMAIN u.requirements = (DOMAIN t.requirements \union {rowA}) \union {rowB}
      BY <1>4
    <2> QED BY <2>2, <2>3
  <1>6. Typed(u)
    <2>1. subgroup \in [role : {"WHOLE_CLASS", "SUBGROUP"}, class : ClassId, name : Name \union {None}]
      BY DEF Sound, Typed, IsTable
    <2>2. {qa, qb} \subseteq
            [teacher : TeacherId, activity : ActivityId, group : GroupId, periods : Load,
             resource : ResourceId \union {None}, split : SplitId \union {None}]
      BY <1>2 DEF Sound, Typed, IsTable
    <2> QED BY <1>1, <1>3, <1>4, <1>5, <2>1, <2>2 DEF Sound, Typed, IsTable
  <1>7. RequirementsResolve(u)
    BY <1>1, <1>2, <1>3, <1>4 DEF Sound, RequirementsResolve
  <1>8. BlocksResolve(u) /\ ExceptionsResolve(u)
    BY <1>1, SameRows
  <1>9. GroupsResolve(u)
    <2>1. \A g \in DOMAIN u.groups : u.groups[g].class \in DOMAIN t.classes
                /\ (u.groups[g].role = "WHOLE_CLASS" => g \in DOMAIN t.groups)
      BY <1>3 DEF Sound, GroupsResolve
    <2>2. \A c : WholeClassGroups(t, c) \subseteq WholeClassGroups(u, c)
      BY <1>3 DEF WholeClassGroups
    <2> QED BY <1>1, <1>3, <2>1, <2>2 DEF Sound, GroupsResolve
  <1>10. SplitsWhole(u)
    <2>1. Branches(u, split) = {rowA, rowB} /\ u.requirements[rowA].split = split
            /\ u.requirements[rowB].split = split
      BY <1>2, <1>4 DEF Branches
    <2>2. \A x : x # split => Branches(u, x) = Branches(t, x)
      BY <1>2, <1>4 DEF Branches
    <2>3. \A i \in DOMAIN t.requirements : ClassOf(u, i) = ClassOf(t, i)
      BY <1>3, <1>4 DEF ClassOf, Sound, RequirementsResolve
    <2>4. ClassOf(u, rowA) = class /\ ClassOf(u, rowB) = class
      BY <1>2, <1>3, <1>4 DEF ClassOf
    <2> SUFFICES ASSUME NEW i \in DOMAIN u.requirements, u.requirements[i].split # None
                 PROVE  LET x == u.requirements[i].split
                        IN  /\ \E j \in Branches(u, x) : j # i
                            /\ \A j \in Branches(u, x) :
                                   /\ u.requirements[j].periods = u.requirements[i].periods
                                   /\ ClassOf(u, j) = ClassOf(u, i)
      BY DEF SplitsWhole
    <2>5. CASE i \in {rowA, rowB}
      BY <2>1, <2>4, <2>5, <1>2, <1>4
    <2>6. CASE i \in DOMAIN t.requirements
      <3>1. u.requirements[i] = t.requirements[i] /\ u.requirements[i].split # split
        BY <1>4, <2>6 DEF Branches
      <3>2. \A x : Branches(t, x) \subseteq DOMAIN t.requirements
        BY DEF Branches
      <3> QED BY <2>2, <2>3, <2>6, <3>1, <3>2, <1>4 DEF Sound, SplitsWhole
    <2> QED BY <2>5, <2>6, <1>4
  <1> QED BY <1>1, <1>6, <1>7, <1>8, <1>9, <1>10 DEF Becomes, NoFirstCollision, Sound

\* A revision without rows.
LEMMA EmptySound == Sound(Empty)
  <1>1. /\ DOMAIN Empty = Fields /\ Empty.teachers = {} /\ Empty.calendar = "sound"
        /\ Empty.activities = NoRows /\ Empty.classes = NoRows /\ Empty.groups = NoRows
        /\ Empty.resources = NoRows /\ Empty.requirements = NoRows
        /\ Empty.exceptions = NoRows /\ Empty.blocks = NoRows
    BY DEF Empty, Fields
  <1>2. DOMAIN NoRows = {} /\ Range(NoRows) = {}
    BY DEF NoRows, Range
  <1>3. Typed(Empty)
    BY <1>1, <1>2, FS_EmptySet DEF Typed, IsTable, CalendarState
  <1> QED BY <1>1, <1>2, <1>3
      DEF Sound, RequirementsResolve, BlocksResolve, ExceptionsResolve, GroupsResolve, SplitsWhole

\* A teacher's unavailabilities become the given ones.
LEMMA ExceptionsWritten ==
    ASSUME NEW t, Sound(t), NEW teacher \in t.teachers,
           NEW cells \in SUBSET Slot, NEW given \in [cells -> Status],
           NEW others, others = {cell \in DOMAIN t.exceptions : cell[1] # teacher}
    PROVE  Becomes(t, [t EXCEPT !.exceptions =
                [cell \in others \union Cells(teacher, given) |->
                    IF cell[1] = teacher THEN given[cell[2]] ELSE t.exceptions[cell]]])
  <1> DEFINE all == others \union Cells(teacher, given)
             e == [cell \in all |-> IF cell[1] = teacher THEN given[cell[2]] ELSE t.exceptions[cell]]
             u == [t EXCEPT !.exceptions = e]
  <1>1. /\ DOMAIN u = Fields /\ u.teachers = t.teachers /\ u.activities = t.activities
        /\ u.classes = t.classes /\ u.groups = t.groups /\ u.resources = t.resources
        /\ u.requirements = t.requirements /\ u.exceptions = e
        /\ u.blocks = t.blocks /\ u.calendar = t.calendar
    BY DEF Sound, Typed, Fields
  <1>2. \A cell \in Cells(teacher, given) :
            cell \in TeacherId \X Slot /\ cell[1] = teacher /\ cell[2] \in cells
    BY DEF Cells, Sound, Typed, IsTable
  <1>3. \A cell \in others : cell \in TeacherId \X Slot /\ cell[1] # teacher /\ cell[1] \in t.teachers
    BY DEF Sound, Typed, IsTable, ExceptionsResolve
  <1>4. \A cell \in others : t.exceptions[cell] \in Status
    BY DEF Sound, Typed, IsTable, Range
  <1>5. DOMAIN e = all /\ \A cell \in all : e[cell] \in Status
    BY <1>2, <1>3, <1>4
  <1>6. all \subseteq TeacherId \X Slot /\ \A cell \in all : cell[1] \in t.teachers
    BY <1>2, <1>3
  <1> SUFFICES Becomes(t, u)
    OBVIOUS
  <1> HIDE DEF u, e, all
  <1>7. Typed(u)
    BY <1>1, <1>5, <1>6 DEF Sound, Typed, IsTable, Range
  <1>8. RequirementsResolve(u) /\ BlocksResolve(u)
    BY <1>1 DEF Sound, RequirementsResolve, BlocksResolve
  <1>9. ExceptionsResolve(u)
    BY <1>1, <1>5, <1>6 DEF ExceptionsResolve
  <1>10. GroupsResolve(u) /\ SplitsWhole(u)
    BY <1>1, SameGroups
  <1> QED BY <1>1, <1>7, <1>8, <1>9, <1>10 DEF Becomes, NoFirstCollision, Sound

-----------------------------------------------------------------------------
(***************************************************************************)
(* The revisions a year points at exist and are two: a row of the draft is *)
(* no row of what is published.                                            *)
(***************************************************************************)
RevisionsInPlace ==
    /\ live \subseteq RevisionId
    /\ DOMAIN tables = RevisionId /\ tables = [r \in RevisionId |-> tables[r]]
    /\ draft \in live \union {NULL}
    /\ published \in live \union {NULL}
    /\ draft = NULL => published # NULL
    /\ published # NULL => draft # published

(***************************************************************************)
(* The inductive invariant: sound revisions, and before the first          *)
(* timetable one revision, so that every lookup by year finds its row.     *)
(***************************************************************************)
ConfigurationInv ==
    /\ RevisionsInPlace
    /\ \A r \in RevisionId : Sound(tables[r])
    /\ outcome \in {"done", "failed"}
    /\ published = NULL => live = {draft} /\ outcome = "done"

OnlyDraftWritten == \A r \in live \ {draft} : tables'[r] = tables[r]

\* What every writer does: fail, beside a published revision, or write the draft.
WritesDraft ==
    /\ UNCHANGED lifecycle
    /\ \/ outcome' = "failed" /\ published # NULL /\ tables' = tables
       \/ /\ outcome' = "done" /\ draft # NULL
          /\ \E t : Becomes(tables[draft], t) /\ tables' = [tables EXCEPT ![draft] = t]

-----------------------------------------------------------------------------
\* The draft is one of the sound revisions.
LEMMA DraftIsSound ==
    ASSUME ConfigurationInv, draft # NULL
    PROVE  draft \in live /\ draft \in RevisionId /\ Sound(tables[draft])
  BY DEF ConfigurationInv, RevisionsInPlace

\* A row that the draft has and no other revision is found in the draft.
LEMMA HolderIsTheDraft ==
    ASSUME ConfigurationInv, draft # NULL, NEW table, NEW id,
           id \in Ids(tables[draft], table), Unique(table, id)
    PROVE  Holder(table, id) = draft
  BY DraftIsSound DEF Holder, Unique

\* Lookups by year alone are ambiguous only beside a published revision.
LEMMA AmbiguousBesidePublished ==
    ASSUME ConfigurationInv, draft # NULL
    PROVE  /\ \A table, id : ~Unique(table, id) => published # NULL
           /\ \A refs : MayMisresolve(refs) => published # NULL
           /\ live # {draft} => published # NULL
  BY DEF ConfigurationInv, Unique, MayMisresolve

\* A minted id is new to the draft.
LEMMA MintedIsNew ==
    ASSUME ConfigurationInv, draft # NULL, NEW table, NEW ids, Unused(table, ids) # {}
    PROVE  Minted(table, ids) \in ids /\ Minted(table, ids) \notin Ids(tables[draft], table)
  BY DraftIsSound DEF Minted, Unused

\* The two ways of a write: rows of the draft, or a row that is looked up.
LEMMA DraftInserted ==
    ASSUME draft # NULL, NEW t, Becomes(tables[draft], t), Insert(t)
    PROVE  WritesDraft
  BY DEF Insert, Succeed, WritesDraft

\* A row looked up by the year is the draft's if the lookup is unique; else the
\* write is refused, and that only beside a published revision.
LEMMA RowWritten ==
    ASSUME ConfigurationInv, draft # NULL, NEW table, NEW id, NEW t, Becomes(tables[draft], t),
           \/ Unique(table, id) /\ tables' = [tables EXCEPT ![draft] = t] /\ Succeed
           \/ ~Unique(table, id) /\ Fail
    PROVE  WritesDraft
  BY AmbiguousBesidePublished DEF WritesDraft, Succeed, Fail

\* A write that the database turns down.
LEMMA WriteRefused ==
    ASSUME Fail, published # NULL
    PROVE  WritesDraft
  BY DEF Fail, WritesDraft

-----------------------------------------------------------------------------
(***************************************************************************)
(* One lemma per writer: what its validation and the form of its write     *)
(* make of the draft.                                                      *)
(***************************************************************************)
\* New rows.
LEMMA CreateTeacherWritesDraft ==
    ASSUME ConfigurationInv, CreateTeacher
    PROVE  WritesDraft
  <1> DEFINE id == Minted("teachers", TeacherId)
  <1>1. /\ draft # NULL /\ Unused("teachers", TeacherId) # {}
        /\ Insert([tables[draft] EXCEPT !.teachers = @ \union {id}])
    BY Zenon DEF CreateTeacher
  <1>2. id \in TeacherId
    BY <1>1, MintedIsNew
  <1> HIDE DEF id
  <1> QED BY <1>1, <1>2, DraftIsSound, TeacherAdded, DraftInserted

\* ReplaceExceptions writes the draft, if anything, and leaves it sound.
LEMMA ReplaceExceptionsWritesDraft ==
    ASSUME ConfigurationInv, NEW teacher, NEW cells \in SUBSET Slot, NEW given \in [cells -> Status],
           ReplaceExceptions(teacher, given)
    PROVE  WritesDraft
  <1> DEFINE t == tables[draft]
             others == {cell \in DOMAIN t.exceptions : cell[1] # teacher}
             u == [t EXCEPT !.exceptions =
                    [cell \in others \union Cells(teacher, given) |->
                        IF cell[1] = teacher THEN given[cell[2]] ELSE t.exceptions[cell]]]
  <1>1. draft # NULL /\ teacher \in t.teachers /\ Insert(u)
    BY Zenon DEF ReplaceExceptions
  <1>2. Becomes(t, u)
    BY <1>1, DraftIsSound, ExceptionsWritten
  <1> HIDE DEF u
  <1> QED BY <1>1, <1>2, DraftInserted

\* CreateActivity writes the draft, if anything, and leaves it sound.
LEMMA CreateActivityWritesDraft ==
    ASSUME ConfigurationInv, NEW kind \in {"ORDINARY", "CLUB"}, NEW name \in Name,
           CreateActivity(kind, name)
    PROVE  WritesDraft
  <1> DEFINE id == Minted("activities", ActivityId)
  <1>1. /\ draft # NULL /\ Unused("activities", ActivityId) # {}
        /\ Insert([tables[draft] EXCEPT !.activities = Put(@, id, [kind |-> kind, name |-> name])])
    BY Zenon DEF CreateActivity
  <1>2. id \in ActivityId /\ id \notin DOMAIN tables[draft].activities
    BY <1>1, MintedIsNew DEF Ids
  <1> HIDE DEF id
  <1> QED BY <1>1, <1>2, DraftIsSound, ActivityAdded, DraftInserted

\* CreateClass writes the draft, if anything, and leaves it sound.
LEMMA CreateClassWritesDraft ==
    ASSUME ConfigurationInv, NEW name \in Name, CreateClass(name)
    PROVE  WritesDraft
  <1> DEFINE class == Minted("classes", ClassId)
             group == Minted("groups", GroupId)
  <1>1. /\ draft # NULL /\ Unused("classes", ClassId) # {} /\ Unused("groups", GroupId) # {}
        /\ Insert([tables[draft] EXCEPT
                !.classes = Put(@, class, name),
                !.groups = Put(@, group, [role |-> "WHOLE_CLASS", class |-> class, name |-> name])])
    BY Zenon DEF CreateClass
  <1>2. class \in ClassId /\ class \notin DOMAIN tables[draft].classes
    BY <1>1, MintedIsNew DEF Ids
  <1>3. group \in GroupId /\ group \notin DOMAIN tables[draft].groups
    BY <1>1, MintedIsNew DEF Ids
  <1> HIDE DEF class, group
  <1> QED BY <1>1, <1>2, <1>3, DraftIsSound, ClassAdded, DraftInserted

\* CreateResource writes the draft, if anything, and leaves it sound.
LEMMA CreateResourceWritesDraft ==
    ASSUME ConfigurationInv, NEW capacity \in Capacity, CreateResource(capacity)
    PROVE  WritesDraft
  <1> DEFINE id == Minted("resources", ResourceId)
  <1>1. /\ draft # NULL /\ Unused("resources", ResourceId) # {}
        /\ Insert([tables[draft] EXCEPT !.resources = Put(@, id, capacity)])
    BY Zenon DEF CreateResource
  <1>2. id \in ResourceId /\ id \notin DOMAIN tables[draft].resources
    BY <1>1, MintedIsNew DEF Ids
  <1> HIDE DEF id
  <1> QED BY <1>1, <1>2, DraftIsSound, ResourceAdded, DraftInserted

\* CalendarWrite writes the draft, if anything, and leaves it sound.
LEMMA CalendarWriteWritesDraft ==
    ASSUME ConfigurationInv, CalendarWrite
    PROVE  WritesDraft
  <1>1. CASE draft # NULL /\ \E state \in CalendarState :
                Insert([tables[draft] EXCEPT !.calendar = state])
    <2>1. PICK state \in CalendarState : Insert([tables[draft] EXCEPT !.calendar = state])
      BY <1>1, Zenon
    <2> QED BY <1>1, <2>1, DraftIsSound, CalendarMarked, DraftInserted
  <1>2. CASE published # NULL /\ Fail
    BY <1>2 DEF Fail, WritesDraft
  <1> QED BY <1>1, <1>2, Zenon DEF CalendarWrite

\* The writers that look a row up by its id, and may find two.
LEMMA UpdateTeacherWritesDraft ==
    ASSUME ConfigurationInv, NEW id, UpdateTeacher(id)
    PROVE  WritesDraft
  <1> DEFINE h == Holder("teachers", id)
  <1>1. draft # NULL /\ id \in Ids(tables[draft], "teachers")
    BY DEF UpdateTeacher, Ids
  <1>2. Unique("teachers", id) => h = draft
    BY <1>1, HolderIsTheDraft
  <1>3. Becomes(tables[draft], tables[draft])
    BY <1>1, DraftIsSound, Zenon DEF Becomes, NoFirstCollision
  <1>4. \/ /\ Unique("teachers", id)
           /\ tables' = [tables EXCEPT ![h] = tables[h]]
           /\ Succeed
        \/ ~Unique("teachers", id) /\ Fail
    BY Zenon DEF UpdateTeacher, Rewrite
  <1> QED BY <1>1, <1>2, <1>3, <1>4, RowWritten

\* DeleteTeacher writes the draft, if anything, and leaves it sound.
LEMMA DeleteTeacherWritesDraft ==
    ASSUME ConfigurationInv, NEW id, DeleteTeacher(id)
    PROVE  WritesDraft
  <1> DEFINE h == Holder("teachers", id)
  <1>1. draft # NULL /\ id \in Ids(tables[draft], "teachers") /\ ~TeacherReferencedBy(tables[draft], id)
    BY DEF DeleteTeacher, Ids
  <1>2. Unique("teachers", id) => h = draft
    BY <1>1, HolderIsTheDraft
  <1>3. Becomes(tables[draft], CascadeTeacher(tables[draft], id))
    BY <1>1, DraftIsSound, TeacherDropped
  <1>4. <<"teachers", id>> \notin Referenced(tables[draft])
    BY <1>1, DraftIsSound, UnusedIsUnreferenced
  <1>5. \/ /\ Unique("teachers", id)
           /\ tables' = [tables EXCEPT ![h] = CascadeTeacher(tables[h], id)]
           /\ Succeed
        \/ ~(Unique("teachers", id) /\ <<"teachers", id>> \notin Referenced(tables[h])) /\ Fail
    BY Zenon DEF DeleteTeacher, Remove
  <1> QED BY <1>1, <1>2, <1>3, <1>4, <1>5, RowWritten

\* UpdateSubject writes the draft, if anything, and leaves it sound.
LEMMA UpdateSubjectWritesDraft ==
    ASSUME ConfigurationInv, NEW id, NEW name \in Name, UpdateSubject(id, name)
    PROVE  WritesDraft
  <1> DEFINE h == Holder("activities", id)
  <1>1. /\ draft # NULL /\ id \in Ids(tables[draft], "activities")
        /\ tables[draft].activities[id].kind = "ORDINARY"
    BY DEF UpdateSubject, Ids, IsActivity
  <1>2. Unique("activities", id) => h = draft
    BY <1>1, HolderIsTheDraft
  <1>3. Becomes(tables[draft], [tables[draft] EXCEPT !.activities[id].name = name])
    BY <1>1, DraftIsSound, SubjectRenamed DEF Ids
  <1>4. \/ /\ Unique("activities", id)
           /\ tables' = [tables EXCEPT ![h] = [tables[h] EXCEPT !.activities[id].name = name]]
           /\ Succeed
        \/ ~Unique("activities", id) /\ Fail
    BY Zenon DEF UpdateSubject, Rewrite
  <1> QED BY <1>1, <1>2, <1>3, <1>4, RowWritten

\* UpdateSpecialActivity writes the draft, if anything, and leaves it sound.
LEMMA UpdateSpecialActivityWritesDraft ==
    ASSUME ConfigurationInv, NEW id, NEW name \in Name, UpdateSpecialActivity(id, name)
    PROVE  WritesDraft
  <1> DEFINE h == Holder("activities", id)
  <1>1. /\ draft # NULL /\ id \in Ids(tables[draft], "activities")
        /\ tables[draft].activities[id].kind = "CLUB"
    BY DEF UpdateSpecialActivity, Ids, IsActivity
  <1>2. Unique("activities", id) => h = draft
    BY <1>1, HolderIsTheDraft
  <1>3. Becomes(tables[draft], [tables[draft] EXCEPT !.activities[id].name = name,
                      !.blocks = [i \in DOMAIN @ |->
                            IF @[i].activity = id THEN [@[i] EXCEPT !.name = name] ELSE @[i]]])
    BY <1>1, DraftIsSound, SpecialActivityRenamed DEF Ids
  <1>4. \/ /\ Unique("activities", id)
           /\ tables' = [tables EXCEPT ![h] = [tables[h] EXCEPT !.activities[id].name = name,
                      !.blocks = [i \in DOMAIN @ |->
                            IF @[i].activity = id THEN [@[i] EXCEPT !.name = name] ELSE @[i]]]]
           /\ Succeed
        \/ ~Unique("activities", id) /\ Fail
    BY Zenon DEF UpdateSpecialActivity, Rewrite
  <1> DEFINE new == [tables[draft] EXCEPT !.activities[id].name = name,
                      !.blocks = [i \in DOMAIN @ |->
                            IF @[i].activity = id THEN [@[i] EXCEPT !.name = name] ELSE @[i]]]
  <1>5. \/ Unique("activities", id) /\ tables' = [tables EXCEPT ![draft] = new] /\ Succeed
        \/ ~Unique("activities", id) /\ Fail
    BY Zenon, <1>2, <1>4
  <1>6. Becomes(tables[draft], new)
    BY Zenon, <1>3
  <1> HIDE DEF new
  <1> QED BY <1>1, <1>5, <1>6, RowWritten

\* DeleteSubject writes the draft, if anything, and leaves it sound.
LEMMA DeleteSubjectWritesDraft ==
    ASSUME ConfigurationInv, NEW id, DeleteSubject(id)
    PROVE  WritesDraft
  <1> DEFINE h == Holder("activities", id)
  <1>1. /\ draft # NULL /\ id \in Ids(tables[draft], "activities")
        /\ ~SubjectReferencedBy(tables[draft], id)
    BY DEF DeleteSubject, Ids, IsActivity
  <1>2. Unique("activities", id) => h = draft
    BY <1>1, HolderIsTheDraft
  <1>3. Becomes(tables[draft], WithoutActivity(tables[draft], id))
    BY <1>1, DraftIsSound, ActivityDropped
  <1>4. <<"activities", id>> \notin Referenced(tables[draft])
    BY <1>1, DraftIsSound, UnusedIsUnreferenced
  <1>5. \/ /\ Unique("activities", id)
           /\ tables' = [tables EXCEPT ![h] = WithoutActivity(tables[h], id)]
           /\ Succeed
        \/ ~(Unique("activities", id) /\ <<"activities", id>> \notin Referenced(tables[h])) /\ Fail
    BY Zenon DEF DeleteSubject, Remove
  <1> QED BY <1>1, <1>2, <1>3, <1>4, <1>5, RowWritten

\* DeleteSpecialActivity writes the draft, if anything, and leaves it sound.
LEMMA DeleteSpecialActivityWritesDraft ==
    ASSUME ConfigurationInv, NEW id, DeleteSpecialActivity(id)
    PROVE  WritesDraft
  <1> DEFINE h == Holder("activities", id)
  <1>1. /\ draft # NULL /\ id \in Ids(tables[draft], "activities")
        /\ ~BlocksUse(tables[draft], id)
        /\ tables[draft].activities[id].kind = "CLUB"
    BY DEF DeleteSpecialActivity, Ids, IsActivity
  <1>2. Unique("activities", id) => h = draft
    BY <1>1, HolderIsTheDraft
  <1>3. ~SubjectReferencedBy(tables[draft], id)
    BY <1>1, DraftIsSound DEF Sound, RequirementsResolve, SubjectReferencedBy
  <1>4. Becomes(tables[draft], WithoutActivity(tables[draft], id))
    BY <1>1, <1>3, DraftIsSound, ActivityDropped
  <1>5. <<"activities", id>> \notin Referenced(tables[draft])
    BY <1>1, <1>3, DraftIsSound, UnusedIsUnreferenced
  <1>6. \/ /\ Unique("activities", id)
           /\ tables' = [tables EXCEPT ![h] = WithoutActivity(tables[h], id)]
           /\ Succeed
        \/ ~(Unique("activities", id) /\ <<"activities", id>> \notin Referenced(tables[h])) /\ Fail
    BY Zenon DEF DeleteSpecialActivity, Remove
  <1> QED BY <1>1, <1>2, <1>4, <1>5, <1>6, RowWritten

\* UpdateResource writes the draft, if anything, and leaves it sound.
LEMMA UpdateResourceWritesDraft ==
    ASSUME ConfigurationInv, NEW id, NEW capacity \in Capacity, UpdateResource(id, capacity)
    PROVE  WritesDraft
  <1> DEFINE h == Holder("resources", id)
  <1>1. /\ draft # NULL /\ id \in Ids(tables[draft], "resources")
    BY DEF UpdateResource, Ids
  <1>2. Unique("resources", id) => h = draft
    BY <1>1, HolderIsTheDraft
  <1>3. Becomes(tables[draft], [tables[draft] EXCEPT !.resources[id] = capacity])
    BY <1>1, DraftIsSound, ResourceChanged DEF Ids
  <1>4. \/ /\ Unique("resources", id)
           /\ tables' = [tables EXCEPT ![h] = [tables[h] EXCEPT !.resources[id] = capacity]]
           /\ Succeed
        \/ ~Unique("resources", id) /\ Fail
    BY Zenon DEF UpdateResource, Rewrite
  <1> QED BY <1>1, <1>2, <1>3, <1>4, RowWritten

\* DeleteResource writes the draft, if anything, and leaves it sound.
LEMMA DeleteResourceWritesDraft ==
    ASSUME ConfigurationInv, NEW id, DeleteResource(id)
    PROVE  WritesDraft
  <1> DEFINE h == Holder("resources", id)
  <1>1. /\ draft # NULL /\ id \in Ids(tables[draft], "resources")
        /\ ~ResourceReferencedBy(tables[draft], id)
    BY DEF DeleteResource, Ids
  <1>2. Unique("resources", id) => h = draft
    BY <1>1, HolderIsTheDraft
  <1>3. Becomes(tables[draft], [tables[draft] EXCEPT !.resources = Drop(@, {id})])
    BY <1>1, DraftIsSound, ResourceDropped
  <1>4. <<"resources", id>> \notin Referenced(tables[draft])
    BY <1>1, DraftIsSound, UnusedIsUnreferenced
  <1>5. \/ /\ Unique("resources", id)
           /\ tables' = [tables EXCEPT ![h] = [tables[h] EXCEPT !.resources = Drop(@, {id})]]
           /\ Succeed
        \/ ~(Unique("resources", id) /\ <<"resources", id>> \notin Referenced(tables[h])) /\ Fail
    BY Zenon DEF DeleteResource, Remove
  <1> QED BY <1>1, <1>2, <1>3, <1>4, <1>5, RowWritten

\* DeleteReserved writes the draft, if anything, and leaves it sound.
LEMMA DeleteReservedWritesDraft ==
    ASSUME ConfigurationInv, NEW id, DeleteReserved(id)
    PROVE  WritesDraft
  <1> DEFINE h == Holder("blocks", id)
  <1>1. draft # NULL /\ id \in Ids(tables[draft], "blocks")
    BY DEF DeleteReserved, Ids
  <1>2. Unique("blocks", id) => h = draft
    BY <1>1, HolderIsTheDraft
  <1>3. Becomes(tables[draft], [tables[draft] EXCEPT !.blocks = Drop(@, {id})])
    BY <1>1, DraftIsSound, BlockDropped
  <1>4. \/ /\ Unique("blocks", id)
           /\ tables' = [tables EXCEPT ![h] = [tables[h] EXCEPT !.blocks = Drop(@, {id})]]
           /\ Succeed
        \/ ~Unique("blocks", id) /\ Fail
    BY Zenon DEF DeleteReserved, Rewrite
  <1> QED BY <1>1, <1>2, <1>3, <1>4, RowWritten

\* DeleteAssignment writes the draft, if anything, and leaves it sound.
LEMMA DeleteAssignmentWritesDraft ==
    ASSUME ConfigurationInv, draft # NULL,
           NEW id, id \in DOMAIN tables[draft].requirements, DeleteAssignment(id)
    PROVE  WritesDraft
  <1> DEFINE h == Holder("requirements", id)
  <1>1. draft # NULL /\ id \in Ids(tables[draft], "requirements") /\ Plain(tables[draft], id)
    BY DEF DeleteAssignment, Ids
  <1>2. Unique("requirements", id) => h = draft
    BY <1>1, HolderIsTheDraft
  <1>3. Becomes(tables[draft], WithoutRequirement(tables[draft], id))
    BY <1>1, DraftIsSound, RequirementDropped DEF Ids, Plain
  <1>4. \/ /\ Unique("requirements", id)
           /\ tables' = [tables EXCEPT ![h] = WithoutRequirement(tables[h], id)]
           /\ Succeed
        \/ ~Unique("requirements", id) /\ Fail
    BY Zenon DEF DeleteAssignment, Rewrite
  <1> QED BY <1>1, <1>2, <1>3, <1>4, RowWritten

\* UpdateAssignment writes the draft, if anything, and leaves it sound.
LEMMA UpdateAssignmentWritesDraft ==
    ASSUME ConfigurationInv, draft # NULL, NEW q \in Assignments(tables[draft]),
           NEW id \in DOMAIN tables[draft].requirements, UpdateAssignment(id, q)
    PROVE  WritesDraft
  <1> DEFINE h == Holder("requirements", id)
  <1>1. id \in Ids(tables[draft], "requirements") /\ tables[draft].requirements[id].split = None
    BY DEF UpdateAssignment, Plain, Ids
  <1>2. Unique("requirements", id) => h = draft
    BY <1>1, HolderIsTheDraft
  <1>3. id \in RequirementId
    BY DraftIsSound DEF Sound, Typed, IsTable
  <1>4. Becomes(tables[draft], WithRequirement(tables[draft], id, q))
    BY <1>1, <1>3, DraftIsSound, RequirementWritten
  <1>5. \/ /\ Unique("requirements", id)
           /\ tables' = [tables EXCEPT ![h] = WithRequirement(tables[h], id, q)]
           /\ Succeed
        \/ ~Unique("requirements", id) /\ Fail
        \/ MayMisresolve(RequirementRefs(q)) /\ Fail
    BY Zenon DEF UpdateAssignment, Rewrite
  <1> QED BY <1>1, <1>2, <1>4, <1>5, RowWritten, WriteRefused, AmbiguousBesidePublished

\* UpdateReserved writes the draft, if anything, and leaves it sound.
LEMMA UpdateReservedWritesDraft ==
    ASSUME ConfigurationInv, draft # NULL, NEW fields \in ReservedFields(tables[draft]),
           NEW id \in DOMAIN tables[draft].blocks, UpdateReserved(id, fields)
    PROVE  WritesDraft
  <1> DEFINE h == Holder("blocks", id)
  <1>1. id \in Ids(tables[draft], "blocks") /\ Reservable(tables[draft], id, fields)
    BY DEF UpdateReserved, Ids
  <1>2. Unique("blocks", id) => h = draft
    BY <1>1, HolderIsTheDraft
  <1>3. id \in BlockId
    BY DraftIsSound DEF Sound, Typed, IsTable
  <1>4. Becomes(tables[draft], WithBlock(tables[draft], id, fields))
    BY <1>1, <1>3, DraftIsSound, BlockWritten
  <1>5. \/ /\ Unique("blocks", id)
           /\ tables' = [tables EXCEPT ![h] = WithBlock(tables[h], id, fields)]
           /\ Succeed
        \/ ~Unique("blocks", id) /\ Fail
        \/ (~ResolvesOnce(fields) \/ ChildrenMayMisresolve(fields)) /\ Fail
    BY Zenon DEF UpdateReserved, Rewrite
  <1>6. ~ResolvesOnce(fields) \/ ChildrenMayMisresolve(fields) => published # NULL
    BY AmbiguousBesidePublished DEF ResolvesOnce, ChildrenMayMisresolve
  <1> QED BY <1>1, <1>2, <1>4, <1>5, <1>6, RowWritten, WriteRefused

\* The class and its group are looked up in turn.
LEMMA UpdateClassWritesDraft ==
    ASSUME ConfigurationInv, NEW id, NEW name \in Name, UpdateClass(id, name)
    PROVE  WritesDraft
  <1> DEFINE h == Holder("classes", id)
             group == Canonical(tables[draft], id)
  <1>1. draft # NULL /\ id \in Ids(tables[draft], "classes") /\ id \in DOMAIN tables[draft].classes
    BY DEF UpdateClass, Ids
  <1>2. Unique("classes", id) => h = draft
    BY <1>1, HolderIsTheDraft
  <1>3. group \in WholeClassGroups(tables[draft], id)
    BY <1>1, DraftIsSound DEF Canonical, Sound, GroupsResolve
  <1>4. \/ ~Unique("groups", group) /\ Fail
        \/ /\ Unique("classes", id)
           /\ tables' = [tables EXCEPT ![h] =
                            [tables[h] EXCEPT !.classes[id] = name, !.groups[group].name = name]]
           /\ Succeed
        \/ ~Unique("classes", id) /\ Fail
    BY Zenon DEF UpdateClass, Rewrite
  <1> HIDE DEF group
  <1>5. Becomes(tables[draft], [tables[draft] EXCEPT !.classes[id] = name, !.groups[group].name = name])
    BY <1>1, <1>3, DraftIsSound, ClassRenamed
  <1> QED BY <1>1, <1>2, <1>4, <1>5, RowWritten, WriteRefused, AmbiguousBesidePublished

\* Its group goes first, then the class.
LEMMA DeleteClassWritesDraft ==
    ASSUME ConfigurationInv, NEW id, DeleteClass(id)
    PROVE  WritesDraft
  <1> DEFINE t == tables[draft]
             group == Canonical(t, id)
             u == [t EXCEPT !.groups = Drop(@, {group})]
  <1>1. draft # NULL /\ id \in DOMAIN t.classes /\ ~ClassReferencedBy(t, id)
    BY Zenon DEF DeleteClass
  <1>2. \/ Insert([u EXCEPT !.classes = Drop(@, {id})])
        \/ /\ ~(/\ Unique("classes", id) /\ Unique("groups", group)
                /\ <<"groups", group>> \notin Referenced(t)
                /\ <<"classes", id>> \notin Referenced(u))
           /\ Fail
    BY Zenon DEF DeleteClass
  <1>3. <<"groups", group>> \notin Referenced(t) /\ <<"classes", id>> \notin Referenced(u)
    BY <1>1, DraftIsSound, UnusedClassIsUnreferenced
  <1>4. [u EXCEPT !.classes = Drop(@, {id})] =
            [t EXCEPT !.groups = Drop(@, {group}), !.classes = Drop(@, {id})]
    OBVIOUS
  <1>5. Becomes(t, [u EXCEPT !.classes = Drop(@, {id})])
    BY <1>1, <1>4, DraftIsSound, ClassDropped
  <1> HIDE DEF u
  <1> QED BY <1>1, <1>2, <1>3, <1>5, DraftInserted, WriteRefused, AmbiguousBesidePublished

\* New rows with references that may be resolved beside a published revision.
LEMMA CreateAssignmentWritesDraft ==
    ASSUME ConfigurationInv, draft # NULL, NEW q \in Assignments(tables[draft]), CreateAssignment(q)
    PROVE  WritesDraft
  <1> DEFINE id == Minted("requirements", RequirementId)
  <1>1. /\ Unused("requirements", RequirementId) # {}
        /\ \/ Insert(WithRequirement(tables[draft], id, q))
           \/ MayMisresolve(RequirementRefs(q)) /\ Fail
    BY Zenon DEF CreateAssignment
  <1>2. id \in RequirementId /\ id \notin DOMAIN tables[draft].requirements
    BY <1>1, MintedIsNew DEF Ids
  <1> HIDE DEF id
  <1>3. Becomes(tables[draft], WithRequirement(tables[draft], id, q))
    BY <1>2, DraftIsSound, RequirementWritten
  <1> QED BY <1>1, <1>3, DraftInserted, WriteRefused, AmbiguousBesidePublished

\* CreateReserved writes the draft, if anything, and leaves it sound.
LEMMA CreateReservedWritesDraft ==
    ASSUME ConfigurationInv, draft # NULL, NEW fields \in ReservedFields(tables[draft]),
           CreateReserved(fields)
    PROVE  WritesDraft
  <1> DEFINE id == Minted("blocks", BlockId)
  <1>1. /\ Unused("blocks", BlockId) # {}
        /\ Reservable(tables[draft], id, fields)
        /\ \/ Insert(WithBlock(tables[draft], id, fields))
           \/ (~ResolvesOnce(fields) \/ ChildrenMayMisresolve(fields)) /\ Fail
    BY Zenon DEF CreateReserved
  <1>2. id \in BlockId
    BY <1>1, MintedIsNew
  <1> HIDE DEF id
  <1>3. Becomes(tables[draft], WithBlock(tables[draft], id, fields))
    BY <1>1, <1>2, DraftIsSound, BlockWritten
  <1>4. ~ResolvesOnce(fields) \/ ChildrenMayMisresolve(fields) => published # NULL
    BY AmbiguousBesidePublished DEF ResolvesOnce, ChildrenMayMisresolve
  <1> QED BY <1>1, <1>3, <1>4, DraftInserted, WriteRefused

\* Two fresh ids of a table are distinct.
LEMMA TwoUnused ==
    ASSUME NEW S, Cardinality(S) >= 2, NEW x
    PROVE  S \ {x} # {}
  <1> SUFFICES ASSUME S \subseteq {x} PROVE FALSE
    OBVIOUS
  <1>1. IsFiniteSet({x}) /\ Cardinality({x}) = 1
    BY FS_Singleton
  <1>2. Cardinality(S) <= 1 /\ IsFiniteSet(S)
    BY <1>1, FS_Subset
  <1> QED BY <1>2, FS_CardinalityType

\* CreateSplit writes the draft, if anything, and leaves it sound.
LEMMA CreateSplitWritesDraft ==
    ASSUME ConfigurationInv, draft # NULL, NEW class \in DOMAIN tables[draft].classes,
           NEW a \in [teacher : tables[draft].teachers,
                      activity : {i \in DOMAIN tables[draft].activities : IsActivity(i, "ORDINARY")},
                      periods : Load],
           NEW b \in [teacher : tables[draft].teachers,
                      activity : {i \in DOMAIN tables[draft].activities : IsActivity(i, "ORDINARY")},
                      periods : Load],
           CreateSplit(class, a, b)
    PROVE  WritesDraft
  <1> DEFINE t == tables[draft]
             splits == {x \in SplitId : \A r \in live : Branches(tables[r], x) = {}}
             split == CHOOSE x \in splits : TRUE
             groupA == Minted("groups", GroupId)
             groupB == CHOOSE g \in Unused("groups", GroupId) \ {groupA} : TRUE
             rowA == Minted("requirements", RequirementId)
             rowB == CHOOSE i \in Unused("requirements", RequirementId) \ {rowA} : TRUE
             subgroup == [role |-> "SUBGROUP", class |-> class, name |-> None]
             u == [t EXCEPT !.groups = Put(Put(@, groupA, subgroup), groupB, subgroup),
                            !.requirements = Put(Put(@, rowA, Branch(a, groupA, split)),
                                                 rowB, Branch(b, groupB, split))]
  <1>1. /\ splits # {} /\ a.periods = b.periods
        /\ Cardinality(Unused("groups", GroupId)) >= 2
        /\ Cardinality(Unused("requirements", RequirementId)) >= 2
    BY Zenon DEF CreateSplit
  <1>2. Insert(u)
    BY Zenon DEF CreateSplit, StoredSplit, WithSplit
  <1>3. split \in SplitId /\ Branches(t, split) = {}
    <2>1. split \in splits
      BY <1>1
    <2> QED BY <2>1, DraftIsSound
  <1>4. groupB \in Unused("groups", GroupId) \ {groupA}
    BY <1>1, TwoUnused
  <1>5. rowB \in Unused("requirements", RequirementId) \ {rowA}
    BY <1>1, TwoUnused
  <1>6. /\ groupA \in GroupId \ DOMAIN t.groups /\ groupB \in GroupId \ DOMAIN t.groups
        /\ groupA # groupB
    BY <1>4, MintedIsNew, DraftIsSound DEF Unused, Ids
  <1>7. /\ rowA \in RequirementId \ DOMAIN t.requirements
        /\ rowB \in RequirementId \ DOMAIN t.requirements
        /\ rowA # rowB
    BY <1>5, MintedIsNew, DraftIsSound DEF Unused, Ids
  <1>8. {a, b} \subseteq
            [teacher : t.teachers,
             activity : {i \in DOMAIN t.activities : t.activities[i].kind = "ORDINARY"},
             periods : Load]
    BY DEF IsActivity
  <1> HIDE DEF split, groupA, groupB, rowA, rowB
  <1>9. Becomes(t, u)
    BY <1>1, <1>3, <1>6, <1>7, <1>8, DraftIsSound, SplitWritten
  <1> HIDE DEF u
  <1> QED BY <1>2, <1>9, DraftInserted

-----------------------------------------------------------------------------
\* The nine configuration services and the calendar's, taken together.
LEMMA WritersWriteTheDraft ==
    ASSUME ConfigurationInv,
           \/ TeacherService \/ TeacherAvailabilityService
           \/ SubjectService \/ SpecialActivityService
           \/ ClassSectionService \/ ResourceService
           \/ TeachingAssignmentService \/ SynchronizedSplitService
           \/ ReservedActivityService \/ CalendarWrite
    PROVE  WritesDraft
  <1>1. CASE TeacherService \/ TeacherAvailabilityService
    BY <1>1, CreateTeacherWritesDraft, UpdateTeacherWritesDraft, DeleteTeacherWritesDraft,
       ReplaceExceptionsWritesDraft DEF TeacherService, TeacherAvailabilityService
  <1>2. CASE SubjectService \/ SpecialActivityService
    BY <1>2, CreateActivityWritesDraft, UpdateSubjectWritesDraft, DeleteSubjectWritesDraft,
       UpdateSpecialActivityWritesDraft, DeleteSpecialActivityWritesDraft
       DEF SubjectService, SpecialActivityService, CreateSubject, CreateSpecialActivity
  <1>3. CASE ClassSectionService
    BY <1>3, CreateClassWritesDraft, UpdateClassWritesDraft, DeleteClassWritesDraft
       DEF ClassSectionService
  <1>4. CASE ResourceService
    BY <1>4, CreateResourceWritesDraft, UpdateResourceWritesDraft, DeleteResourceWritesDraft
       DEF ResourceService
  <1>5. CASE TeachingAssignmentService
    BY <1>5, CreateAssignmentWritesDraft, UpdateAssignmentWritesDraft, DeleteAssignmentWritesDraft
       DEF TeachingAssignmentService
  <1>6. CASE SynchronizedSplitService
    BY <1>6, CreateSplitWritesDraft DEF SynchronizedSplitService
  <1>7. CASE ReservedActivityService
    BY <1>7, CreateReservedWritesDraft, UpdateReservedWritesDraft, DeleteReservedWritesDraft
       DEF ReservedActivityService
  <1>8. CASE CalendarWrite
    BY <1>8, CalendarWriteWritesDraft
  <1> QED BY <1>1, <1>2, <1>3, <1>4, <1>5, <1>6, <1>7, <1>8

\* What a step may do to the revisions that exist.
StepKeepsTables ==
    /\ OnlyDraftWritten
    /\ \A r \in live : NoFirstCollision(tables[r], tables'[r])

\* A write of the draft keeps the invariant and every other revision.
LEMMA DraftWritten ==
    ASSUME ConfigurationInv, WritesDraft
    PROVE  ConfigurationInv' /\ StepKeepsTables
  <1> USE DEF ConfigurationInv, RevisionsInPlace, lifecycle
  <1>1. CASE outcome' = "failed" /\ published # NULL /\ tables' = tables
    BY <1>1 DEF WritesDraft, StepKeepsTables, OnlyDraftWritten, NoFirstCollision
  <1>2. CASE /\ outcome' = "done" /\ draft # NULL
             /\ \E t : Becomes(tables[draft], t) /\ tables' = [tables EXCEPT ![draft] = t]
    <2>1. PICK t : Becomes(tables[draft], t) /\ tables' = [tables EXCEPT ![draft] = t]
      BY <1>2
    <2>2. /\ draft \in RevisionId /\ tables'[draft] = t
          /\ \A r \in RevisionId : r # draft => tables'[r] = tables[r]
          /\ DOMAIN tables' = RevisionId /\ tables' = [r \in RevisionId |-> tables'[r]]
      BY <1>2, <2>1, DraftIsSound
    <2>3. Sound(t) /\ NoFirstCollision(tables[draft], t)
      BY <2>1 DEF Becomes
    <2>4. ConfigurationInv'
      BY <1>2, <2>2, <2>3 DEF WritesDraft
    <2>5. StepKeepsTables
      BY <2>2, <2>3 DEF StepKeepsTables, OnlyDraftWritten, NoFirstCollision
    <2> QED BY <2>4, <2>5
  <1> QED BY <1>1, <1>2 DEF WritesDraft

(***************************************************************************)
(* Every step: beginning a draft copies a sound revision under a new id,   *)
(* discarding leaves no rows, publishing only moves the pointers.          *)
(***************************************************************************)
LEMMA StepKeepsConfigurationInv ==
    ASSUME ConfigurationInv, [Next]_vars
    PROVE  ConfigurationInv' /\ StepKeepsTables
  <1> USE DEF NULL, RevisionId
  <1>1. CASE \/ TeacherService \/ TeacherAvailabilityService
             \/ SubjectService \/ SpecialActivityService
             \/ ClassSectionService \/ ResourceService
             \/ TeachingAssignmentService \/ SynchronizedSplitService
             \/ ReservedActivityService \/ CalendarWrite
    BY <1>1, WritersWriteTheDraft, DraftWritten
  <1>2. CASE BeginDraft
    BY <1>2 DEF BeginDraft, StepKeepsTables, OnlyDraftWritten, NoFirstCollision,
                   ConfigurationInv, RevisionsInPlace
  <1>3. CASE DiscardDraft
    <2>1. ~Collides(Empty)
      BY DEF Empty, NoRows, Collides, ClassCollision, TeacherCollision
    <2> QED BY <1>3, <2>1, EmptySound
            DEF DiscardDraft, StepKeepsTables, OnlyDraftWritten, NoFirstCollision,
                   ConfigurationInv, RevisionsInPlace
  <1>4. CASE Publish
    BY <1>4 DEF Publish, StepKeepsTables, OnlyDraftWritten, NoFirstCollision,
                   ConfigurationInv, RevisionsInPlace
  <1>5. CASE UNCHANGED vars
    BY <1>5 DEF vars, lifecycle, StepKeepsTables, OnlyDraftWritten, NoFirstCollision,
                   ConfigurationInv, RevisionsInPlace
  <1> QED BY <1>1, <1>2, <1>3, <1>4, <1>5 DEF Next

(***************************************************************************)
(* Every revision is sound and the pointers name existing revisions, under *)
(* any sequence of configuration writes, drafts and publications.          *)
(***************************************************************************)
THEOREM ConfigurationInvariant == Spec => []ConfigurationInv
  <1>1. Init => ConfigurationInv
    BY TablesAssumption, EmptySound DEF Init, ConfigurationInv, RevisionsInPlace, NULL, RevisionId
  <1>2. ConfigurationInv /\ [Next]_vars => ConfigurationInv'
    BY StepKeepsConfigurationInv
  <1> QED BY <1>1, <1>2, PTL DEF Spec

(***************************************************************************)
(* Every row has the fields of its table.                                  *)
(***************************************************************************)
THEOREM TablesAreTyped == Spec => []TypeOK
  <1>1. ConfigurationInv => TypeOK
    BY DEF ConfigurationInv, RevisionsInPlace, Sound, Typed, TypeOK
  <1> QED BY <1>1, ConfigurationInvariant, PTL

(***************************************************************************)
(* Preflight's structural checks hold of every revision, whatever the      *)
(* writers and splits did to it.                                           *)
(***************************************************************************)
THEOREM RevisionsAreSound == Spec => []StructurallySound
  <1>1. ConfigurationInv => StructurallySound
    BY SoundResolves, SoundShape DEF ConfigurationInv, RevisionsInPlace, StructurallySound
  <1> QED BY <1>1, ConfigurationInvariant, PTL

(***************************************************************************)
(* A copied name is the name it was copied from.                           *)
(***************************************************************************)
THEOREM NamesStayDerived == Spec => []DerivedNames
  <1>1. ConfigurationInv => DerivedNames
    BY DEF ConfigurationInv, RevisionsInPlace, DerivedNames, Sound, BlocksResolve, GroupsResolve
  <1> QED BY <1>1, ConfigurationInvariant, PTL

(***************************************************************************)
(* Until the first timetable no write fails after its validation.          *)
(***************************************************************************)
THEOREM ValidatedWritesSucceed == Spec => []SetupWritesSucceed
  <1>1. ConfigurationInv => SetupWritesSucceed
    BY DEF ConfigurationInv, SetupWritesSucceed
  <1> QED BY <1>1, ConfigurationInvariant, PTL

(***************************************************************************)
(* No write changes a row of a published revision.                         *)
(***************************************************************************)
THEOREM PublishedTablesAreImmutable == Spec => PublishedTablesImmutable
  <1>1. ConfigurationInv /\ [Next]_vars => [\A r \in live \ {draft} : tables'[r] = tables[r]]_vars
    BY StepKeepsConfigurationInv DEF StepKeepsTables, OnlyDraftWritten
  <1> QED BY <1>1, ConfigurationInvariant, PTL DEF Spec, PublishedTablesImmutable

(***************************************************************************)
(* Comparing codes lets in a first collision of two reserved blocks only   *)
(* while gaps in the calendar or overlapping bell times hide the codes of  *)
(* blocks; with a calendar in order never, in a first setup or later.      *)
(***************************************************************************)
THEOREM FirstCollisionIsFound == Spec => FirstCollisionHidden
  <1>1. ConfigurationInv /\ [Next]_vars =>
            [\A r \in live :
                tables'[r].blocks # tables[r].blocks /\ Collides(tables'[r]) =>
                    Collides(tables[r]) \/ tables[r].calendar # "sound"]_vars
    BY StepKeepsConfigurationInv DEF StepKeepsTables, NoFirstCollision
  <1> QED BY <1>1, ConfigurationInvariant, PTL DEF Spec, FirstCollisionHidden
=============================================================================
