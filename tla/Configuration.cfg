CONSTANTS
    TeacherId = {t1, t2}
    ActivityId = {a1, a2}
    ClassId = {c1, c2}
    GroupId = {g1, g2, g3, g4}
    ResourceId = {h1}
    RequirementId = {q1, q2}
    BlockId = {b1, b2}
    SplitId = {x1}
    Slot = {s1, s2}
    Name = {n1, n2}
    Load = {1}
    Capacity = {1, 2}
    None = None
    MaxRevisions = 2
    MaxItems = 5
    MaxTotal = 7
SPECIFICATION Spec
SYMMETRY Symmetry
CHECK_DEADLOCK FALSE
INVARIANTS
    TypeOK
    StructurallySound
    DerivedNames
    SetupWritesSucceed
PROPERTIES
    PublishedTablesImmutable
    FirstCollisionHidden
