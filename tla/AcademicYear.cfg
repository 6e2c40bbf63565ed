\* Three revision rows: one published, a draft that is discarded, one that reuses its
\* number and is published.  Three versions: the initial one, an edit and a regeneration.
SPECIFICATION ProvisioningSpec
CONSTANTS
    Part <- MCPart
    Shared <- MCShared
    Value <- MCValue
    NoRows = "none"
    Provisioned <- MCProvisioned
    Timetable <- MCTimetable
    Placement <- MCPlacement
    Placed <- MCPlaced
    Fits <- MCFits
    LockFits <- MCLockFits
    MaxRevisions = 3
    MaxVersions = 3
    Client = {c1, c2}
    Command <- MCCommand
    Used <- MCUsed
    Nothing = Nothing
INVARIANTS
    TypeOK
    OneDraftAtMost
    SingleRevisionBeforeSchedule
    RevisionNumbersIdentify
    VersionsOnPublishedRevisions
    LinearHistory
    ProvisionedIsFresh
    ConflictsAreReal
PROPERTY
    PublishedRevisionsImmutable
SYMMETRY MCSymmetry
CHECK_DEADLOCK FALSE
