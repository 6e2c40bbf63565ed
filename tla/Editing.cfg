\* Three revision rows and three versions: a discard can give a revision number
\* back between a read and a commit, and a restore can cross a regeneration.
SPECIFICATION RequestSpec
CONSTANTS
    Part <- TeachingPart
    Shared = {}
    Value <- MCValue
    NoRows = "none"
    Provisioned <- MCProvisioned
    Timetable <- MCTimetable
    Placement <- MCPlacement
    Placed <- MCPlaced
    Fits <- MCFits
    LockFits <- MCLockFits
    Moves <- MCMoves
    Request = {r1, r2}
    MaxRevisions = 3
    MaxVersions = 3
SYMMETRY RequestSymmetry
INVARIANTS
    RequestTypeOK
    VersionsWereVerified
    ReadersFindTheirRevision
PROPERTIES
    LocksLostOnlyByConsent
    RegenerationPublishesItsDraft
    ImplementsHistory
