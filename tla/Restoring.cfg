\* A restore across a regeneration that changed who teaches what.
SPECIFICATION RequestSpec
CONSTANTS
    Part <- TeachingPart
    Shared = {}
    Value <- MCValue
    NoRows = "none"
    Provisioned <- MCProvisioned
    Timetable <- MCTimetable
    Placement <- MCPlacement
    Placed <- MCPlaced
    Fits <- MCFits
    LockFits <- MCLockFits
    Moves <- MCMoves
    Request = {r1}
    MaxRevisions = 2
    MaxVersions = 3
INVARIANT
    VersionsFitTheirRevision
