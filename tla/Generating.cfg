\* Two tables, so that generation's unlocked read can be torn between them.
SPECIFICATION FairRequestSpec
CONSTANTS
    Part <- TwoParts
    Shared = {}
    Value <- MCValue
    NoRows = "none"
    Provisioned <- MCProvisioned
    Timetable <- MCTimetable
    Placement <- MCPlacement
    Placed <- MCPlaced
    Fits <- MCFits
    LockFits <- MCLockFits
    Moves <- MCMoves
    Request = {r1, r2}
    MaxRevisions = 2
    MaxVersions = 2
PROPERTIES
    ImplementsHistory
    RequestsEnd
