\* The read-only check and the commit of an edit are two transactions.
SPECIFICATION RequestSpec
CONSTANTS
    Part <- CalendarPart
    Shared = {}
    Value <- MCValue
    NoRows = "none"
    Provisioned <- MCProvisioned
    Timetable <- MCTimetable
    Placement <- MCPlacement
    Placed <- MCPlaced
    Fits <- MCFits
    LockFits <- MCLockFits
    Moves <- MCMoves
    Request = {r1, r2}
    MaxRevisions = 2
    MaxVersions = 2
SYMMETRY RequestSymmetry
PROPERTY
    ReadOnlyWhileOutOfDate
