\* A draft beside the published revision, and the writers' answers.
SPECIFICATION Spec
CONSTANTS
    DayId = {d1, d2}
    PeriodId = {p1, p2}
    Bell = {}
    NoBell = none
    MaxRevisions = 2
    MaxDayRows = 4
    MaxPeriodRows = 4
SYMMETRY IdSymmetry
INVARIANT
    DraftWritesSucceed
CHECK_DEADLOCK FALSE
