\* Four rows of a table are a first setup with a break, a move and a deletion in
\* the middle, or a draft of two beside a published revision of two.
SPECIFICATION Spec
CONSTANTS
    DayId = {d1, d2, d3}
    PeriodId = {p1, p2, p3, p4}
    Bell <- MCBell
    NoBell = none
    MaxRevisions = 2
    MaxDayRows = 4
    MaxPeriodRows = 4
SYMMETRY IdSymmetry
INVARIANTS
    TypeOK
    DistinctPositions
    SetupNeverFails
    SetupCalendarShape
PROPERTIES
    BreaksTravelWithPeriods
    ClockOrderLostOnlyByReordering
CHECK_DEADLOCK FALSE
