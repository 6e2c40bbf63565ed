\* A draft beside the published revision, and the writers' effect on the latter.
SPECIFICATION Spec
CONSTANTS
    DayId = {d1, d2}
    PeriodId = {p1, p2}
    Bell = {}
    NoBell = none
    MaxRevisions = 2
    MaxDayRows = 4
    MaxPeriodRows = 4
SYMMETRY IdSymmetry
PROPERTY
    PublishedCalendarImmutable
CHECK_DEADLOCK FALSE
