SPECIFICATION Spec
CONSTANTS
    None = None
    NoMove <- MCNoMove
    Problems <- MCHallProblems
    Timetables <- MCHallTimetables
    MaxLocks = 0
INVARIANT
    MovesKeepTimetableValid
