SPECIFICATION Spec
CONSTANTS
    None = None
    NoMove <- MCNoMove
    Problems <- MCPreferredProblems
    Timetables <- MCPreferredTimetables
    MaxLocks = 2
PROPERTY
    LockedLessonsStay
