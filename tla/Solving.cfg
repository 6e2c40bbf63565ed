SPECIFICATION SolvingSpec
CONSTANTS
    None = None
    NoMove <- MCNoMove
    NoProblem <- MCNoProblem
    Problems <- MCSolvingProblems
    Timetables <- MCSolvingTimetables
    Solved <- MCSolved
    SolverProblems <- MCSolverProblems
    Drafts <- MCDrafts
    MaxLocks = 2
INVARIANTS
    SolvingTypeOK
    SolverAgreesWithVerifier
    ReoptimizeKeepsValidTimetable
    LocksAreFindable
    CompatibleLocksCanBePinned
    ProvenPenaltiesAreTrue
    ViewsShowTheTimetable
PROPERTIES
    StepsKeepTimetableValid
    EditsKeepLocksFindable
    KeptLocksStay
    MovesCanBeUndone
