SPECIFICATION Spec
CONSTANTS
    u1 = u1
    u2 = u2
    None = None
    Users = {u1, u2}
    Duration = 3
    Olympiad = TRUE
    UuidStore = FALSE
    MaxLog = 6
    MaxRuns = 2
    Clock = {1, 3, 5, 6}
    LastStart = 3
    MaxOps = 1
SYMMETRY MCSymmetry
INVARIANTS
    TypeOK
    ListsFollowLog
    FilesFollowLog
    RunningIsAnswered
    NothingToRepair
    TimesOfLog
PROPERTIES
    StopsAreKept
    JudgedAfterReplies
CHECK_DEADLOCK FALSE
