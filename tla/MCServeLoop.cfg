SPECIFICATION FairSpec
CONSTANTS
    Contests = {1, 2}
    JobContests = {1, 2}
    JobKinds = {"all", "bare"}
    Batch = 1
    Expire = 0
    MaxRuns = 2
    MaxReplies = 2
    MaxJobs = 2
    MaxLoads = 2
INVARIANTS
    TypeOK
    BegunJobSound
PROPERTIES
    SoundJobEnds
    ReplyRead
CHECK_DEADLOCK FALSE
