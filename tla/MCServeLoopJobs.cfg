SPECIFICATION FairSpec
CONSTANTS
    Contests = {1, 2}
    JobContests = {1, 2}
    JobKinds = {"all"}
    Batch = 1
    Expire = 0
    MaxRuns = 2
    MaxReplies = 0
    MaxJobs = 2
    MaxLoads = 2
PROPERTY EveryJobEnds
CHECK_DEADLOCK FALSE
