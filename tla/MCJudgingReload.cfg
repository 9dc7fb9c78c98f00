SPECIFICATION Spec
CONSTANTS
    s1 = s1
    s2 = s2
    s3 = s3
    c1 = c1
    c2 = c2
    t1 = t1
    t2 = t2
    None = None
    Runs = {s1}
    Direct = {}
    CompileOnly = {}
    Compilers = {c1}
    Testers = {t1}
    JudgeMod = 4
    InOrder = TRUE
    MaxRequests = 2
    MaxFaults = 0
    MaxLoads = 1
PROPERTIES
    OlderResultsIgnored
CHECK_DEADLOCK FALSE
