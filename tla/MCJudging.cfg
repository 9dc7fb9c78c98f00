SPECIFICATION Spec
CONSTANTS
    s1 = s1
    s2 = s2
    s3 = s3
    c1 = c1
    c2 = c2
    t1 = t1
    t2 = t2
    None = None
    Runs = {s1, s2, s3}
    Direct = {s2}
    CompileOnly = {s3}
    Compilers = {c1}
    Testers = {t1}
    JudgeMod = 4
    InOrder = TRUE
    MaxRequests = 3
    MaxFaults = 0
    MaxLoads = 0
INVARIANTS
    VerdictOfOwnBuild
    
    TransientIsHeld
PROPERTIES
    IsJudgeAbs
CHECK_DEADLOCK FALSE
