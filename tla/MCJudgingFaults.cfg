SPECIFICATION Spec
CONSTANTS
    s1 = s1
    s2 = s2
    s3 = s3
    c1 = c1
    c2 = c2
    t1 = t1
    t2 = t2
    None = None
    Runs = {s1}
    Direct = {}
    CompileOnly = {}
    Compilers = {c1, c2}
    Testers = {t1, t2}
    JudgeMod = 4
    InOrder = FALSE
    MaxRequests = 3
    MaxFaults = 1
    MaxLoads = 1
INVARIANTS
    TypeOK
PROPERTIES
    VerdictIsCurrent
CHECK_DEADLOCK FALSE
