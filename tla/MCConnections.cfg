SPECIFICATION Spec
CONSTANTS
    w1 = w1
    w2 = w2
    None = None
    Cgis = {w1, w2}
    MaxRuns = 2
    MaxFaults = 1
SYMMETRY Symmetry
INVARIANTS
    TypeOK
    DescriptorsOwned
    
    
    
    HeldRunsJudged
    NobodyForgotten
CHECK_DEADLOCK FALSE
