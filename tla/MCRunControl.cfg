SPECIFICATION FairSpec
CONSTANTS
    c1 = c1
    c2 = c2
    q1 = q1
    q2 = q2
    None = None
    Contests = {c1, c2}
    Pids = {q1, q2}
    Suspend = 0
    Interval = 1
    MaxPackets = 2
    MaxFaults = 1
    MaxCommands = 2
INVARIANTS
    TypeOK
    ChildrenKnown
    PacketsNoticed
PROPERTIES
    PacketsTaken
    StopEnds
CHECK_DEADLOCK FALSE
