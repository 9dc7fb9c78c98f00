SPECIFICATION FairSpec
CONSTANTS
    p1 = p1
    p2 = p2
    s1 = s1
    s2 = s2
    Packets = {p1, p2}
    Servers = {s1, s2}
    Supports <- MCSupports
    Rank <- MCRank
    MaxPrio = 2
    SendPrio = 1
    IgnoreOnMiss = TRUE
    None = None
    MaxOps = 0
    MaxFaults = 0
PROPERTIES
    EveryPacketServed
CHECK_DEADLOCK FALSE
