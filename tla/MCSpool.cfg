SPECIFICATION FairSpec
CONSTANTS
    w1 = w1
    w2 = w2
    r1 = r1
    r2 = r2
    p1 = p1
    p2 = p2
    p3 = p3
    n1 = n1
    n2 = n2
    Writers = {w1, w2}
    Readers = {r1, r2}
    Packets = {p1, p2, p3}
    Names = {n1, n2}
    NameOf <- MCNameOf
    Rank <- MCRank
    None = None
    MaxCrashes = 1
INVARIANTS
    TypeOK
    NothingTorn
    ClaimedOnce
PROPERTIES
    IsQueue
    EveryPacketLeaves
CHECK_DEADLOCK FALSE
