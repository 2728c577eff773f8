CONSTANTS
    Peers = {p1, p2, p3}
    NoPeer = NoPeer
    HighWater = 4
    LowWater = 3
    DemoteThreshold = 1
    CircuitThreshold = 2
    UptimeK = 1
    MaxOwed = 1
    Pinned = {}
    Pingable = {}
    K = 2
    MaxFailures = 3
SPECIFICATION FairSpec
INVARIANTS ManagedBound NoOpenCalls
PROPERTY Released
