CONSTANTS
    Peers = {p1, p2, p3, p4}
    HighWater = 2
    LowWater = 1
    DemoteThreshold = 2
    CircuitThreshold = 3
    UptimeK = 1
    MaxOwed = 2
    Pinned = {p1}
    Pingable = {p2}
SPECIFICATION Spec
INVARIANTS MainIsHealthy NoIdleExcess
PROPERTIES ShieldedSurvive ProbationFIFO PruneTarget
CHECK_DEADLOCK FALSE
