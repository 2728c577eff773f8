SPECIFICATION FairSpec
CONSTANTS
    MaxSockets = 2
    MaxReaders = 2
    PingTimeout = 2
    MaxFaults = 2
INVARIANTS OneSocket
PROPERTIES NoZombie Recovers StopReturns
CHECK_DEADLOCK FALSE
