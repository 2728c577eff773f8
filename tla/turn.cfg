SPECIFICATION FairSpec
CONSTANTS
    MaxLives = 3
    MaxProcs = 2
    MaxFaults = 2
INVARIANTS OneControl SafeUnlessRaced
PROPERTIES Recovers
CHECK_DEADLOCK FALSE
