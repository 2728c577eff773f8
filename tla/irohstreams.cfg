SPECIFICATION StreamsSpec
CONSTANTS
    MaxObjs = 3
    MaxEvents = 3
    AcceptCap = 1
INVARIANTS NoGap NoLostWakeup
PROPERTIES OpenFresh
CHECK_DEADLOCK FALSE
