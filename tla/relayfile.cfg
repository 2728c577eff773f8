SPECIFICATION FairSpec
CONSTANTS
    Total = 3
    AckBatch = 2
    MaxStreams = 3
    MaxSends = 1
    MaxFaults = 2
INVARIANTS ReceivedInPlace FailsForCause
PROPERTIES DropSpec 
CHECK_DEADLOCK FALSE
