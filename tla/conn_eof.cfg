CONSTANTS
    Half = 64
    SendCap = 4
    RecvCap = 8
    MaxOOO = 2
    MaxSACK = 0
    MSS = 2
    End = {"a", "b"}
    Active = {"a"}
    AWrites = 3
    BWrites = 0
    Source <- MCSource
    ISS <- MCISS
    Cwnds = {4}
    MaxRetries = 1
    MaxFaults = 0
    MaxTimeouts = 0
    MaxAborts = 0
SPECIFICATION Spec
INVARIANT EOFMeansAll
CHECK_DEADLOCK FALSE
