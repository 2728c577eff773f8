CONSTANTS
    Half = 64
    SendCap = 4
    RecvCap = 8
    MaxOOO = 2
    MaxSACK = 0
    MSS = 1
    End = {"a", "b"}
    Active = {"a", "b"}
    AWrites = 1
    BWrites = 0
    Source <- MCSource
    ISS <- MCISS
    Cwnds = {2}
    MaxRetries = 1
    MaxFaults = 1
    MaxTimeouts = 1
    MaxAborts = 1
CONSTRAINT OneMishap
SPECIFICATION Spec
INVARIANTS PrefixDelivered EndsAgree NumbersAccounted EOFMeansAll
CHECK_DEADLOCK FALSE
