CONSTANTS
    Half = 16
    SendCap = 2
    RecvCap = 8
    MaxOOO = 2
    MaxSACK = 1
    MSS = 1
    Total = 3
    Source <- MCSource
    ISS = 29
    MaxWrite = 3
    WndScale = 1
    MaxWindow = 4
    Cwnds = {3}
    MaxRetries = 1
    MaxFaults = 1
    MaxCallbacks = 1
SPECIFICATION FairSpec
PROPERTIES Delivery WriteReturns
CHECK_DEADLOCK FALSE
