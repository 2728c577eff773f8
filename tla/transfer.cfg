CONSTANTS
    Half = 16
    SendCap = 3
    RecvCap = 4
    MaxOOO = 2
    MaxSACK = 1
    Total = 4
    Source <- MCSource
    ISS = 29
    MSS = 2
    MaxWrite = 4
    WndScale = 2
    MaxWindow = 2
    Cwnds = {4}
    MaxRetries = 1
    MaxFaults = 0
    MaxCallbacks = 1
SPECIFICATION Spec
PROPERTY StreamSpec
INVARIANTS PrefixDelivered AckedIsReceived UnaNotSacked SackedIsHeld OOOSeparate
CHECK_DEADLOCK FALSE
