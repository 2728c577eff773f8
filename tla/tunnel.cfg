SPECIFICATION FairSpec
CONSTANTS
    MaxData = 2
    Window = 1
    MaxFaults = 1
INVARIANTS EofIsWhole
PROPERTIES EndsTogether Released
CHECK_DEADLOCK FALSE
