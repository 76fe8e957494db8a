SPECIFICATION FairSpec
CONSTANTS
    Service = {s1, s2}
    SigBuf = 3
    MaxSignals = 1
CHECK_DEADLOCK FALSE
PROPERTIES StopsOnSignal
