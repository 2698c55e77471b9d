SPECIFICATION FairSpec
CONSTANTS
    Ids = {h1}
    Hops = {1}
    Own = {}
    Texts = {}
    Repeats = 0
    Forward = TRUE
    ContinuousRssi = TRUE
    ChanCap = 1
    None = None
PROPERTIES RadioTurnedOff
CHECK_DEADLOCK FALSE
