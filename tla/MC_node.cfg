SPECIFICATION FairSpec
CONSTANTS
    Ids = {h1}
    Hops = {0, 1}
    Own = {p1}
    Texts = {}
    Repeats = 1
    Forward = TRUE
    ContinuousRssi = FALSE
    ChanCap = 1
    None = None
INVARIANTS ForwardsAreRight HandedOnce
PROPERTIES PacketsGetOut StopReturns
CHECK_DEADLOCK FALSE
