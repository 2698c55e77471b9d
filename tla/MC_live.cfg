SPECIFICATION FairSpec
CONSTANTS
    j1 = j1
    j2 = j2
    k1 = k1
    Jobs = {j1}
    Keys = {k1}
    KeyOf <- MCSingle
    Foreign = {}
    Chatter = {"ContinuousRSSI"}
    LineCap = 1
    Faults = FALSE
    Garbled = FALSE
    Late = FALSE
    None = None
    ChanCap = 1
    Window = 2
    RetryLimit = 0
INVARIANTS NotDeaf
PROPERTIES NoEcho CloseReturns PacketLeaves
CHECK_DEADLOCK FALSE
