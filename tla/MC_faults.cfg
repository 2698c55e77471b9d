SPECIFICATION LoopSpec
CONSTANTS
    j1 = j1
    j2 = j2
    k1 = k1
    Jobs = {j1}
    Keys = {k1}
    KeyOf <- MCSingle
    Foreign = {}
    Chatter = {}
    LineCap = 1
    Faults = TRUE
    Garbled = TRUE
    Late = TRUE
    None = None
    ChanCap = 1
    Window = 2
    RetryLimit = 0
PROPERTIES NoDuplicate ImplementsRadioLoop LoopReturns
CHECK_DEADLOCK FALSE
