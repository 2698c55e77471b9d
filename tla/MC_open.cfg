SPECIFICATION OpenFairSpec
CONSTANTS
    k1 = k1
    Jobs = {}
    Keys = {k1}
    KeyOf <- MCNoJobs
    Foreign = {}
    Chatter = {}
    LineCap = 2
    Faults = TRUE
    Garbled = TRUE
    Late = TRUE
    None = None
    ChanCap = 1
    Window = 1
    RetryLimit = 0
    Attempts = 2
    Powers = {0, 14}
PROPERTIES OpenMeansReady OpenReturns
CHECK_DEADLOCK FALSE
