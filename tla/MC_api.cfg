SPECIFICATION ReadingSpec
CONSTANTS
    j1 = j1
    k1 = k1
    Jobs = {j1}
    Keys = {k1}
    KeyOf <- MCKeyOf
    Foreign = {k1}
    Chatter = {"Logging"}
    LineCap = 1
    Faults = FALSE
    Garbled = TRUE
    Late = TRUE
    None = None
PROPERTIES InOrder CloseTerminates
CHECK_DEADLOCK FALSE
