SPECIFICATION Spec
CONSTANTS
    j1 = j1
    j2 = j2
    k1 = k1
    Jobs = {j1, j2}
    Keys = {k1}
    KeyOf <- MCRepeated
    Foreign = {}
    Chatter = {}
    LineCap = 1
    Faults = TRUE
    Garbled = FALSE
    Late = FALSE
    None = None
    ChanCap = 1
    Window = 1
    RetryLimit = 0
INVARIANTS OnePlace RetryAccounting AnswerIsOurs
PROPERTIES NoSilentDrop SentOnce OutcomeIsTrue
SYMMETRY MCSymmetry
CHECK_DEADLOCK FALSE
