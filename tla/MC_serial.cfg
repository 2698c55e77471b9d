SPECIFICATION FairSpec
CONSTANTS
    Messages <- MCMessages
    Noisy <- MCNoisy
    MaxSent = 3
    MaxNoise = 2
INVARIANTS NothingInvented NothingLost
PROPERTIES ReceivedAsSent Settles
CHECK_DEADLOCK FALSE
