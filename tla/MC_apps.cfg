SPECIFICATION FairSpec
CONSTANTS
    Publishers = {"text", "node_info", "telemetry", "position"}
    Configured <- MCConfigured
    Assignments <- MCAssignments
    Unmarshallable <- MCUnmarshallable
    Channels <- MCChannels
    GoodKeys = {0}
    Numbers = {0, 1, 2}
    Size = 2
    Repeated = TRUE
    JitterMs = {0, 1, 16}
    Millisecond = 6
    Word = 32
INVARIANTS RecentIdsDiffer
PROPERTIES KeepsPublishing
CHECK_DEADLOCK FALSE
