SPECIFICATION FairSpec
CONSTANTS
    a = a
    b = b
    c = c
    d = d
    p1 = p1
    p2 = p2
    Nodes = {a, b, c, d}
    Near <- MCNear
    Forwarders = {a, b, c, d}
    Channels <- MCChannels
    Packets = {p1, p2}
    From <- MCFrom
    To <- MCTo
    Broadcast = Broadcast
    Over <- MCOver
    WantAck = {p2}
    ViaMqtt = {}
    HopStart = 2
    Repeats = 1
    Published = 1
INVARIANTS HeadersTrue
PROPERTIES DiesOut Reaches
CHECK_DEADLOCK FALSE
