SPECIFICATION FairSpec
CONSTANTS
    c1 = c1
    c2 = c2
    c3 = c3
    t1 = t1
    t2 = t2
    m1 = m1
    m2 = m2
    r1 = r1
    r2 = r2
    Nodes = {n1, n2}
    Names = {a}
    NoName = NoName
    WriteFails = TRUE
    ReadFails = FALSE
    Channels = {c1, c2}
    Topics = {t1, t2}
    TopicOf <- MCTopicOf
    Messages = {m1, m2, r1, r2}
    BackoffLimit = 2
    Texts = {m1, m2}
    Replies = {r1, r2}
    TextChannel <- MCTextChannel
    TypedOn <- MCTypedOn
    MaxStarts = 2
INVARIANTS RepliesGoHome
PROPERTIES NamesKept CommitIsCurrent KeepsListening
CHECK_DEADLOCK FALSE
