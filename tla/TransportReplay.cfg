CONSTANTS
    a = a
    b = b
    r = r
    s = s
    big = big
    k1 = k1
    k2 = k2
    Conns = {k1, k2}
    Routes <- SecondDial
    NumCalls = 2
    Recordings <- Pairs
    Messages = {a, b, r, s, big}
    TooBig = {big}
    NoMsg = NoMsg
    NoConn = NoConn
    Damages = {"none", "lost", "unary"}
    Wayward = {1}
    Stray = {b, big}
    Impatient = {2}
    Flaky = {k2}
SPECIFICATION FairSpec
INVARIANTS
    FaithfulClientIsServed
    NoRecordingServedTwice
    ProbesPartitionOpens
PROPERTIES
    AnsweredOnce
    NoReplyIsOwedForever
CHECK_DEADLOCK FALSE
