CONSTANTS
    Recorder = Recorder
    Replayer = Replayer
    clientId = clientId
    serverId = serverId
    a = a
    b = b
    RecHandles = {r1}
    RepHandles = {p1}
    Sessions = {Recorder, Replayer}
    SessionOf <- OneRecorder
    Ids = {bidiId, serverId}
    CounterIds = {bidiId}
    TypeOf <- StreamTypeOf
    Messages = {a, b}
    Scrub <- SameHook
    MaxFrames = 3
SPECIFICATION FairSpec
INVARIANTS
    TypeOK
    DenseNumbering
    MismatchIffDivergent
PROPERTIES
    MismatchIsTerminal
    ReadsReachTerminal
    ImplementsConversation
CHECK_DEADLOCK FALSE
