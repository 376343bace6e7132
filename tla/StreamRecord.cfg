CONSTANTS
    Recorder = Recorder
    Replayer = Replayer
    clientId = clientId
    serverId = serverId
    a = a
    b = b
    RecHandles = {r1, r2}
    RepHandles = {p1, p2}
    Sessions = {Recorder, Replayer}
    SessionOf <- OneRecorder
    Ids = {bidiId, clientId}
    CounterIds = {bidiId, clientId}
    TypeOf <- StreamTypeOf
    Messages = {a}
    Scrub <- NoHooks
    MaxFrames = 0
SPECIFICATION Spec
SYMMETRY HandleSymmetry
INVARIANTS
    CounterSeparates
    LoadableIsOneRecording
    SavedStaysLoadable
    KthOpenServesKthRecording
PROPERTIES
    RefusedOnlyIfUnsaved
CHECK_DEADLOCK FALSE
