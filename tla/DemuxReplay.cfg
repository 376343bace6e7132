CONSTANTS
    Ids = {1}
    Base = 2
    LengthDigits = 2
    MaxSize = 2
    Conversations <- UpToTwoMessages
    Receivers = {"replay"}
SPECIFICATION Spec
INVARIANTS
    ReplayReassembles
CHECK_DEADLOCK FALSE
