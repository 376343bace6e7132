CONSTANTS
    Ids = {1, 3}
    Base = 2
    LengthDigits = 2
    MaxSize = 2
    Conversations <- UpToTwoMessages
    Receivers = {"tap"}
SPECIFICATION Spec
INVARIANTS
    Reassembled
    FailsOnlyOverCap
CHECK_DEADLOCK FALSE
