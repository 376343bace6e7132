CONSTANTS
    a = a
    b = b
    c = c
    Messages = {a, b, c}
    Scrub <- MixHook
    Codes = {"Unavailable", "OK"}
    MaxSends = 2
    MaxRecvs = 1
SPECIFICATION FairSpec
INVARIANTS
    SavedPairIsWhatHappened
    FaithfulClientIsServed
    ReadsAreReplayed
PROPERTIES
    TerminalIsRecorded
CHECK_DEADLOCK FALSE
