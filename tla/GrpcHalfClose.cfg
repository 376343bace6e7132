CONSTANTS
    a = a
    b = b
    c = c
    Messages = {a, b}
    Scrub <- MixHook
    Codes = {"Unavailable"}
    MaxSends = 2
    MaxRecvs = 1
SPECIFICATION Spec
INVARIANTS
    HalfCloseBeforeTerminal
CHECK_DEADLOCK FALSE
