CONSTANTS
    Calls = {c1, c2, c3}
    Scenarios <- TheScenarios
    NoFingerprint <- NoneFiled
    FingerprintOf <- Fingerprinted
    Alike <- SameInteractions
    Responses <- TheResponses
    Payloads <- ThePayloads
    EmptyPayload <- NoPayload
    Redact <- Mask
    Texts = {"boom", ""}
SPECIFICATION Spec
SYMMETRY CallSymmetry
INVARIANTS
    ReturnedIsReplayable
    ReplayIsOneOutcome
    ReplayIsOfTheSameInteraction
CHECK_DEADLOCK FALSE
