CONSTANTS
    NumRuns = 2
    Plans <- ThePlans
    NumInvocations = 2
    Programs <- ThePrograms
    Environ <- TheEnviron
    RedactorEnv <- TheRedactorEnv
    Faults = {"setup", "lookup", "save", "report", "kill", "lost", "torn"}
    MaxFaults = 1
    Secrets <- AllSecrets
    Foreign <- TheForeign
SPECIFICATION FairSpec
INVARIANTS
    RealRunsOnlyIfAllowed
    FailureFailsTheRun
    RecordedIsLoadable
    RecordedCallReplays
    ReplayIsOfARecording
    RealGetsItsInput
    SecretsStayOffDisk
PROPERTIES
    ShimAnswers
CHECK_DEADLOCK FALSE
