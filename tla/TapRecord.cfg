CONSTANTS
    s1 = s1
    s3 = s3
    Ids = {s1}
    Encodings = {"identity", "gzip"}
    Paths = {"grpc", "other"}
    Resetters = {"client", "server"}
    SaveResults = {TRUE, FALSE}
    MaxSends = 2
    MaxRecvs = 1
SPECIFICATION FairSpec
INVARIANTS
    SavedPairIsOneCall
    OnePairPerStream
    CleanCloseIsComplete
PROPERTIES
    QuietAfterClose
    CloseReleases
    MirrorIsTaken
CHECK_DEADLOCK FALSE
