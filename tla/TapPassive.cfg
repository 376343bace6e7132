CONSTANTS
    s1 = s1
    s3 = s3
    Ids = {s1}
    Encodings = {"identity", "gzip"}
    Paths = {"grpc"}
    Resetters = {}
    SaveResults = {TRUE}
    MaxSends = 1
    MaxRecvs = 1
SPECIFICATION FairSpec
PROPERTIES
    TapIsPassive
CHECK_DEADLOCK FALSE
