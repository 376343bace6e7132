CONSTANTS
    s1 = s1
    s3 = s3
    Ids = {s1, s3}
    Encodings = {"identity"}
    Paths = {"grpc"}
    Resetters = {}
    SaveResults = {TRUE}
    MaxSends = 0
    MaxRecvs = 1
SPECIFICATION Spec
INVARIANTS
    SavedPairIsOneCall
SYMMETRY StreamSymmetry
CHECK_DEADLOCK FALSE
