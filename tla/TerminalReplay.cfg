SPECIFICATION Spec
SYMMETRY Symmetry
CONSTANTS
    s1 = s1
    s2 = s2
    s3 = s3
    Session <- ThreeSessions
    NoSession = NoSession
    MaxBytes = 3
    GlobalBytes = 4
    ChunkSize = {1, 3}
    PageSize = {1, 2}
    MaxOutput = 4
CHECK_DEADLOCK FALSE
INVARIANTS BuffersExact NoSilentGap
PROPERTIES TrimOldestFirst
