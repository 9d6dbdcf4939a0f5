CONSTANTS
    MaxOutput = 4
    MaxPublish = 1
    MaxPeer = 2
    MaxDispatch = 2
    MaxSpool = 2
    PageSize = 2
SPECIFICATION Spec
CHECK_DEADLOCK FALSE
INVARIANTS NoGapFed
