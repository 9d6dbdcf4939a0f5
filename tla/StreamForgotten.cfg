CONSTANTS
    MaxOutput = 3
    MaxPublish = 1
    MaxPeer = 2
    MaxDispatch = 1
    MaxSpool = 2
    PageSize = 2
SPECIFICATION Spec
CHECK_DEADLOCK FALSE
INVARIANTS LossIsKept
