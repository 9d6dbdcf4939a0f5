CONSTANTS
    MaxOutput = 2
    MaxPublish = 1
    MaxPeer = 2
    MaxDispatch = 2
    MaxSpool = 2
    PageSize = 1
SPECIFICATION FairSpec
CHECK_DEADLOCK FALSE
PROPERTIES RecoveryEnds
