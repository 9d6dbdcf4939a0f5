CONSTANTS
    t1 = t1
    t2 = t2
    t3 = t3
    t4 = t4
    s1 = s1
    Transfer = {t1, t4}
    Service = {s1}
    Scp = Scp
    ServiceOf <- MCServiceOf
    ServiceLimit <- MCServiceLimit
    MaxConcurrent = 1
    MaxQueued = 1
    MaxRetained = 1
    MaxClients = 2
    MayStop = TRUE
SPECIFICATION FairSpec
CHECK_DEADLOCK FALSE
INVARIANTS RecordsSound
PROPERTIES TransfersSettle
