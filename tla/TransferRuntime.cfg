CONSTANTS
    t1 = t1
    t2 = t2
    t3 = t3
    t4 = t4
    s1 = s1
    Transfer = {t1, t2, t3, t4}
    Service = {s1}
    Scp = Scp
    ServiceOf <- MCServiceOf
    ServiceLimit <- MCServiceLimit
    MaxConcurrent = 2
    MaxQueued = 2
    MaxRetained = 1
    MaxClients = 1
    MayStop = FALSE
SYMMETRY SftpTransfers
SPECIFICATION Spec
CHECK_DEADLOCK FALSE
INVARIANTS SlotsExact ActiveHasKeeper
PROPERTIES FifoPerService
