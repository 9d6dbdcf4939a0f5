CONSTANTS
    o1 = o1
    o2 = o2
    Operation = {o1, o2}
    Retention = 1
    Hooked = {o2}
    Supervised = {o1}
    MaxProgress <- MCMaxProgress
    MayStop = TRUE
SPECIFICATION FairSpec
CHECK_DEADLOCK FALSE
INVARIANTS CancelReaches HookReached RecordsSound
PROPERTIES OperationSettles
