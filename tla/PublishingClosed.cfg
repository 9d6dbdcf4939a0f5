CONSTANTS
    o1 = o1
    o2 = o2
    Operation = {o1, o2}
    Retention = 1
    Hooked = {o2}
    Supervised = {o1}
    MaxProgress <- MCMaxProgress
    MayStop = TRUE
SPECIFICATION Spec
INVARIANT PublishingClosed
CHECK_DEADLOCK FALSE
