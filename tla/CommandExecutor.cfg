CONSTANTS
    w1 = w1  w2 = w2
    sessionA = sessionA  sessionB = sessionB
    start = start  close = close  close2 = close2  other = other
    Worker <- MCWorker
    Closer = closer_thread
    Key <- MCKey
    Command <- MCCommand
    KeyOf <- MCKeyOf
    MaxCommands = 3
    NoCommand = no_command
SPECIFICATION FairSpec
CHECK_DEADLOCK FALSE
INVARIANTS LaneExclusion BookkeepingExact
PROPERTIES NothingBeginsAfterStop ImplementsSerialLanes ResolvedExactlyOnce
