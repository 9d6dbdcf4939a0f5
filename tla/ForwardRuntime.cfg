CONSTANTS
    f1 = f1
    f2 = f2
    Forward = {f1, f2}
    MaxRetained = 0
    MaxCommands = 2
    MaxCloses <- MCMaxCloses
SPECIFICATION FairSpec
CHECK_DEADLOCK FALSE
INVARIANTS ProcessesKept RecordsSound
PROPERTIES ForwardsSettle StoppedMeansReaped
