CONSTANTS
    s1 = s1  s2 = s2
    Session <- OneSession
    NoSession = no_session
    TerminalCapable = TRUE
    EvidenceGate = TRUE
    AuthGate = FALSE
    Diagnostics = TRUE
    MaxRetained = 1
    MaxCommands = 1
    MaxOutput = 1
    MaxCloses = 1
    ExitCodes = {"error"}
    MayStop = FALSE
SPECIFICATION FairSpec
CHECK_DEADLOCK FALSE
INVARIANTS RecordsSound NoAbandonedProcess OutputComplete
PROPERTIES EventOrder RunningIsProven SessionsSettle
