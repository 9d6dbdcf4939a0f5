CONSTANTS
    s1 = s1  s2 = s2
    Session <- TwoSessions
    NoSession = no_session
    TerminalCapable = FALSE
    EvidenceGate = FALSE
    AuthGate = FALSE
    Diagnostics = FALSE
    MaxRetained = 1
    MaxCommands = 2
    MaxOutput = 0
    MaxCloses = 0
    ExitCodes = {"clean"}
    MayStop = TRUE
SPECIFICATION Spec
CHECK_DEADLOCK FALSE
INVARIANTS ShutdownCompletes
