CONSTANTS
    s1 = s1  s2 = s2
    Session <- OneSession
    NoSession = no_session
    TerminalCapable = TRUE
    EvidenceGate = TRUE
    AuthGate = FALSE
    Diagnostics = TRUE
    MaxRetained = 1
    MaxCommands = 1
    MaxOutput = 0
    MaxCloses = 2
    ExitCodes = {"clean"}
    MayStop = FALSE
SPECIFICATION Spec
CHECK_DEADLOCK FALSE
INVARIANTS ClosedMeansReaped
