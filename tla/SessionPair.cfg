CONSTANTS
    s1 = s1  s2 = s2
    Session <- TwoSessions
    NoSession = no_session
    TerminalCapable = FALSE
    EvidenceGate = FALSE
    AuthGate = TRUE
    Diagnostics = FALSE
    MaxRetained = 1
    MaxCommands = 1
    MaxOutput = 0
    MaxCloses = 1
    ExitCodes = {"clean"}
    MayStop = TRUE
SPECIFICATION Spec
CHECK_DEADLOCK FALSE
SYMMETRY Symmetry
INVARIANTS OpensKept
