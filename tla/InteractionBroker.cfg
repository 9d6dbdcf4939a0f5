CONSTANTS
    i1 = i1  i2 = i2
    ssh = ssh  scope = scope
    alice = alice  bob = bob
    Interaction <- MCInteraction
    Session <- MCSession
    SessionOf <- MCSessionOf
    Direct <- MCDirect
    Kinds = {"secret", "hostkey"}
    Client <- MCClient
    NoClient = no_client
    Limit = 1
    ScopeClient <- MCScopeClient
    MaxClaims <- MCMaxClaims
SPECIFICATION FairSpec
CHECK_DEADLOCK FALSE
INVARIANTS SecretsSafe AnswersSound
PROPERTIES OneOutcome WaitEnds
