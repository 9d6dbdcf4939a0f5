CONSTANTS
    c1 = c1  c2 = c2
    Child <- OneChild
    Passphrase = {}
    MaxPrompts = 2
SPECIFICATION AskpassSpec
CHECK_DEADLOCK FALSE
INVARIANTS OnlyProvenStored
