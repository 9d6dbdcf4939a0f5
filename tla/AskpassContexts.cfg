CONSTANTS
    c1 = c1  c2 = c2
    Child <- MCChild
    Passphrase = {c2}
    MaxPrompts = 2
SPECIFICATION AskpassSpec
CHECK_DEADLOCK FALSE
INVARIANTS SecretsAccounted
PROPERTIES NoReprompt
