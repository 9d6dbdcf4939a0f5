CONSTANTS
    alice = alice  bob = bob
    a1 = a1  a2 = a2
    small = small  large = large
    Client <- MCClient
    NoClient = no_client
    Attachment <- MCAttachment
    NoAttachment = no_attachment
    Size <- MCSize
    TerminalCapable = TRUE
    MaxResizes = 2
SPECIFICATION Spec
CHECK_DEADLOCK FALSE
SYMMETRY Symmetry
INVARIANTS SingleOwner AttachmentsExact EofReachesAudience SizeSettles
