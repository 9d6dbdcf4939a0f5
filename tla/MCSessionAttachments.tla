----------------------- MODULE MCSessionAttachments -----------------------
\* Instances of SessionAttachments for TLC.
EXTENDS SessionAttachments, TLC

CONSTANTS alice, bob, a1, a2, small, large

MCClient == {alice, bob}
MCAttachment == {a1, a2}
MCSize == {small, large}

\* Clients, attachment ids and sizes are interchangeable.
Symmetry == Permutations(MCClient) \union Permutations(MCAttachment)
                \union Permutations(MCSize)
=============================================================================
