------------------------- MODULE MCAskpassContexts -------------------------
\* Instances of AskpassContexts for TLC.
EXTENDS AskpassContexts

CONSTANTS c1, c2

OneChild == {c1}
MCChild  == {c1, c2}
=============================================================================
