------------------------ MODULE MCInteractionBroker ------------------------
\* An instance of InteractionBroker for TLC: a prompt of an SSH child, of any
\* kind, and the prompt of a client's direct scope.
EXTENDS InteractionBroker, TLC

CONSTANTS i1, i2, ssh, scope, alice, bob

MCInteraction == {i1, i2}
MCSession     == {ssh, scope}
MCSessionOf   == i1 :> ssh @@ i2 :> scope
MCDirect      == {scope}
MCClient      == {alice, bob}
MCScopeClient == scope :> alice
MCMaxClaims   == i1 :> 2 @@ i2 :> 1
=============================================================================
