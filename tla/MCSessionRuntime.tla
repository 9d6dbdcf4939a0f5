-------------------------- MODULE MCSessionRuntime --------------------------
\* Instances of SessionRuntime for TLC.
EXTENDS SessionRuntime, TLC

CONSTANTS s1, s2

OneSession  == {s1}
TwoSessions == {s1, s2}

\* Sessions are interchangeable: only their creation order, kept in born,
\* tells them apart.
Symmetry == Permutations(TwoSessions)
=============================================================================
