--------------------------- MODULE MCTerminalReplay ---------------------------
(* Three sessions whose rings do not all fit the daemon-wide budget. *)
EXTENDS TerminalReplay, TLC

CONSTANTS s1, s2, s3

ThreeSessions == {s1, s2, s3}

Symmetry == Permutations(ThreeSessions)
===============================================================================
