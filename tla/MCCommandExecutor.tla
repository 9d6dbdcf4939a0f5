------------------------- MODULE MCCommandExecutor -------------------------
(* Two workers, a lane of three commands and a lane of one.                *)
EXTENDS CommandExecutor

CONSTANTS w1, w2, sessionA, sessionB, start, close, close2, other

MCWorker  == {w1, w2}
MCKey     == {sessionA, sessionB}
MCCommand == {start, close, close2, other}
MCKeyOf   == [c \in MCCommand |-> IF c = other THEN sessionB ELSE sessionA]
=============================================================================
