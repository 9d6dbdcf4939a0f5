-------------------------- MODULE MCForwardRuntime --------------------------
(* Two forwards.  The close of the first may be refused and asked again;   *)
(* the second fills the executor and is closed by shutdown() only.         *)
EXTENDS ForwardRuntime, TLC

CONSTANTS f1, f2

MCMaxCloses == [f \in Forward |-> IF f = f1 THEN 2 ELSE 0]

=============================================================================
