------------------------- MODULE MCOperationRuntime -------------------------
(* One operation with a process, one with a cancel hook that reports        *)
(* progress.                                                               *)
EXTENDS OperationRuntime

CONSTANTS o1, o2

MCMaxProgress == [o \in Operation |-> IF o = o1 THEN 0 ELSE 1]

=============================================================================
