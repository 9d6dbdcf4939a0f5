------------------------- MODULE MCTransferRuntime -------------------------
(* Transfers of one service that takes one at a time and, as t4, one SCP   *)
(* copy.                                                                   *)
EXTENDS TransferRuntime, TLC

CONSTANTS t1, t2, t3, t4, s1

MCServiceOf == [t \in Transfer |-> IF t = t4 THEN Scp ELSE s1]
MCServiceLimit == [s \in Service |-> 1]

(* The SFTP transfers are interchangeable. *)
SftpTransfers == Permutations({t1, t2, t3})

=============================================================================
