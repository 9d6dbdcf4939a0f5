-------------------------- MODULE MCTerminalStream --------------------------
(* Three chunks of output; the publication queue of the daemon and the     *)
(* terminal queue of the client hold one item, the peer's queue and the    *)
(* spool hold two, which is also the size of a page.                       *)
EXTENDS TerminalStream, TLC

=============================================================================
