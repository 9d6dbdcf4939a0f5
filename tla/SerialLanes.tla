---------------------------- MODULE SerialLanes ----------------------------
(***************************************************************************)
(* What BoundedCommandExecutor promises its callers: every key owns one    *)
(* FIFO lane of commands, at most the head of a lane is running, a bounded *)
(* number of commands is outstanding, and stopping drops exactly the       *)
(* commands that have not begun.                                           *)
(***************************************************************************)
EXTENDS Naturals, Sequences, FiniteSets

CONSTANTS Key,          \* lane names: session ids, reload keys, ...
          Command,      \* commands
          KeyOf,        \* the lane of each command
          MaxCommands   \* bound on outstanding commands

VARIABLES lane,         \* lane[k]: accepted, unfinished commands, oldest first
          busy,         \* the lanes whose head is running
          outstanding,  \* accepted, unfinished commands
          accepting     \* FALSE once the executor stops accepting

lanesVars == <<lane, busy, outstanding, accepting>>

LanesInit ==
    /\ lane = [k \in Key |-> <<>>]
    /\ busy = {}
    /\ outstanding = 0
    /\ accepting = TRUE

\* Room for one more command (the submit precondition).
CanAccept == accepting /\ outstanding < MaxCommands

Accept(c) ==
    /\ CanAccept
    /\ lane' = [lane EXCEPT ![KeyOf[c]] = Append(@, c)]
    /\ outstanding' = outstanding + 1
    /\ UNCHANGED <<busy, accepting>>

\* A worker takes the head of a lane that has none running.
Begin(k) ==
    /\ k \notin busy
    /\ lane[k] # <<>>
    /\ busy' = busy \union {k}
    /\ UNCHANGED <<lane, outstanding, accepting>>

Finish(k) ==
    /\ k \in busy
    /\ lane' = [lane EXCEPT ![k] = Tail(@)]
    /\ busy' = busy \ {k}
    /\ outstanding' = outstanding - 1
    /\ UNCHANGED accepting

\* Stop accepting and drop what has not begun; running heads stay.
StopAndCancel ==
    /\ accepting' = FALSE
    /\ lane' = [k \in Key |-> IF k \in busy THEN SubSeq(lane[k], 1, 1) ELSE <<>>]
    /\ outstanding' = Cardinality(busy)
    /\ UNCHANGED busy

LanesNext ==
    \/ \E c \in Command : Accept(c)
    \/ \E k \in Key : Begin(k) \/ Finish(k)
    \/ StopAndCancel

LanesSpec == LanesInit /\ [][LanesNext]_lanesVars
=============================================================================
