--------------------------- MODULE ForwardRuntime ---------------------------
(***************************************************************************)
(* ForwardRuntime and SubprocessForwardProcessRunner                       *)
(* (daemon/forward_runtime.py): port forwards, each an `ssh -N` process.   *)
(* The threads that meet here:                                             *)
(*   the selector thread   forwards.open and forwards.close and, when the  *)
(*                         daemon stops, shutdown()                        *)
(*   the command executor  start_forward and finish_close_forward, one     *)
(*                         lane per forward id, first in first out (what   *)
(*                         SerialLanes promises)                           *)
(*   the reapers           one per process: unregister, _on_process_exit   *)
(* Every `with self._lock` block is one action.  Nothing but a transition  *)
(* happens in _fail, so a thread that decides to fail a forward does so in *)
(* the action that decides.                                                *)
(*                                                                         *)
(* Ownership (claim_forward, detach_client) only decides who may ask for a *)
(* close; the requests here are those of a client that may.                *)
(* Time is left out: the activation deadline, the deadline of shutdown()   *)
(* and a child's exit may come at any moment.  Events, summaries and the   *)
(* forward's addresses are left out; whether the local port is free and    *)
(* whether the forward answers are choices of the environment.             *)
(* Definitions with the suffix Mut are faulty variants used to test the    *)
(* properties.                                                             *)
(***************************************************************************)
EXTENDS Integers, Sequences, FiniteSets, Functions, Selection

CONSTANTS Forward,      \* forward ids; each is opened at most once
          MaxRetained,  \* max_retained_closed_forwards
          MaxCommands,  \* capacity of the command executor
          MaxCloses     \* bound: close requests, for each forward

ASSUME ForwardAssumption ==
    /\ IsFiniteSet(Forward)
    /\ MaxRetained \in Nat
    /\ MaxCommands \in Nat \ {0}
    /\ MaxCloses \in [Forward -> Nat]

VARIABLES
    state,      \* record.state; "absent" before the record exists
    order,      \* _creation_order: the keys of _records, oldest first
    handle,     \* forwards whose record.handle is set
    scheduled,  \* forwards with record.close_scheduled
    lane,       \* commands of each forward in the executor, the running one first
    step,       \* control point of the running command of each forward
    submitting, \* forwards whose close is prepared and not yet submitted
    closes,     \* close requests made so far
    proc,       \* the child of each forward
    reaper,     \* control point of its reaper thread
    handles,    \* _handles of the runner
    closer,     \* control point of shutdown()
    walk,       \* the ids shutdown() has still to close
    dropped     \* history: forwards whose live process was let go by _fail

recordVars  == <<state, order, handle>>
commandVars == <<lane, step>>
childVars   == <<proc, reaper, handles>>
requestVars == <<scheduled, submitting, closes>>
closerVars  == <<closer, walk>>
vars == <<recordVars, commandVars, childVars, requestVars,
          closerVars, dropped>>

Over   == {"failed", "closed"}
States == {"absent", "starting", "active", "closing"} \cup Over

Stored == Range(order)

Init ==
    /\ state = [f \in Forward |-> "absent"]
    /\ order = <<>>
    /\ handle = {}
    /\ scheduled = {}
    /\ lane = [f \in Forward |-> <<>>]
    /\ step = [f \in Forward |-> "idle"]
    /\ submitting = {}
    /\ closes = [f \in Forward |-> 0]
    /\ proc = [f \in Forward |-> "none"]
    /\ reaper = [f \in Forward |-> "waiting"]
    /\ handles = {}
    /\ closer = "serving"
    /\ walk = <<>>
    /\ dropped = {}

-----------------------------------------------------------------------------
(* Transitions.  Closing a record trims the closed ones, oldest first.     *)

Evict(ord, st) == Trimmed(ord, {f \in Forward : st[f] = "closed"}, MaxRetained)

Transition(f, s) ==
    /\ state' = [state EXCEPT ![f] = s]
    /\ order' = IF s = "closed" THEN Evict(order, state') ELSE order

Fail(f) ==
    IF state[f] \in Over
    THEN UNCHANGED recordVars
    ELSE Transition(f, "failed") /\ handle' = handle \ {f}

(* terminate(), and kill() when the grace period passes.                   *)
Signal(fs) ==
    proc' = [f \in Forward |->
               IF f \in fs /\ proc[f] = "alive" THEN "signalled" ELSE proc[f]]

-----------------------------------------------------------------------------
(* The executor, as SerialLanes has it: the head of a lane is running.     *)

Commands == UNION {{<<f, i>> : i \in DOMAIN lane[f]} : f \in Forward}
HasRoom  == Cardinality(Commands) < MaxCommands
Submit(f, c) == lane' = [lane EXCEPT ![f] = Append(@, c)]

Returns(f) ==
    /\ lane' = [lane EXCEPT ![f] = Tail(@)]
    /\ step' = [step EXCEPT ![f] = "idle"]

Runs(f, c, at) ==
    /\ lane[f] # <<>>
    /\ Head(lane[f]) = c
    /\ step[f] = at

Goto(f, at) == step' = [step EXCEPT ![f] = at] /\ UNCHANGED lane

-----------------------------------------------------------------------------
(* Requests, on the selector thread.                                       *)

SelectorServes == closer = "serving" /\ submitting = {}

(* prepare_open_forward leaves the record STARTING; the start command is   *)
(* submitted, or refused by a full executor.                               *)
OpenForward(f) ==
    /\ SelectorServes
    /\ state[f] = "absent"
    /\ order' = Append(order, f)
    /\ \/ /\ HasRoom
          /\ state' = [state EXCEPT ![f] = "starting"]
          /\ Submit(f, "start")
       \/ /\ ~HasRoom
          /\ state' = [state EXCEPT ![f] = "failed"]
          /\ UNCHANGED lane
    /\ UNCHANGED <<handle, step, childVars, requestVars, closerVars,
                   dropped>>

PrepareClose(f) ==
    IF state[f] = "failed" /\ f \notin handle
    THEN Transition(f, "closed") /\ UNCHANGED <<scheduled, submitting>>
    ELSE /\ IF state[f] \in {"starting", "active"} THEN Transition(f, "closing")
                                                   ELSE UNCHANGED <<state, order>>
         /\ scheduled' = scheduled \cup {f}
         /\ submitting' = {f}

CloseForward(f) ==
    /\ SelectorServes
    /\ closes[f] < MaxCloses[f]
    /\ closes' = [closes EXCEPT ![f] = @ + 1]
    /\ f \in Stored
    /\ state[f] # "closed"
    /\ f \notin scheduled
    /\ PrepareClose(f)
    /\ UNCHANGED <<handle, commandVars, childVars, closerVars, dropped>>

CloseSubmitted(f) ==
    /\ f \in submitting
    /\ HasRoom
    /\ Submit(f, "close")
    /\ submitting' = {}
    /\ UNCHANGED <<recordVars, step, childVars, scheduled, closes,
                   closerVars, dropped>>

(* reject_pending_close: the record keeps its handle.                      *)
RejectClose(f) ==
    IF f \in Stored /\ state[f] = "closing"
    THEN Transition(f, "failed") /\ UNCHANGED handle
    ELSE UNCHANGED recordVars

CloseRejected(f) ==
    /\ f \in submitting
    /\ ~HasRoom
    /\ scheduled' = IF f \in Stored THEN scheduled \ {f} ELSE scheduled
    /\ submitting' = {}
    /\ RejectClose(f)
    /\ UNCHANGED <<commandVars, childVars, closes, closerVars, dropped>>

-----------------------------------------------------------------------------
(* start_forward, on a worker of the executor.                             *)

(* The record was evicted (_record_locked raises and fail_pending_start    *)
(* finds nothing either) or is over already.                               *)
StartReturnsEarly(f) ==
    /\ Runs(f, "start", "idle")
    /\ f \notin Stored \/ state[f] \notin {"starting", "closing"}
    /\ Returns(f)
    /\ UNCHANGED <<recordVars, childVars, requestVars, closerVars,
                   dropped>>

StartBegins(f) ==
    /\ Runs(f, "start", "idle")
    /\ f \in Stored
    /\ state[f] \in {"starting", "closing"}
    /\ Goto(f, "launching")
    /\ UNCHANGED <<recordVars, childVars, requestVars, closerVars,
                   dropped>>

(* The port of a STARTING forward is taken, the command cannot be built,   *)
(* Popen fails, the child cannot be recorded as owned (it is killed), or   *)
(* the runner is closed.                                                   *)
StartFails(f) ==
    /\ Runs(f, "start", "launching")
    /\ Fail(f)
    /\ Returns(f)
    /\ UNCHANGED <<childVars, requestVars, closerVars, dropped>>

(* The runner is not closed; Popen comes after that look.                  *)
RunnerIsOpen(f) ==
    /\ Runs(f, "start", "launching")
    /\ closer # "closed"
    /\ Goto(f, "spawning")
    /\ UNCHANGED <<recordVars, childVars, requestVars, closerVars,
                   dropped>>

(* Popen, then the handle with its reaper thread.                          *)
StartSpawns(f) ==
    /\ Runs(f, "start", "spawning")
    /\ proc' = [proc EXCEPT ![f] = "alive"]
    /\ Goto(f, "registering")
    /\ UNCHANGED <<recordVars, reaper, handles, requestVars,
                   closerVars, dropped>>

StartRegistersMut(f) ==   \* mutant: no second look at _closed
    /\ Runs(f, "start", "registering")
    /\ handles' = handles \cup {f}
    /\ Goto(f, "storing")
    /\ UNCHANGED <<recordVars, proc, reaper, requestVars, closerVars,
                   dropped>>

(* The runner was closed meanwhile: terminate the child and fail; or know  *)
(* the handle from now on.                                                 *)
StartRegisters(f) ==
    /\ Runs(f, "start", "registering")
    /\ \/ /\ closer = "closed"
          /\ Signal({f})
          /\ Fail(f)
          /\ Returns(f)
          /\ UNCHANGED handles
       \/ /\ closer # "closed"
          /\ handles' = handles \cup {f}
          /\ Goto(f, "storing")
          /\ UNCHANGED <<recordVars, proc>>
    /\ UNCHANGED <<reaper, requestVars, closerVars, dropped>>

StartStoresMut(f) ==   \* mutant: forgets to terminate the child it does not keep
    /\ Runs(f, "start", "storing")
    /\ handle' = IF state[f] \in {"starting", "closing"} THEN handle \cup {f} ELSE handle
    /\ IF state[f] = "starting" THEN Goto(f, "detecting") ELSE Returns(f)
    /\ UNCHANGED <<state, order, childVars, requestVars, closerVars,
                   dropped>>

(* The forward is over: terminate the child.  CLOSING: keep the handle for *)
(* the close that is queued.  STARTING: keep it and wait for the forward.  *)
StartStores(f) ==
    /\ Runs(f, "start", "storing")
    /\ \/ /\ state[f] \notin {"starting", "closing"}
          /\ Signal({f})
          /\ Returns(f)
          /\ UNCHANGED handle
       \/ /\ state[f] = "closing"
          /\ handle' = handle \cup {f}
          /\ Returns(f)
          /\ UNCHANGED proc
       \/ /\ state[f] = "starting"
          /\ handle' = handle \cup {f}
          /\ Goto(f, "detecting")
          /\ UNCHANGED proc
    /\ UNCHANGED <<state, order, reaper, handles, requestVars,
                   closerVars, dropped>>

(* _detect_active: no handle, a dead child, or the deadline.  _fail drops  *)
(* the handle whether or not the child still runs.                         *)
DetectFails(f) ==
    /\ Runs(f, "start", "detecting")
    /\ Fail(f)
    /\ Returns(f)
    /\ dropped' = IF state[f] \notin Over /\ f \in handle /\ proc[f] # "dead"
                  THEN dropped \cup {f} ELSE dropped
    /\ UNCHANGED <<childVars, requestVars, closerVars>>

DetectSucceeds(f) ==
    /\ Runs(f, "start", "detecting")
    /\ f \in handle
    /\ proc[f] # "dead"
    /\ Goto(f, "proven")
    /\ UNCHANGED <<recordVars, childVars, requestVars, closerVars,
                   dropped>>

StartActivatesMut(f) ==   \* mutant: no look at the state after the wait
    /\ Runs(f, "start", "proven")
    /\ Transition(f, "active")
    /\ Returns(f)
    /\ UNCHANGED <<handle, childVars, requestVars, closerVars, dropped>>

StartActivates(f) ==
    /\ Runs(f, "start", "proven")
    /\ IF state[f] = "starting" THEN Transition(f, "active")
                                ELSE UNCHANGED <<state, order>>
    /\ Returns(f)
    /\ UNCHANGED <<handle, childVars, requestVars, closerVars, dropped>>

-----------------------------------------------------------------------------
(* _close_forward_id, on a worker and in shutdown().                       *)

CloseId(f) ==
    CASE state[f] = "failed" /\ f \notin handle -> Transition(f, "closed")
      [] state[f] \in {"starting", "active"}    -> Transition(f, "closing")
      [] OTHER                                  -> UNCHANGED <<state, order>>

CloseReturnsEarly(f) ==
    /\ Runs(f, "close", "idle")
    /\ f \notin Stored \/ state[f] = "closed"
    /\ Returns(f)
    /\ UNCHANGED <<recordVars, childVars, requestVars, closerVars,
                   dropped>>

CloseBegins(f) ==
    /\ Runs(f, "close", "idle")
    /\ f \in Stored
    /\ state[f] # "closed"
    /\ CloseId(f)
    /\ IF f \in handle THEN Goto(f, "signalling") ELSE Returns(f)
    /\ UNCHANGED <<handle, childVars, requestVars, closerVars, dropped>>

CloseSignalsMut(f) ==   \* mutant: leaves the child alone when the forward has failed
    /\ Runs(f, "close", "signalling")
    /\ Signal(IF state[f] = "failed" THEN {} ELSE {f})
    /\ Returns(f)
    /\ UNCHANGED <<recordVars, reaper, handles, requestVars,
                   closerVars, dropped>>

CloseSignals(f) ==
    /\ Runs(f, "close", "signalling")
    /\ Signal({f})
    /\ Returns(f)
    /\ UNCHANGED <<recordVars, reaper, handles, requestVars,
                   closerVars, dropped>>

-----------------------------------------------------------------------------
(* The child and its reaper thread.                                        *)

ChildExits(f) ==
    /\ proc[f] \in {"alive", "signalled"}
    /\ proc' = [proc EXCEPT ![f] = "dead"]
    /\ reaper' = [reaper EXCEPT ![f] = "returned"]
    /\ UNCHANGED <<recordVars, commandVars, handles, requestVars,
                   closerVars, dropped>>

Unregister(f) ==
    /\ reaper[f] = "returned"
    /\ handles' = handles \ {f}
    /\ reaper' = [reaper EXCEPT ![f] = "notifying"]
    /\ UNCHANGED <<recordVars, commandVars, proc, requestVars,
                   closerVars, dropped>>

(* _on_process_exit: CLOSING ends here; for an exit nobody asked for the   *)
(* lock is released before _fail takes it again.                           *)
OnProcessExit(f) ==
    /\ reaper[f] = "notifying"
    /\ \/ /\ f \notin Stored \/ state[f] \in Over
          /\ reaper' = [reaper EXCEPT ![f] = "done"]
          /\ UNCHANGED recordVars
       \/ /\ f \in Stored
          /\ state[f] = "closing"
          /\ handle' = handle \ {f}
          /\ Transition(f, "closed")
          /\ reaper' = [reaper EXCEPT ![f] = "done"]
       \/ /\ f \in Stored
          /\ state[f] \in {"starting", "active"}
          /\ handle' = handle \ {f}
          /\ reaper' = [reaper EXCEPT ![f] = "failing"]
          /\ UNCHANGED <<state, order>>
    /\ UNCHANGED <<commandVars, proc, handles, requestVars,
                   closerVars, dropped>>

ExitFails(f) ==
    /\ reaper[f] = "failing"
    /\ Fail(f)
    /\ reaper' = [reaper EXCEPT ![f] = "done"]
    /\ UNCHANGED <<commandVars, proc, handles, requestVars,
                   closerVars, dropped>>

-----------------------------------------------------------------------------
(* The daemon stops.                                                       *)

(* The executor drops what it has not begun: a start is failed, a close is *)
(* forgotten.  A worker may have taken the head of a lane already.         *)
StopExecutor ==
    /\ SelectorServes
    /\ closer' = "stopping"
    /\ \E held \in SUBSET {f \in Forward : lane[f] # <<>> /\ step[f] = "idle"} :
         LET kept == held \cup {f \in Forward : step[f] # "idle"}
             cut  == {f \in Forward \ kept : "start" \in Range(lane[f])}
         IN /\ lane' = [f \in Forward |->
                          IF f \in kept THEN SubSeq(lane[f], 1, 1) ELSE <<>>]
            /\ state' = [f \in Forward |->
                           IF f \in cut /\ state[f] \notin Over THEN "failed" ELSE state[f]]
            /\ handle' = handle \ {f \in cut : state[f] \notin Over}
    /\ UNCHANGED <<order, step, childVars, requestVars, walk, dropped>>

ShutdownBegins ==
    /\ closer = "stopping"
    /\ closer' = "walking"
    /\ walk' = order
    /\ UNCHANGED <<recordVars, commandVars, childVars, requestVars,
                   dropped>>

ShutdownCloses ==
    /\ closer = "walking"
    /\ walk # <<>>
    /\ Head(walk) \in Stored
    /\ CloseId(Head(walk))
    /\ IF Head(walk) \in handle /\ state[Head(walk)] # "closed"
       THEN closer' = "signalling" /\ UNCHANGED walk
       ELSE walk' = Tail(walk) /\ UNCHANGED closer
    /\ UNCHANGED <<handle, commandVars, childVars, requestVars, dropped>>

ShutdownSignals ==
    /\ closer = "signalling"
    /\ Signal({Head(walk)})
    /\ walk' = Tail(walk)
    /\ closer' = "walking"
    /\ UNCHANGED <<recordVars, commandVars, reaper, handles, requestVars, dropped>>

(* The record was evicted since the snapshot: _record_locked raises, and   *)
(* the server goes on without the rest of shutdown().                      *)
ShutdownRaises ==
    /\ closer = "walking"
    /\ walk # <<>>
    /\ Head(walk) \notin Stored
    /\ closer' = "aborted"
    /\ UNCHANGED <<recordVars, commandVars, childVars, requestVars,
                   walk, dropped>>

(* All forwards are over, or the deadline passed: the runner is closed and *)
(* terminates what it has registered.                                      *)
RunnerCloses ==
    /\ closer = "walking"
    /\ walk = <<>>
    /\ closer' = "closed"
    /\ Signal(handles)
    /\ handles' = {}
    /\ UNCHANGED <<recordVars, commandVars, reaper, requestVars,
                   walk, dropped>>

-----------------------------------------------------------------------------
Request == \E f \in Forward : OpenForward(f) \/ CloseForward(f)
Submission == \E f \in Forward : CloseSubmitted(f) \/ CloseRejected(f)
Worker(f) ==
    \/ StartReturnsEarly(f) \/ StartBegins(f) \/ StartFails(f)
    \/ RunnerIsOpen(f) \/ StartSpawns(f) \/ StartRegisters(f) \/ StartStores(f)
    \/ DetectFails(f) \/ DetectSucceeds(f) \/ StartActivates(f)
    \/ CloseReturnsEarly(f) \/ CloseBegins(f) \/ CloseSignals(f)
Reaper(f) == Unregister(f) \/ OnProcessExit(f) \/ ExitFails(f)
Shutdown == \/ ShutdownBegins \/ ShutdownCloses \/ ShutdownSignals
            \/ ShutdownRaises \/ RunnerCloses

Next ==
    \/ Request \/ Submission \/ StopExecutor \/ Shutdown
    \/ \E f \in Forward : Worker(f) \/ Reaper(f) \/ ChildExits(f)

Spec == Init /\ [][Next]_vars

(* Threads run, and every blocking call of theirs has a deadline; a child  *)
(* that was signalled ends: kill() follows terminate(), but for the child  *)
(* a start lets go, where the code relies on ssh ending on SIGTERM.  The   *)
(* selector submits what it prepared and goes through shutdown().          *)
Fairness ==
    /\ WF_vars(Submission \/ Shutdown)
    /\ \A f \in Forward :
         /\ WF_vars(Worker(f))
         /\ WF_vars(Reaper(f) \/ (proc[f] = "signalled" /\ ChildExits(f)))

FairSpec == Spec /\ Fairness

-----------------------------------------------------------------------------
(* Every variable keeps its type. *)
TypeOK ==
    /\ state \in [Forward -> States]
    /\ order \in Seq(Forward)
    /\ handle \subseteq Forward
    /\ scheduled \subseteq Forward
    /\ lane \in [Forward -> Seq({"start", "close"})]
    /\ step \in [Forward -> {"idle", "launching", "spawning",
                             "registering", "storing", "detecting", "proven",
                             "signalling"}]
    /\ submitting \subseteq Forward
    /\ closes \in [Forward -> Nat]
    /\ proc \in [Forward -> {"none", "alive", "signalled", "dead"}]
    /\ reaper \in [Forward -> {"waiting", "returned", "notifying", "failing", "done"}]
    /\ handles \subseteq Forward
    /\ closer \in {"serving", "stopping", "walking", "signalling", "aborted", "closed"}
    /\ walk \in Seq(Forward)
    /\ dropped \subseteq Forward

(* No process without a keeper: a child that nobody has signalled belongs  *)
(* to a start that will store or terminate it, or to a record that still   *)
(* exists, is not CLOSED and holds its handle.  The exception is the child *)
(* of a forward that did not become active, which _fail lets go.           *)
ProcessHasKeeper ==
    \A f \in Forward :
       proc[f] = "alive" =>
          \/ step[f] \in {"registering", "storing"}
          \/ f \in handle /\ f \in Stored /\ state[f] # "closed"
          \/ f \in dropped

(* A forward that is CLOSING with a live child has a close on its way:     *)
(* about to be submitted, in its lane (start_forward returns on CLOSING    *)
(* and relies on it), or in the hands of the daemon that stops.            *)
ClosingIsDriven ==
    \A f \in Forward :
       state[f] = "closing" /\ proc[f] = "alive" /\ closer = "serving" =>
          f \in submitting \/ "close" \in Range(lane[f])

(* ACTIVE is true: a forward is not ACTIVE with a dead child unless the    *)
(* reaper has yet to say so, wherever the exit falls between the spawn,    *)
(* the stored handle, the proof of activity and the transition.            *)
ActiveIsLive ==
    \A f \in Forward :
       state[f] = "active" =>
          proc[f] \in {"alive", "signalled"} \/ reaper[f] \notin {"waiting", "done"}

(* The records: at most MaxRetained CLOSED ones, and a forward that is not *)
(* CLOSED is never lost from the table.                                    *)
RetentionExact ==
    /\ Cardinality({f \in Stored : state[f] = "closed"}) <= MaxRetained
    /\ \A f \in Forward : state[f] \notin {"absent", "closed"} => f \in Stored

(* CLOSED is final and FAILED is left only for CLOSED, whichever of the    *)
(* start worker, the reaper, a close and shutdown() comes last.            *)
OverIsFinal ==
    [][\A f \in Forward :
         /\ state[f] = "closed" => state'[f] = "closed"
         /\ state[f] = "failed" => state'[f] \in Over]_vars

(* Retention takes the oldest: a step that evicts leaves exactly           *)
(* MaxRetained closed records, evicts closed ones only, none of them       *)
(* before an older one that stays, and the table keeps its order.          *)
EvictsOldest ==
    LET gone == Stored \ Stored'
    IN /\ gone # {} => Cardinality({f \in Stored' : state'[f] = "closed"}) = MaxRetained
       /\ \A f \in gone :
             /\ state'[f] = "closed"
             /\ \A g \in Stored : state'[g] = "closed" /\ Before(order, g, f) => g \in gone
       /\ \A f, g \in Stored \cap Stored' : Before(order, f, g) => Before(order', f, g)

OldestEvicted == [][EvictsOldest]_vars

(* "Unexpected process exit -> failed": once its child is gone a forward   *)
(* ends, even when the exit comes before the handle is stored.  (Both are  *)
(* final, so to be true for all forwards again and again is to settle.)    *)
ExitSettles ==
    []<>(\A f \in Forward : proc[f] = "dead" => state[f] \in Over)

(* A close the executor accepted ends the child, also the child of a start *)
(* still under way and of a forward left FAILED by a refused close.        *)
CloseKills ==
    []<>(\/ \A f \in scheduled : proc[f] \in {"none", "dead"} \/ f \in dropped
         \/ closer = "aborted")

(* When shutdown() has run to its end no child survives, those included    *)
(* that were being started or had been dropped.                            *)
StoppedMeansReaped ==
    []<>(closer = "closed" => \A f \in Forward : proc[f] \in {"none", "dead"})

(* Processes are kept: by a holder, and when CLOSING by a close to come.   *)
ProcessesKept == ProcessHasKeeper /\ ClosingIsDriven

(* The records are typed and retained, and what they say of ACTIVE is so.  *)
RecordsSound == TypeOK /\ RetentionExact /\ ActiveIsLive

(* Forwards settle, and for good: after an exit and after a close.         *)
ForwardsSettle == OverIsFinal /\ ExitSettles /\ CloseKills

=============================================================================
