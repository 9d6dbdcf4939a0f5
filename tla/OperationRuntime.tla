-------------------------- MODULE OperationRuntime --------------------------
(***************************************************************************)
(* OperationRuntime (daemon/operation_runtime.py): one thread per          *)
(* long-running operation, cancellation by hook, process and flag, and an  *)
(* event queue drained by whichever thread finds nobody draining it.       *)
(*                                                                         *)
(* Every `with self._condition` block is one action (the _event_condition  *)
(* block nested in it included).  A thread that must drain is in drainers  *)
(* and takes no other step until it has emptied the queue.  The body of an *)
(* operation is arbitrary code that uses its OperationHandle.  Messages,   *)
(* results, progress values and failures are left out.  Definitions marked *)
(* "mutant" are faulty variants used to test the properties.               *)
(***************************************************************************)
EXTENDS Integers, Sequences, FiniteSets, Functions, Selection

CONSTANTS Operation,    \* operation ids; each is started at most once
          Retention,    \* terminal_retention
          Hooked,       \* operations whose body registers a cancel hook
          Supervised,   \* operations whose body registers a process
          MaxProgress,  \* bound: report_progress calls of each operation
          MayStop       \* bound: is shutdown() called?

ASSUME OperationAssumption ==
    /\ IsFiniteSet(Operation)
    /\ Retention \in Nat
    /\ Hooked \subseteq Operation
    /\ Supervised \subseteq Operation
    /\ MaxProgress \in [Operation -> Nat]
    /\ MayStop \in BOOLEAN

VARIABLES
    state,       \* state of the record; "absent" before start_operation
    order,       \* operations in the order in which they were started
    retained,    \* _terminal_records, oldest first
    registered,  \* operations with an entry in _bodies and _threads
    cancelReq,   \* _cancel_requested is TRUE
    hook,        \* _cancel_hooks has an entry
    hookCalled,  \* _cancel_hook_called
    process,     \* _processes has an entry
    queue,       \* _event_queue: <<operation, state>> pairs
    draining,    \* _event_draining
    closeAsked,  \* _publisher_close_requested
    closed,      \* _closed
    drainers,    \* threads inside _drain_events
    pubClosed,   \* the publisher is closed
    starter,     \* control point of the thread in start_operation
    worker,      \* control point of the operation's thread
    canceller,   \* control point of the thread in cancel_operation
    stopper,     \* control point of the thread in shutdown()
    live,        \* operations that shutdown() found not terminal
    grip,        \* what a thread has captured under the lock and acts on later
    progressed,  \* progress reports so far
    spawned,     \* operations whose body has had its process
    hookRuns,    \* history: calls of the cancel hook
    offer,       \* history: what became of the hook the body offered
    cancelAsked, \* history: operations whose cancellation was requested
    killed,      \* operations whose registered process was terminated
    published    \* history: the states published for each operation

recordVars == <<state, order, retained>>
bodyVars   == <<progressed, spawned>>
cancelVars == <<cancelReq, hook, hookCalled, process>>
eventVars  == <<queue, draining, drainers>>
closeVars  == <<closeAsked, pubClosed, published>>
stopVars   == <<closed, stopper, live>>
history    == <<hookRuns, offer, cancelAsked, killed>>
vars == <<recordVars, registered, cancelVars, eventVars, closeVars, stopVars,
          starter, worker, canceller, grip, bodyVars, history>>

Terminal == {"succeeded", "failed", "cancelled"}

(* Threads, as members of drainers and owners of a grip. *)
Start(o)  == <<"start", o>>
Work(o)   == <<"work", o>>
Cancel(o) == <<"cancel", o>>
Stop      == <<"stop">>
Thread == {Start(o) : o \in Operation} \cup {Work(o) : o \in Operation}
            \cup {Cancel(o) : o \in Operation} \cup {Stop}

Free(th) == th \notin drainers

(* _records: active operations and the terminal ones still retained. *)
InRecords(o) ==
    state[o] # "absent" /\ (state[o] \in Terminal => o \in Range(retained))

Active(o) == state[o] \in {"queued", "running"}

Init ==
    /\ state = [o \in Operation |-> "absent"]
    /\ order = <<>>
    /\ retained = <<>>
    /\ registered = {}
    /\ cancelReq = {} /\ hook = {} /\ hookCalled = {} /\ process = {}
    /\ queue = <<>> /\ draining = FALSE /\ drainers = {}
    /\ closeAsked = FALSE /\ pubClosed = FALSE /\ published = [o \in Operation |-> <<>>]
    /\ closed = FALSE /\ stopper = "idle" /\ live = {}
    /\ starter = [o \in Operation |-> "idle"]
    /\ worker = [o \in Operation |-> "none"]
    /\ canceller = [o \in Operation |-> "idle"]
    /\ grip = [th \in Thread |-> [hooks |-> {}, processes |-> {}]]
    /\ progressed = [o \in Operation |-> 0]
    /\ spawned = {}
    /\ hookRuns = [o \in Operation |-> 0]
    /\ offer = [o \in Operation |-> "none"] /\ cancelAsked = {}
    /\ killed = {}

-----------------------------------------------------------------------------
(* Events.                                                                 *)

QueueEventMut(th, o, st) ==   \* mutant: every thread that queues drains
    /\ queue' = Append(queue, <<o, st>>)
    /\ draining' = TRUE
    /\ drainers' = drainers \cup {th}

(* _queue_event_locked, and _drain_events entered if it returned TRUE.     *)
QueueEvent(th, o, st) ==
    /\ queue' = Append(queue, <<o, st>>)
    /\ draining' = TRUE
    /\ drainers' = IF draining THEN drainers ELSE drainers \cup {th}

(* The two calls in shutdown() drop the returned value.                    *)
QueueWithoutDrain(events) ==
    /\ queue' = queue \o events
    /\ draining' = (draining \/ events # <<>>)
    /\ UNCHANGED drainers

DrainMut(th) ==   \* mutant: the flag stays set when the queue is empty
    /\ th \in drainers
    /\ IF queue # <<>>
       THEN /\ queue' = Tail(queue)
            /\ published' = [published EXCEPT ![Head(queue)[1]] = Append(@, Head(queue)[2])]
            /\ UNCHANGED drainers
       ELSE drainers' = drainers \ {th} /\ UNCHANGED <<queue, published>>
    /\ UNCHANGED <<draining, closeAsked, pubClosed, recordVars, registered,
                   cancelVars, stopVars, starter, worker, canceller, grip,
                   bodyVars, history>>

Drain(th) ==
    /\ th \in drainers
    /\ IF queue # <<>>
       THEN /\ queue' = Tail(queue)
            /\ published' = IF pubClosed THEN published
                             ELSE [published EXCEPT ![Head(queue)[1]] =
                                     Append(@, Head(queue)[2])]
            /\ UNCHANGED <<draining, drainers, closeAsked, pubClosed>>
       ELSE /\ draining' = FALSE
            /\ drainers' = drainers \ {th}
            /\ closeAsked' = FALSE
            /\ pubClosed' = (pubClosed \/ closeAsked)
            /\ UNCHANGED <<queue, published>>
    /\ UNCHANGED <<recordVars, registered, cancelVars, stopVars, starter,
                   worker, canceller, grip, bodyVars, history>>

-----------------------------------------------------------------------------
(* Records.                                                                *)

(* _remember_terminal_locked, for each operation of a sequence in turn.    *)
Remember(ended) ==
    LET all == retained \o ended
    IN IF Len(all) > Retention
       THEN SubSeq(all, Len(all) - Retention + 1, Len(all)) ELSE all

Become(o, st) ==
    /\ state' = [state EXCEPT ![o] = st]
    /\ retained' = IF st \in Terminal THEN Remember(<<o>>) ELSE retained
    /\ UNCHANGED order

CancelAll(ended) ==
    /\ state' = [o \in Operation |-> IF o \in Range(ended) THEN "cancelled" ELSE state[o]]
    /\ retained' = Remember(ended)
    /\ UNCHANGED order
    /\ QueueWithoutDrain([i \in DOMAIN ended |-> <<ended[i], "cancelled">>])

(* _cleanup_worker_locked.                                                 *)
Cleanup(o) ==
    /\ registered' = registered \ {o}
    /\ cancelReq' = cancelReq \ {o}
    /\ hook' = hook \ {o}
    /\ hookCalled' = hookCalled \ {o}
    /\ process' = process \ {o}

-----------------------------------------------------------------------------
(* start_operation, in two blocks around the drain.                        *)

StartOperation(o) ==
    /\ starter[o] = "idle"
    /\ ~closed
    /\ state' = [state EXCEPT ![o] = "queued"]
    /\ order' = Append(order, o)
    /\ registered' = registered \cup {o}
    /\ QueueEvent(Start(o), o, "queued")
    /\ starter' = [starter EXCEPT ![o] = "queued"]
    /\ UNCHANGED <<retained, cancelVars, closeVars, stopVars, worker,
                   canceller, grip, bodyVars, history>>

StartThread(o) ==
    /\ starter[o] = "queued"
    /\ Free(Start(o))
    /\ starter' = [starter EXCEPT ![o] = "done"]
    /\ IF state[o] # "queued" \/ closed
       THEN Cleanup(o) /\ UNCHANGED worker
       ELSE /\ worker' = [worker EXCEPT ![o] = "started"]
            /\ UNCHANGED <<registered, cancelVars>>
    /\ UNCHANGED <<recordVars, eventVars, closeVars, stopVars, canceller,
                   grip, bodyVars, history>>

-----------------------------------------------------------------------------
(* _run_operation.  A cancel ends a QUEUED operation at once, so the thread *)
(* finds it terminal, and never a QUEUED one whose flag is set.            *)

RunOperation(o) ==
    /\ worker[o] = "started"
    /\ Active(o)
    /\ Become(o, "running")
    /\ QueueEvent(Work(o), o, "running")
    /\ worker' = [worker EXCEPT ![o] = "body"]
    /\ UNCHANGED <<registered, cancelVars, closeVars, stopVars, starter,
                   canceller, grip, bodyVars, history>>

RunNothing(o) ==
    /\ worker[o] = "started"
    /\ ~Active(o)
    /\ Cleanup(o)
    /\ worker' = [worker EXCEPT ![o] = "dead"]
    /\ UNCHANGED <<recordVars, eventVars, closeVars, stopVars, starter,
                   canceller, grip, bodyVars, history>>

NoGrip == [hooks |-> {}, processes |-> {}]

InBody(o) == worker[o] = "body" /\ Free(Work(o)) /\ grip[Work(o)] = NoGrip

ReportProgress(o) ==
    /\ InBody(o)
    /\ progressed[o] < MaxProgress[o]
    /\ progressed' = [progressed EXCEPT ![o] = @ + 1]
    /\ IF state[o] = "running"
       THEN QueueEvent(Work(o), o, "running")
       ELSE UNCHANGED eventVars
    /\ UNCHANGED <<recordVars, registered, cancelVars, closeVars, stopVars,
                   starter, worker, canceller, grip, spawned, history>>

SetProcessMut(o) ==   \* mutant: the flag is not read again
    /\ InBody(o)
    /\ o \in Supervised \ spawned
    /\ spawned' = spawned \cup {o}
    /\ process' = process \cup {o}
    /\ UNCHANGED <<recordVars, registered, cancelReq, hook, hookCalled,
                   eventVars, closeVars, stopVars, starter, worker, canceller,
                   grip, progressed, history>>

(* set_operation_process: the flag is read in the block that stores the    *)
(* process, which is terminated after it.                                  *)
SetProcess(o) ==
    /\ InBody(o)
    /\ o \in Supervised \ spawned
    /\ spawned' = spawned \cup {o}
    /\ process' = process \cup {o}
    /\ grip' = [grip EXCEPT ![Work(o)].processes = {o} \cap cancelReq]
    /\ UNCHANGED <<recordVars, registered, cancelReq, hook, hookCalled,
                   eventVars, closeVars, stopVars, starter, worker, canceller,
                   progressed, history>>

ClearProcess(o) ==
    /\ InBody(o)
    /\ o \in process
    /\ process' = process \ {o}
    /\ killed' = killed \ {o}
    /\ UNCHANGED <<recordVars, registered, cancelReq, hook, hookCalled,
                   eventVars, closeVars, stopVars, starter, worker, canceller,
                   grip, bodyVars, hookRuns, offer, cancelAsked>>

(* set_cancel_hook: ignored when the record is no longer retained, called   *)
(* at once if the operation is already cancelled.  (A second call gives     *)
(* the table another hook, or is ignored once a hook was called.)           *)
SetCancelHook(o) ==
    /\ InBody(o)
    /\ o \in Hooked /\ offer[o] = "none"
    /\ offer' = [offer EXCEPT ![o] = IF InRecords(o) THEN "kept" ELSE "ignored"]
    /\ IF ~InRecords(o)
       THEN UNCHANGED <<hook, hookCalled, grip>>
       ELSE IF o \in cancelReq
       THEN /\ hookCalled' = hookCalled \cup {o}
            /\ grip' = [grip EXCEPT ![Work(o)].hooks = {o}]
            /\ UNCHANGED hook
       ELSE /\ hook' = hook \cup {o}
            /\ UNCHANGED <<hookCalled, grip>>
    /\ UNCHANGED <<recordVars, registered, cancelReq, process, eventVars,
                   closeVars, stopVars, starter, worker, canceller, bodyVars,
                   hookRuns, cancelAsked, killed>>

(* The body returns: the outcome is decided under the lock.                *)
BodyReturns(o) ==
    /\ InBody(o)
    /\ worker' = [worker EXCEPT ![o] = "cleanup"]
    /\ IF Active(o)
       THEN LET target == IF o \in cancelReq THEN "cancelled" ELSE "succeeded"
            IN Become(o, target) /\ QueueEvent(Work(o), o, target)
       ELSE UNCHANGED <<recordVars, eventVars>>
    /\ UNCHANGED <<registered, cancelVars, closeVars, stopVars, starter,
                   canceller, grip, bodyVars, history>>

(* The body raises: the flag is read in one block ...                      *)
BodyRaises(o) ==
    /\ InBody(o)
    /\ worker' = [worker EXCEPT ![o] =
                     IF o \in cancelReq THEN "cancelled" ELSE "failed"]
    /\ UNCHANGED <<recordVars, registered, cancelVars, eventVars, closeVars,
                   stopVars, starter, canceller, grip, bodyVars, history>>

FinishFromWorkerMut(o) ==   \* mutant: the state is not looked at again
    /\ worker[o] \in {"cancelled", "failed"}
    /\ worker' = [worker EXCEPT ![o] = "cleanup"]
    /\ Become(o, worker[o]) /\ QueueEvent(Work(o), o, worker[o])
    /\ UNCHANGED <<registered, cancelVars, closeVars, stopVars, starter,
                   canceller, grip, bodyVars, history>>

(* ... and acted on in another: _finish_from_worker.                       *)
FinishFromWorker(o) ==
    /\ worker[o] \in {"cancelled", "failed"}
    /\ worker' = [worker EXCEPT ![o] = "cleanup"]
    /\ IF Active(o)
       THEN Become(o, worker[o]) /\ QueueEvent(Work(o), o, worker[o])
       ELSE UNCHANGED <<recordVars, eventVars>>
    /\ UNCHANGED <<registered, cancelVars, closeVars, stopVars, starter,
                   canceller, grip, bodyVars, history>>

WorkerEnds(o) ==
    /\ worker[o] = "cleanup"
    /\ Free(Work(o))
    /\ Cleanup(o)
    /\ worker' = [worker EXCEPT ![o] = "dead"]
    /\ progressed' = [progressed EXCEPT ![o] = 0]
    /\ spawned' = spawned \ {o}
    /\ killed' = killed \ {o}
    /\ UNCHANGED <<recordVars, eventVars, closeVars, stopVars, starter,
                   canceller, grip, hookRuns, offer, cancelAsked>>

-----------------------------------------------------------------------------
(* Cancellation.                                                           *)

(* A thread invokes the hooks and terminates the processes it captured.    *)
Act(th) ==
    /\ grip[th] # NoGrip
    /\ hookRuns' = [o \in Operation |->
                      hookRuns[o] + IF o \in grip[th].hooks THEN 1 ELSE 0]
    /\ killed' = killed \cup (grip[th].processes \cap process)
    /\ grip' = [grip EXCEPT ![th] = NoGrip]
    /\ UNCHANGED <<recordVars, registered, cancelVars, eventVars, closeVars,
                   stopVars, starter, worker, canceller, bodyVars, offer, cancelAsked>>

RequestCancelMut(th, ops) ==   \* mutant: the hook is taken but not handed on
    /\ cancelReq' = cancelReq \cup ops
    /\ cancelAsked' = cancelAsked \cup ops
    /\ grip' = [grip EXCEPT ![th] = [hooks |-> {}, processes |-> process \cap ops]]
    /\ hookCalled' = hookCalled \cup (hook \cap ops)
    /\ hook' = hook \ ops
    /\ UNCHANGED process

(* Set the flags and take the hooks and processes of some operations.      *)
RequestCancel(th, ops) ==
    /\ cancelReq' = cancelReq \cup ops
    /\ cancelAsked' = cancelAsked \cup ops
    /\ grip' = [grip EXCEPT ![th] = [hooks |-> hook \cap ops,
                                     processes |-> process \cap ops]]
    /\ hookCalled' = hookCalled \cup (hook \cap ops)
    /\ hook' = hook \ ops
    /\ UNCHANGED process

CancelOperation(o) ==
    /\ canceller[o] = "idle"
    /\ Free(Cancel(o)) /\ grip[Cancel(o)] = NoGrip
    /\ Active(o)
    /\ RequestCancel(Cancel(o), {o})
    /\ IF state[o] = "queued"
       THEN /\ Become(o, "cancelled")
            /\ canceller' = [canceller EXCEPT ![o] = "announcing"]
       ELSE UNCHANGED <<recordVars, canceller>>
    /\ UNCHANGED <<registered, eventVars, closeVars, stopVars, starter, worker,
                   bodyVars, hookRuns, offer, killed>>

CancelAnnounces(o) ==
    /\ canceller[o] = "announcing"
    /\ grip[Cancel(o)] = NoGrip
    /\ QueueEvent(Cancel(o), o, "cancelled")
    /\ canceller' = [canceller EXCEPT ![o] = "idle"]
    /\ UNCHANGED <<recordVars, registered, cancelVars, closeVars, stopVars,
                   starter, worker, grip, bodyVars, history>>

-----------------------------------------------------------------------------
(* shutdown().                                                             *)

StopBegins ==
    /\ MayStop
    /\ stopper = "idle"
    /\ closed' = TRUE
    /\ live' = {o \in Operation : Active(o)}
    /\ RequestCancel(Stop, live')
    /\ CancelAll(Only(order, {o \in Operation : state[o] = "queued"}))
    /\ stopper' = "joining"
    /\ UNCHANGED <<registered, closeVars, starter, worker, canceller, bodyVars,
                   hookRuns, offer, killed>>

(* Every join() returns when the thread ends or at the deadline.           *)
StopForces ==
    /\ stopper = "joining"
    /\ grip[Stop] = NoGrip
    /\ CancelAll(Only(order, {o \in live : Active(o)}))
    /\ stopper' = "closing"
    /\ live' = {}
    /\ UNCHANGED <<registered, cancelVars, closeVars, closed, starter,
                   worker, canceller, grip, bodyVars, history>>

(* _request_publisher_close.                                               *)
StopCloses ==
    /\ stopper = "closing"
    /\ stopper' = "done"
    /\ closeAsked' = TRUE
    /\ pubClosed' = (pubClosed \/ (~draining /\ queue = <<>>))
    /\ IF ~draining /\ queue # <<>>
       THEN draining' = TRUE /\ drainers' = drainers \cup {Stop}
       ELSE UNCHANGED <<draining, drainers>>
    /\ UNCHANGED <<recordVars, registered, cancelVars, queue, published, closed,
                   live, starter, worker, canceller, grip, bodyVars, history>>

-----------------------------------------------------------------------------
Worker(o) ==
    \/ RunOperation(o) \/ RunNothing(o)
    \/ ReportProgress(o) \/ SetProcess(o) \/ ClearProcess(o) \/ SetCancelHook(o)
    \/ BodyReturns(o) \/ BodyRaises(o) \/ FinishFromWorker(o) \/ WorkerEnds(o)

Stopper == StopForces \/ StopCloses

Next ==
    \/ \E o \in Operation :
         \/ StartOperation(o) \/ StartThread(o) \/ Worker(o)
         \/ CancelOperation(o) \/ CancelAnnounces(o)
    \/ StopBegins
    \/ Stopper
    \/ \E th \in Thread : Drain(th) \/ Act(th)

Spec == Init /\ [][Next]_vars

(* Threads that are not waiting for anyone make progress.  A body ends: it *)
(* is cooperative, and joined with a deadline at shutdown.  Nobody has to  *)
(* start, cancel or stop.  One condition for all steps of an operation is  *)
(* enough, since none of them recurs forever, and one for the drain, since *)
(* one thread drains.                                                      *)
Proceeds(o) ==
    \/ StartThread(o) \/ RunOperation(o) \/ RunNothing(o)
    \/ BodyReturns(o) \/ BodyRaises(o) \/ FinishFromWorker(o) \/ WorkerEnds(o)
    \/ CancelAnnounces(o)
Fairness ==
    /\ \A o \in Operation : WF_vars(Proceeds(o)) /\ WF_vars(Act(Work(o)))
                            /\ WF_vars(Act(Cancel(o)))
    /\ WF_vars(\E th \in Thread : Drain(th))
    /\ WF_vars(Stopper \/ Act(Stop))

FairSpec == Spec /\ Fairness

-----------------------------------------------------------------------------
(* Every variable keeps its type. *)
TypeOK ==
    /\ state \in [Operation -> {"absent", "queued", "running"} \cup Terminal]
    /\ order \in Seq(Operation)
    /\ retained \in Seq(Operation)
    /\ {registered, cancelReq, hook, hookCalled, process, live, spawned, killed,
       cancelAsked} \subseteq SUBSET Operation
    /\ queue \in Seq(Operation \X ({"queued", "running"} \cup Terminal))
    /\ published \in [Operation -> Seq({"queued", "running"} \cup Terminal)]
    /\ {draining, closeAsked, closed, pubClosed} \subseteq BOOLEAN
    /\ drainers \subseteq Thread
    /\ starter \in [Operation -> {"idle", "queued", "done"}]
    /\ worker \in [Operation -> {"none", "started", "body", "cancelled", "failed",
                                 "cleanup", "dead"}]
    /\ canceller \in [Operation -> {"idle", "announcing"}]
    /\ stopper \in {"idle", "joining", "closing", "done"}
    /\ grip \in [Thread -> [hooks : SUBSET Operation, processes : SUBSET Operation]]
    /\ progressed \in [Operation -> Nat]
    /\ hookRuns \in [Operation -> Nat]
    /\ offer \in [Operation -> {"none", "kept", "ignored"}]

(* The flag that keeps two threads from draining at once is never left set *)
(* by a thread that stopped draining: at most one thread drains, and while *)
(* the runtime is open queued events have one.                             *)
OneDrainer ==
    /\ Cardinality(drainers) <= 1
    /\ ~closed /\ queue # <<>> => drainers # {}

(* Whichever comes first, the cancel or the registration: a process that   *)
(* is registered for a cancelled operation is terminated, or some thread   *)
(* holds it to terminate it (set_operation_process, cancel_operation).     *)
CancelReaches ==
    \A o \in Operation :
       o \in cancelReq /\ o \in process =>
            o \in killed \/ \E th \in Thread : o \in grip[th].processes

(* The hook of an operation is called once if its cancellation is          *)
(* requested, before or after the hook is registered, and never otherwise: *)
(* until then some thread holds it to call it, also when the worker has    *)
(* cleaned the tables or shutdown() cancels at the same time               *)
(* (set_cancel_hook, _take_cancel_hook_locked).                            *)
HookReached ==
    \A o \in Operation :
       /\ hookRuns[o] <= 1
       /\ hookRuns[o] > 0 => o \in cancelAsked
       /\ o \in cancelReq => o \notin hook
       /\ offer[o] = "kept" /\ o \in cancelAsked =>
            hookRuns[o] = 1 \/ \E th \in Thread : o \in grip[th].hooks

(* What observers are told of an operation, delivered first, then what is  *)
(* still queued: queued at the start, then running, and one final state    *)
(* with nothing after it, which is the state of the record.                *)
Published(o, i) ==
    /\ published[o][i] = "queued" <=> i = 1
    /\ published[o][i] \in Terminal =>
         /\ i = Len(published[o]) /\ published[o][i] = state[o]
         /\ \A j \in DOMAIN queue : queue[j][1] # o
ToPublish(o, i) ==
    /\ queue[i][2] = "queued" <=>
         published[o] = <<>> /\ \A j \in 1..i-1 : queue[j][1] # o
    /\ queue[i][2] \in Terminal =>
         /\ queue[i][2] = state[o]
         /\ \A j \in i+1..Len(queue) : queue[j][1] # o
EventOrder ==
    \A o \in Operation :
       /\ \A i \in DOMAIN published[o] : Published(o, i)
       /\ \A i \in DOMAIN queue : queue[i][1] = o => ToPublish(o, i)

(* A finished worker, or a start that found nothing to start, leaves no    *)
(* entry in the runtime's tables.                                          *)
NoResidue ==
    \A o \in Operation :
       worker[o] = "dead" \/ (starter[o] = "done" /\ worker[o] = "none") =>
         o \notin registered \cup cancelReq \cup hook \cup hookCalled \cup process

(* Retention drops the oldest finished operations and no active one.       *)
RetentionExact ==
    /\ Len(retained) <= Retention
    /\ \A o \in Range(retained) : state[o] \in Terminal

(* After its last joins shutdown() leaves no operation active.             *)
StoppedMeansSettled ==
    stopper \in {"closing", "done"} => \A o \in Operation : ~Active(o)

(* Every started operation ends, and while the runtime is open its final   *)
(* event is delivered.                                                     *)
OperationSettles ==
    \A o \in Operation :
       state[o] = "queued" ~>
         closed \/ \E st \in Terminal : st \in Range(published[o])

(* The records and tables: typed, one thread draining the events, events   *)
(* in order, nothing left behind by a finished worker, retention, and      *)
(* nothing active after shutdown().                                        *)
RecordsSound == /\ TypeOK /\ OneDrainer /\ EventOrder /\ NoResidue
                /\ RetentionExact /\ StoppedMeansSettled

(* "Reject new work, request bounded cancellation, and close publishing"   *)
(* (docstring of shutdown): once shutdown() has returned and no thread is  *)
(* draining, the publisher is closed.                                      *)
PublishingClosed == stopper = "done" /\ drainers = {} => pubClosed

=============================================================================
