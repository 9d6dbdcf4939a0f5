-------------------------- MODULE TransferRuntime --------------------------
(***************************************************************************)
(* TransferRuntime (daemon/transfer_runtime.py): the records of uploads,   *)
(* downloads and SCP copies, the queue in front of the worker pool, and    *)
(* the threads that copy.  Four kinds of thread meet here:                 *)
(*   the selector thread   transfers.start, client disconnects             *)
(*   the command executor  run_transfer, then the cancels of the transfer: *)
(*                         one lane per transfer id, first in first out    *)
(*   the worker threads    _transfer_worker, one per transfer              *)
(*   the stopping thread   shutdown()                                      *)
(* Every `with self._lock` block is one action, with the unlocked calls    *)
(* that only its own thread can observe; events are published after the    *)
(* block, by the thread's next action where another thread may come first. *)
(*                                                                         *)
(* The SFTP services are environment: what acquire_active_client reads of  *)
(* them.  One client is connected at a time.  File contents, progress,     *)
(* temporary files and conflict policies are left out: a copy ends         *)
(* completed, failed, or (when it meets cancel_requested) cancelled.  The  *)
(* settings provider returns one value.  Definitions whose name has the    *)
(* suffix Mut (or the mutants marked so) are faulty variants used to test  *)
(* the properties.                                                         *)
(***************************************************************************)
EXTENDS Integers, Sequences, FiniteSets, Functions, Selection

CONSTANTS Transfer,       \* transfer ids; each is prepared at most once
          Service,        \* SFTP service ids
          Scp,            \* stands for the service of a native SCP transfer
          ServiceOf,      \* sftp_service_id of each transfer, or Scp
          ServiceLimit,   \* service_concurrency_limit of each service
          MaxConcurrent,  \* max_concurrent_transfers
          MaxQueued,      \* max_queued_transfers
          MaxRetained,    \* max_retained_completed_transfers
          MaxClients,     \* bound: clients, one after the other; the last stays
          MayStop         \* bound: does the daemon stop?

ASSUME TransferAssumption ==
    /\ IsFiniteSet(Transfer)
    /\ Scp \notin Service
    /\ ServiceOf \in [Transfer -> Service \cup {Scp}]
    /\ ServiceLimit \in [Service -> Nat \ {0}]
    /\ MaxConcurrent \in Nat \ {0}
    /\ MaxQueued \in Nat \ {0}
    /\ MaxRetained \in Nat
    /\ MaxClients \in Nat \ {0}
    /\ MayStop \in BOOLEAN

VARIABLES
    state,        \* record.state; "absent" before the record exists
    owner,        \* record.owner_client_id
    cancelReq,    \* transfers with record.cancel_requested
    order,        \* _creation_order: the keys of _records, oldest first
    slots,        \* the keys of _worker_threads, in insertion order
    pending,      \* _pending_run
    command,      \* the start command of each transfer in the executor
    thread,       \* control point of each worker thread
    promoting,    \* the transfer whose thread a finished worker must start
    accepting,    \* _accepting_commands
    executorOpen, \* the executor still accepts and runs commands
    closer,       \* control point of the thread in shutdown()
    joining,      \* threads shutdown() has still to join
    stuck,        \* records shutdown() has still to fail
    log,          \* history: events published about each transfer
    svcReady,     \* READY SFTP services                      (environment)
    svcOwner,     \* owner_client_id of each service          (environment)
    client,       \* the client that is or was connected last (environment)
    presence      \* of that client: "here", "leaving", "gone" (environment)

clientVars  == <<client, presence>>
svcVars     == <<svcReady, svcOwner>>
recordVars  == <<state, order, log>>
poolVars    == <<slots, pending, thread, promoting>>
closerVars  == <<closer, joining, stuck>>
vars == <<recordVars, owner, cancelReq, poolVars, command, accepting,
          executorOpen, closerVars, svcVars, clientVars>>

NoClient == 0   \* owner_client_id None
Client   == 1..MaxClients
Terminal == {"completed", "cancelled", "failed"}
States   == {"absent", "queued", "starting", "running", "cancelling"} \cup Terminal

Stored   == Range(order)

-----------------------------------------------------------------------------
(* Transitions.  Every terminal transition trims the retained records.     *)

Evict(ord, st) ==
    Trimmed(ord, {t \in Transfer : st[t] \in Terminal}, MaxRetained)

Transition(t, s) ==
    /\ state' = [state EXCEPT ![t] = s]
    /\ order' = IF s \in Terminal THEN Evict(order, state') ELSE order

(* Once publisher.close() has run, publish raises and the event is dropped. *)
Publish(t, events) ==
    log' = IF closer = "closed" THEN log
                                ELSE [log EXCEPT ![t] = @ \o events]

(* _fail_sftp and _fail_scp differ in the failure they store only.         *)
Fail(t) ==
    IF state[t] \in Terminal
    THEN UNCHANGED recordVars
    ELSE Transition(t, "failed") /\ Publish(t, <<"failed">>)

FinishCompleted(t) ==
    CASE state[t] = "cancelling" ->
             Transition(t, "cancelled") /\ Publish(t, <<"cancelled">>)
      [] state[t] \in {"starting", "running"} ->
             Transition(t, "completed") /\ Publish(t, <<"completed">>)
      [] OTHER -> UNCHANGED recordVars

(* From QUEUED, STARTING or RUNNING the record passes through CANCELLING.  *)
FinishCancelled(t) ==
    IF state[t] \in Terminal
    THEN UNCHANGED <<recordVars, cancelReq>>
    ELSE /\ Transition(t, "cancelled")
         /\ Publish(t, <<"cancelled">>)
         /\ cancelReq' = cancelReq \ {t}

-----------------------------------------------------------------------------
(* The pool.                                                               *)

Inflight == {t \in Stored : state[t] \notin Terminal}

(* Counts registered threads whose record still exists.                    *)
ServiceWorkers(s, sl) ==
    {t \in Range(sl) \cap Stored : ServiceOf[t] = s}

CanStart(t, sl) ==
    /\ Len(sl) < MaxConcurrent
    /\ ServiceOf[t] # Scp =>
         Cardinality(ServiceWorkers(ServiceOf[t], sl)) < ServiceLimit[ServiceOf[t]]

(* _take_next_runnable_locked: the oldest entry that may start, and what   *)
(* the queue keeps.                                                        *)
Waiting(t) == t \in Stored /\ state[t] = "queued" /\ t \notin cancelReq

NextRunnableNewest(sl) ==   \* mutant: the newest entry first
    LET fits == {i \in DOMAIN pending : Waiting(pending[i]) /\ CanStart(pending[i], sl)}
    IN {pending[i] : i \in {j \in fits : \A k \in fits : k <= j}}

NextRunnableNone(sl) == {}   \* mutant: a finished worker promotes nobody

NextRunnable(sl) ==
    LET fits == {i \in DOMAIN pending : Waiting(pending[i]) /\ CanStart(pending[i], sl)}
    IN {pending[i] : i \in {j \in fits : \A k \in fits : j <= k}}

KeptPendingMut(taken) == <<>>   \* mutant: entries that do not fit are lost

KeptPending(taken) ==
    Only(pending, {t \in Transfer \ taken : Waiting(t)})

(* acquire_active_client: the service is READY and the caller owns it or   *)
(* is attached to it; with one client at a time that is the same client.   *)
Acquires(t, c) ==
    \/ ServiceOf[t] = Scp
    \/ /\ ServiceOf[t] \in svcReady
       /\ c = svcOwner[ServiceOf[t]]

-----------------------------------------------------------------------------
Init ==
    /\ state = [t \in Transfer |-> "absent"]
    /\ owner = [t \in Transfer |-> NoClient]
    /\ cancelReq = {}
    /\ order = <<>>
    /\ slots = <<>>
    /\ pending = <<>>
    /\ command = [t \in Transfer |-> "none"]
    /\ thread = [t \in Transfer |-> "none"]
    /\ promoting = [t \in Transfer |-> {}]
    /\ accepting = TRUE
    /\ executorOpen = TRUE
    /\ closer = "serving"
    /\ joining = <<>>
    /\ stuck = {}
    /\ log = [t \in Transfer |-> <<>>]
    /\ svcReady = Service
    /\ svcOwner = [s \in Service |-> 1]
    /\ client = 1
    /\ presence = "here"

-----------------------------------------------------------------------------
(* The selector thread: transfers.start, attach, disconnect, stop.         *)

SelectorServes == executorOpen /\ presence = "here"

(* prepare_start_transfer and prepare_start_scp_transfer.                  *)
Prepare(t) ==
    /\ SelectorServes
    /\ accepting
    /\ state[t] = "absent"
    /\ Acquires(t, client)
    /\ Cardinality(Inflight) < MaxConcurrent + MaxQueued
    /\ owner' = [owner EXCEPT ![t] = client]

(* The executor accepts the command that runs the transfer.                *)
StartTransfer(t) ==
    /\ Prepare(t)
    /\ state' = [state EXCEPT ![t] = "queued"]
    /\ order' = Append(order, t)
    /\ Publish(t, <<"created">>)
    /\ command' = [command EXCEPT ![t] = "submitted"]
    /\ UNCHANGED <<cancelReq, poolVars, accepting, executorOpen, closerVars,
                   svcVars, clientVars>>

(* The executor is full: on_rejected runs reject_pending_start.            *)
StartTransferRejected(t) ==
    /\ Prepare(t)
    /\ state' = [state EXCEPT ![t] = "failed"]
    /\ order' = Evict(Append(order, t), state')
    /\ Publish(t, <<"created", "failed">>)
    /\ UNCHANGED <<cancelReq, poolVars, command, accepting, executorOpen,
                   closerVars, svcVars, clientVars>>

(* SftpServiceRuntime.attach_service: the first client to attach to an     *)
(* orphaned service becomes its owner.                                     *)
AttachService(s) ==
    /\ SelectorServes
    /\ svcOwner[s] = NoClient
    /\ svcOwner' = [svcOwner EXCEPT ![s] = client]
    /\ UNCHANGED <<recordVars, owner, cancelReq, poolVars, command, accepting,
                   executorOpen, closerVars, svcReady, clientVars>>

(* The service closes or its ssh exits.                                    *)
ServiceEnds(s) ==
    /\ s \in svcReady
    /\ svcReady' = svcReady \ {s}
    /\ UNCHANGED <<recordVars, owner, cancelReq, poolVars, command, accepting,
                   executorOpen, closerVars, svcOwner, clientVars>>

(* A disconnect orphans the services of the client first ...               *)
DetachFromServices ==
    /\ SelectorServes
    /\ client < MaxClients
    /\ presence' = "leaving"
    /\ svcOwner' = [s \in Service |-> IF svcOwner[s] = client THEN NoClient ELSE svcOwner[s]]
    /\ UNCHANGED <<recordVars, owner, cancelReq, poolVars, command, accepting,
                   executorOpen, closerVars, svcReady, client>>

(* ... and its transfers afterwards: detach_client.                        *)
DetachClient ==
    /\ presence = "leaving"
    /\ presence' = "gone"
    /\ owner' = [t \in Transfer |->
                   IF t \in Stored /\ owner[t] = client THEN NoClient ELSE owner[t]]
    /\ UNCHANGED <<recordVars, cancelReq, poolVars, command, accepting,
                   executorOpen, closerVars, svcVars, client>>

(* A connection made later has a new client id.                            *)
Reconnect ==
    /\ presence = "gone"
    /\ client' = client + 1
    /\ presence' = "here"
    /\ UNCHANGED <<recordVars, owner, cancelReq, poolVars, command, accepting,
                   executorOpen, closerVars, svcVars>>

-----------------------------------------------------------------------------
(* The command executor.                                                   *)

(* run_transfer on a QUEUED record, a worker slot being free.  The cancel  *)
(* commands of the transfer wait behind this one in its lane, so a QUEUED  *)
(* or a finished record is all that it can meet.                           *)
RunTransfer(t) ==
    /\ command[t] = "submitted"
    /\ t \in Stored
    /\ state[t] = "queued"
    /\ CanStart(t, slots)
    /\ Transition(t, "starting")
    /\ slots' = Append(slots, t)
    /\ thread' = [thread EXCEPT ![t] = "registered"]
    /\ command' = [command EXCEPT ![t] = "starting"]
    /\ UNCHANGED <<log, owner, cancelReq, pending, promoting, accepting,
                   executorOpen, closerVars, svcVars, clientVars>>

RunTransferStarts(t) ==
    /\ command[t] = "starting"
    /\ Publish(t, <<"started">>)
    /\ thread' = [thread EXCEPT ![t] = "started"]
    /\ command' = [command EXCEPT ![t] = "done"]
    /\ UNCHANGED <<state, order, owner, cancelReq, slots, pending, promoting,
                   accepting, executorOpen, closerVars, svcVars, clientVars>>

RunTransferQueues(t) ==
    /\ command[t] = "submitted"
    /\ t \in Stored
    /\ state[t] = "queued"
    /\ ~CanStart(t, slots)
    /\ pending' = Append(pending, t)
    /\ command' = [command EXCEPT ![t] = "done"]
    /\ UNCHANGED <<recordVars, owner, cancelReq, slots, thread, promoting,
                   accepting, executorOpen, closerVars, svcVars, clientVars>>

(* shutdown() failed the record before a command already taken by the      *)
(* executor ran.                                                           *)
RunTransferTooLate(t) ==
    /\ command[t] = "submitted"
    /\ t \notin Stored \/ state[t] \in Terminal
    /\ command' = [command EXCEPT ![t] = "done"]
    /\ UNCHANGED <<recordVars, owner, cancelReq, poolVars, accepting,
                   executorOpen, closerVars, svcVars, clientVars>>

Cancellable(t) == state[t] \notin Terminal \cup {"cancelling"}

(* prepare_cancel_transfer: a transfer in the queue ends at once, one with *)
(* a worker when the worker notices.                                       *)
CancelTransfer(t) ==
    /\ accepting
    /\ command[t] \notin {"submitted", "starting", "dropped"}
    /\ t \in Stored
    /\ owner[t] \in {NoClient, client}
    /\ Cancellable(t)
    /\ cancelReq' = cancelReq \cup {t}
    /\ IF t \in Range(pending)
       THEN /\ pending' = Only(pending, Transfer \ {t})
            /\ Transition(t, "cancelled")
            /\ Publish(t, <<"cancelled">>)
       ELSE /\ Transition(t, "cancelling")
            /\ UNCHANGED <<pending, log>>
    /\ UNCHANGED <<owner, slots, thread, promoting, command, accepting,
                   executorOpen, closerVars, svcVars, clientVars>>

-----------------------------------------------------------------------------
(* The worker threads: _transfer_worker.                                   *)

WorkerEnters(t) ==
    /\ thread[t] = "started"
    /\ state[t] = "starting"
    /\ Transition(t, "running")
    /\ thread' = [thread EXCEPT ![t] = "acquiring"]
    /\ UNCHANGED <<log, owner, cancelReq, slots, pending, promoting, command,
                   accepting, executorOpen, closerVars, svcVars, clientVars>>

(* The record was cancelled, or failed by shutdown(), before the thread's  *)
(* first step: the early return skips the finally clause, and the thread   *)
(* stays in _worker_threads.                                               *)
WorkerReturnsEarly(t) ==
    /\ thread[t] = "started"
    /\ state[t] # "starting"
    /\ thread' = [thread EXCEPT ![t] = "dead"]
    /\ UNCHANGED <<recordVars, owner, cancelReq, slots, pending, promoting,
                   command, accepting, executorOpen, closerVars, svcVars,
                   clientVars>>

WorkerAcquires(t) ==
    /\ thread[t] = "acquiring"
    /\ Acquires(t, owner[t])
    /\ thread' = [thread EXCEPT ![t] = "copying"]
    /\ UNCHANGED <<recordVars, owner, cancelReq, slots, pending, promoting,
                   command, accepting, executorOpen, closerVars, svcVars,
                   clientVars>>

(* No client to copy with: this return, too, is before the try block.      *)
WorkerCannotAcquire(t) ==
    /\ thread[t] = "acquiring"
    /\ ~Acquires(t, owner[t])
    /\ Fail(t)
    /\ thread' = [thread EXCEPT ![t] = "dead"]
    /\ UNCHANGED <<owner, cancelReq, slots, pending, promoting, command,
                   accepting, executorOpen, closerVars, svcVars, clientVars>>

CopyEnds(t) ==
    /\ thread[t] = "copying"
    /\ thread' = [thread EXCEPT ![t] = "finally"]
    /\ UNCHANGED <<owner, slots, pending, promoting, command, accepting,
                   executorOpen, closerVars, svcVars, clientVars>>

CopyCompletes(t) == CopyEnds(t) /\ FinishCompleted(t) /\ UNCHANGED cancelReq

CopyFails(t) == CopyEnds(t) /\ Fail(t) /\ UNCHANGED cancelReq

CopyCancelled(t) == CopyEnds(t) /\ t \in cancelReq /\ FinishCancelled(t)

(* The finally clause frees the slot and hands it to the oldest transfer   *)
(* that may use it.                                                        *)
WorkerFinally(t) ==
    /\ thread[t] = "finally"
    /\ LET free  == Only(slots, Transfer \ {t})
           taken == NextRunnable(free)
       IN /\ pending' = KeptPending(taken)
          /\ promoting' = [promoting EXCEPT ![t] = taken]
          /\ IF taken = {}
             THEN /\ slots' = free
                  /\ thread' = [thread EXCEPT ![t] = "dead"]
                  /\ UNCHANGED <<state, order>>
             ELSE \E u \in taken :
                  /\ slots' = Append(free, u)
                  /\ thread' = [thread EXCEPT ![t] = "promoting", ![u] = "registered"]
                  /\ Transition(u, "starting")
    /\ UNCHANGED <<log, owner, cancelReq, command, accepting, executorOpen,
                   closerVars, svcVars, clientVars>>

WorkerPromotes(t) ==
    /\ thread[t] = "promoting"
    /\ \E u \in promoting[t] :
         /\ Publish(u, <<"started">>)
         /\ thread' = [thread EXCEPT ![t] = "dead", ![u] = "started"]
    /\ promoting' = [promoting EXCEPT ![t] = {}]
    /\ UNCHANGED <<state, order, owner, cancelReq, slots, pending, command,
                   accepting, executorOpen, closerVars, svcVars, clientVars>>

-----------------------------------------------------------------------------
(* The daemon stops: executor.stop_accepting(cancel_pending=True), then    *)
(* shutdown() in a thread of its own.                                      *)

(* Commands an executor thread already holds still run.                    *)
StopExecutor ==
    /\ MayStop
    /\ executorOpen
    /\ presence # "leaving"
    /\ executorOpen' = FALSE
    /\ \E held \in SUBSET {t \in Transfer : command[t] = "submitted"} :
         command' = [t \in Transfer |->
                       IF command[t] = "submitted" /\ t \notin held
                       THEN "dropped" ELSE command[t]]
    /\ UNCHANGED <<recordVars, owner, cancelReq, poolVars, accepting,
                   closerVars, svcVars, clientVars>>

(* on_cancel: reject_pending_start.                                        *)
StartDropped(t) ==
    /\ command[t] = "dropped"
    /\ Fail(t)
    /\ command' = [command EXCEPT ![t] = "done"]
    /\ UNCHANGED <<owner, cancelReq, poolVars, accepting, executorOpen,
                   closerVars, svcVars, clientVars>>

ShutdownBegins ==
    /\ closer = "serving"
    /\ ~executorOpen
    /\ \A t \in Transfer : command[t] # "dropped"
    /\ accepting' = FALSE
    /\ pending' = <<>>
    /\ cancelReq' = cancelReq \cup Inflight
    /\ joining' = slots
    /\ closer' = "joining"
    /\ UNCHANGED <<recordVars, owner, slots, thread, promoting, command,
                   executorOpen, stuck, svcVars, clientVars>>

(* join() of a live thread returns when it ends or at the deadline.        *)
ShutdownJoins ==
    /\ closer = "joining"
    /\ joining # <<>>
    /\ thread[Head(joining)] # "registered"
    /\ joining' = Tail(joining)
    /\ UNCHANGED <<recordVars, owner, cancelReq, poolVars, command, accepting,
                   executorOpen, closer, stuck, svcVars, clientVars>>

(* join() of a thread that was never started raises: shutdown() ends here. *)
ShutdownJoinRaises ==
    /\ closer = "joining"
    /\ joining # <<>>
    /\ thread[Head(joining)] = "registered"
    /\ closer' = "aborted"
    /\ UNCHANGED <<recordVars, owner, cancelReq, poolVars, command, accepting,
                   executorOpen, joining, stuck, svcVars, clientVars>>

ShutdownFindsStuckMut ==   \* mutant: only transfers that have a worker
    /\ closer = "joining"
    /\ joining = <<>>
    /\ stuck' = {t \in Inflight : state[t] # "queued"}
    /\ closer' = "failing"
    /\ UNCHANGED <<recordVars, owner, cancelReq, poolVars, command, accepting,
                   executorOpen, joining, svcVars, clientVars>>

ShutdownFindsStuck ==
    /\ closer = "joining"
    /\ joining = <<>>
    /\ stuck' = Inflight
    /\ closer' = "failing"
    /\ UNCHANGED <<recordVars, owner, cancelReq, poolVars, command, accepting,
                   executorOpen, joining, svcVars, clientVars>>

ShutdownFails(t) ==
    /\ closer = "failing"
    /\ t \in stuck
    /\ Fail(t)
    /\ stuck' = stuck \ {t}
    /\ UNCHANGED <<owner, cancelReq, poolVars, command, accepting,
                   executorOpen, closer, joining, svcVars, clientVars>>

ShutdownCloses ==
    /\ closer = "failing"
    /\ stuck = {}
    /\ closer' = "closed"
    /\ UNCHANGED <<recordVars, owner, cancelReq, poolVars, command, accepting,
                   executorOpen, joining, stuck, svcVars, clientVars>>

-----------------------------------------------------------------------------
Selector ==
    \/ \E t \in Transfer : StartTransfer(t) \/ StartTransferRejected(t)
    \/ \E s \in Service : AttachService(s)
    \/ DetachFromServices \/ DetachClient \/ Reconnect

Executor(t) ==
    \/ RunTransfer(t) \/ RunTransferStarts(t)
    \/ RunTransferQueues(t) \/ RunTransferTooLate(t)

Worker(t) ==
    \/ WorkerEnters(t) \/ WorkerReturnsEarly(t)
    \/ WorkerAcquires(t) \/ WorkerCannotAcquire(t)
    \/ CopyCompletes(t) \/ CopyFails(t) \/ CopyCancelled(t)
    \/ WorkerFinally(t) \/ WorkerPromotes(t)

Shutdown ==
    \/ ShutdownBegins \/ ShutdownJoins \/ ShutdownJoinRaises
    \/ ShutdownFindsStuck \/ ShutdownCloses
    \/ \E t \in Transfer : StartDropped(t) \/ ShutdownFails(t)

Next ==
    \/ Selector
    \/ \E s \in Service : ServiceEnds(s)
    \/ \E t \in Transfer : Executor(t) \/ Worker(t)
    \/ \E t \in Transfer : CancelTransfer(t)
    \/ StopExecutor
    \/ Shutdown

Spec == Init /\ [][Next]_vars

(* The executor's and the runtime's own threads make progress and a copy   *)
(* ends (an assumption on the remote side); nobody has to start, cancel or *)
(* stop.                                                                   *)
Fairness ==
    /\ \A t \in Transfer : WF_vars(Executor(t)) /\ WF_vars(Worker(t))
    /\ WF_vars(Shutdown)
    /\ WF_vars(DetachClient)

FairSpec == Spec /\ Fairness

-----------------------------------------------------------------------------
Threads == {"none", "registered", "started", "acquiring", "copying",
            "finally", "promoting", "dead"}

(* Every variable keeps its type. *)
TypeOK ==
    /\ state \in [Transfer -> States]
    /\ owner \in [Transfer -> Client \cup {NoClient}]
    /\ cancelReq \subseteq Transfer
    /\ order \in Seq(Transfer)
    /\ slots \in Seq(Transfer)
    /\ pending \in Seq(Transfer)
    /\ command \in [Transfer -> {"none", "submitted", "starting", "dropped", "done"}]
    /\ thread \in [Transfer -> Threads]
    /\ promoting \in [Transfer -> SUBSET Transfer]
    /\ accepting \in BOOLEAN
    /\ executorOpen \in BOOLEAN
    /\ closer \in {"serving", "joining", "failing", "closed", "aborted"}
    /\ joining \in Seq(Transfer)
    /\ stuck \subseteq Transfer
    /\ log \in [Transfer -> Seq({"created", "started"} \cup Terminal)]
    /\ svcReady \subseteq Service
    /\ svcOwner \in [Service -> Client \cup {NoClient}]
    /\ client \in Client
    /\ presence \in {"here", "leaving", "gone"}

(* The threads that use a connection, whatever _worker_threads says of     *)
(* them: never more than the pool allows, nor, while the daemon serves,    *)
(* more of one service than its limit ("Dropbear SSH banners still         *)
(* serialize to 1 transfer per SFTP service", file-transfers.md).          *)
Using == {t \in Transfer : thread[t] \in {"acquiring", "copying"}}
CapsHeld ==
    /\ Cardinality(Using) <= MaxConcurrent
    /\ closer = "serving" => \A s \in Service :
         Cardinality({t \in Using : ServiceOf[t] = s}) <= ServiceLimit[s]

(* The service limit counts the workers whose record is retained, and a    *)
(* record may be evicted between its worker's last transition and the      *)
(* finally clause; the next two properties hold outside that window.       *)
SlotsRetained == Range(slots) \subseteq Stored

(* A worker that ends promotes one transfer only.  That is enough: while   *)
(* the daemon serves, no transfer waits that the pool could start, and a   *)
(* cancelled one does not stay in the queue.                               *)
WorkConserving ==
    closer = "serving" =>
      \A i \in DOMAIN pending :
         Waiting(pending[i]) /\ (SlotsRetained => ~CanStart(pending[i], slots))

(* Transfers of one service start in the order in which they were queued,  *)
(* whether a command or a finished worker starts them.                     *)
StartsNow(t) == state[t] = "queued" /\ state'[t] = "starting"
AheadOf(t) ==
    {pending[i] : i \in {j \in DOMAIN pending :
        \A k \in DOMAIN pending : pending[k] = t => j < k}}
FifoPerService ==
    [][\A t \in Transfer : StartsNow(t) /\ SlotsRetained =>
         \A u \in AheadOf(t) : ServiceOf[u] = ServiceOf[t] => u \notin Range(pending')]_vars

(* The events of a transfer: created first, started at most once, at most  *)
(* one final event, which tells the state the record ended in.  While the  *)
(* daemon serves nothing follows it; shutdown() may fail a record whose    *)
(* STARTED event its registering thread has yet to publish.                *)
ToldOnce ==
    \A t \in Transfer : \A i \in DOMAIN log[t] :
       /\ log[t][i] = "created" <=> i = 1
       /\ \A j \in DOMAIN log[t] : log[t][j] = log[t][i] => i = j
       /\ log[t][i] \in Terminal =>
            log[t][i] = state[t] /\ (closer = "serving" => i = Len(log[t]))

(* A finished transfer stays as it is, and if it never had a worker (it    *)
(* was cancelled in the queue, or refused) it never gets one.              *)
Settled ==
    [][\A t \in Transfer : state[t] \in Terminal =>
         /\ state'[t] = state[t]
         /\ thread[t] = "none" => thread'[t] = "none"]_vars

(* "Active transfers are never evicted", the finished ones are capped.     *)
RetentionExact ==
    /\ \A t \in Transfer : state[t] \notin Terminal \cup {"absent"} => t \in Stored
    /\ Cardinality({t \in Stored : state[t] \in Terminal}) <= MaxRetained

(* A worker thread that has ended but still holds its slot.                *)
Leaked == {t \in Range(slots) : thread[t] = "dead"}

(* While the daemon serves, an active transfer has somebody who will end   *)
(* it: its command, its place in the queue, its thread; or its thread is   *)
(* one of the leaked ones.                                                 *)
ActiveHasKeeper ==
    \A t \in Inflight :
       \/ command[t] \in {"submitted", "starting", "dropped"}
       \/ t \in Range(pending)
       \/ thread[t] \in {"registered", "started", "acquiring", "copying"}
       \/ t \in Leaked
       \/ closer # "serving"

(* After shutdown() no retained transfer is active.                        *)
ClosedMeansSettled == closer = "closed" => Inflight = {}

(* Every accepted transfer ends: again and again all are terminal, unless  *)
(* a leaked slot keeps one from ending, or an unstarted thread aborted     *)
(* shutdown().                                                             *)
TransferSettles ==
    []<>(\/ \A t \in Transfer : state[t] \in Terminal \cup {"absent"}
         \/ Leaked # {} \/ closer = "aborted")

(* Slots are used exactly: never more than there are, and none left idle   *)
(* that a waiting transfer could have.                                     *)
SlotsExact == CapsHeld /\ WorkConserving

(* The records: typed, retained as they should be, told once, and none     *)
(* active after shutdown().                                                *)
RecordsSound == TypeOK /\ RetentionExact /\ ToldOnce /\ ClosedMeansSettled

(* Accepted transfers end, and for good.                                   *)
TransfersSettle == Settled /\ TransferSettles

(* "Completed worker threads are removed" (file-transfers.md): no thread   *)
(* that has ended is still counted as a worker.                            *)
CompletedWorkersRemoved == Leaked = {}

=============================================================================
