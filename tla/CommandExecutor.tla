-------------------------- MODULE CommandExecutor --------------------------
(***************************************************************************)
(* BoundedCommandExecutor (daemon/command_executor.py): a fixed pool of    *)
(* worker threads, one condition variable shared by the workers and by the *)
(* thread that shuts the pool down, and a FIFO lane per command key.       *)
(*                                                                         *)
(* Every `with self._condition` block is one action.  The condition        *)
(* variable is explicit: `waitset` holds the threads blocked in wait(),    *)
(* notify() wakes an arbitrary one of them, notify_all() wakes them all.   *)
(***************************************************************************)
EXTENDS Integers, Sequences, FiniteSets

CONSTANTS Worker,       \* worker threads
          Closer,       \* the thread that runs stop_accepting and shutdown
          Key,          \* lane keys
          Command,      \* commands; each is submitted at most once
          KeyOf,        \* key of each command
          MaxCommands,  \* max_commands
          NoCommand     \* a worker that holds no command

ASSUME ExecutorAssumption ==
    /\ Closer \notin Worker
    /\ NoCommand \notin Command
    /\ IsFiniteSet(Command)
    /\ KeyOf \in [Command -> Key]
    /\ MaxCommands \in Nat \ {0}

VARIABLES
    ready,         \* _ready
    waiting,       \* _waiting; an absent key is the empty sequence
    occupiedKeys,  \* _occupied_keys
    runningKeys,   \* _running_keys
    outstanding,   \* _outstanding
    accepting,     \* _accepting
    stopping,      \* _stopping
    waitset,       \* threads blocked in _condition.wait()
    worker,        \* control point of each worker thread
    current,       \* command held by each worker thread
    outcome,       \* what the executor told the submitter of each command
    closer,        \* control point of the closing thread
    cancelled,     \* commands whose on_cancel the closing thread still owes
    drained,       \* shutdown() saw no outstanding command
    admitted       \* history: accepted commands, oldest first

vars == <<ready, waiting, occupiedKeys, runningKeys, outstanding, accepting,
          stopping, waitset, worker, current, outcome, closer, cancelled,
          drained, admitted>>

queueVars  == <<ready, waiting, occupiedKeys>>
closerVars == <<closer, cancelled, drained>>

Final == {"rejected", "completed", "failed", "cancelled"}

Init ==
    /\ ready = <<>>
    /\ waiting = [k \in Key |-> <<>>]
    /\ occupiedKeys = {}
    /\ runningKeys = {}
    /\ outstanding = 0
    /\ accepting = TRUE
    /\ stopping = FALSE
    /\ waitset = {}
    /\ worker = [w \in Worker |-> "looking"]
    /\ current = [w \in Worker |-> NoCommand]
    /\ outcome = [c \in Command |-> "new"]
    /\ closer = "serving"
    /\ cancelled = <<>>
    /\ drained = FALSE
    /\ admitted = <<>>

-----------------------------------------------------------------------------
(* Condition variable. *)

Notify ==
    IF waitset = {} THEN UNCHANGED waitset
                    ELSE \E t \in waitset : waitset' = waitset \ {t}

NotifyAll == waitset' = {}

-----------------------------------------------------------------------------
(* submit() and submit_background(), from any thread. *)

\* Mutant: one command too many.
HasCapacityMutant == accepting /\ outstanding <= MaxCommands
HasCapacity == accepting /\ outstanding < MaxCommands

\* Mutant: the lane of the key is ignored.
EnqueueMutant(c) ==
    /\ occupiedKeys' = occupiedKeys \union {KeyOf[c]}
    /\ ready' = Append(ready, c)
    /\ Notify
    /\ UNCHANGED waiting

\* Mutant: no worker is woken.
EnqueueSilentMutant(c) ==
    IF KeyOf[c] \in occupiedKeys
    THEN /\ waiting' = [waiting EXCEPT ![KeyOf[c]] = Append(@, c)]
         /\ UNCHANGED <<ready, occupiedKeys, waitset>>
    ELSE /\ occupiedKeys' = occupiedKeys \union {KeyOf[c]}
         /\ ready' = Append(ready, c)
         /\ UNCHANGED <<waiting, waitset>>

Enqueue(c) ==
    IF KeyOf[c] \in occupiedKeys
    THEN /\ waiting' = [waiting EXCEPT ![KeyOf[c]] = Append(@, c)]
         /\ UNCHANGED <<ready, occupiedKeys, waitset>>
    ELSE /\ occupiedKeys' = occupiedKeys \union {KeyOf[c]}
         /\ ready' = Append(ready, c)
         /\ Notify
         /\ UNCHANGED waiting

Submit(c) ==
    /\ outcome[c] = "new"
    /\ HasCapacity
    /\ outstanding' = outstanding + 1
    /\ Enqueue(c)
    /\ outcome' = [outcome EXCEPT ![c] = "queued"]
    /\ admitted' = Append(admitted, c)
    /\ UNCHANGED <<runningKeys, accepting, stopping, worker, current, closerVars>>

SubmitRejected(c) ==
    /\ outcome[c] = "new"
    /\ ~HasCapacity
    /\ outcome' = [outcome EXCEPT ![c] = "rejected"]
    /\ UNCHANGED <<queueVars, runningKeys, outstanding, accepting, stopping,
                   waitset, worker, current, closerVars, admitted>>

-----------------------------------------------------------------------------
(* _worker_main() and _finish(). *)

WorkerWait(w) ==
    /\ worker[w] = "looking" /\ w \notin waitset
    /\ ready = <<>> /\ ~stopping
    /\ waitset' = waitset \union {w}
    /\ UNCHANGED <<queueVars, runningKeys, outstanding, accepting, stopping,
                   worker, current, outcome, closerVars, admitted>>

WorkerReturn(w) ==
    /\ worker[w] = "looking" /\ w \notin waitset
    /\ ready = <<>> /\ stopping
    /\ worker' = [worker EXCEPT ![w] = "returned"]
    /\ UNCHANGED <<queueVars, runningKeys, outstanding, accepting, stopping,
                   waitset, current, outcome, closerVars, admitted>>

WorkerTake(w) ==
    /\ worker[w] = "looking" /\ w \notin waitset
    /\ ready # <<>>
    /\ ready' = Tail(ready)
    /\ runningKeys' = runningKeys \union {KeyOf[Head(ready)]}
    /\ current' = [current EXCEPT ![w] = Head(ready)]
    /\ worker' = [worker EXCEPT ![w] = "running"]
    /\ UNCHANGED <<waiting, occupiedKeys, outstanding, accepting, stopping,
                   waitset, outcome, closerVars, admitted>>

\* operation() returns or raises, and on_complete or on_error is called; an
\* exception out of either callback is logged and swallowed.
WorkerRun(w, result) ==
    /\ worker[w] = "running"
    /\ outcome' = [outcome EXCEPT ![current[w]] = result]
    /\ worker' = [worker EXCEPT ![w] = "finishing"]
    /\ UNCHANGED <<queueVars, runningKeys, outstanding, accepting, stopping,
                   waitset, current, closerVars, admitted>>

\* Mutant: the waiting commands of the lane are lost.
AdvanceLaneMutant(k) ==
    /\ occupiedKeys' = occupiedKeys \ {k}
    /\ UNCHANGED <<ready, waiting>>

\* The lane's next command becomes ready; an exhausted lane is released.
AdvanceLane(k) ==
    IF waiting[k] # <<>>
    THEN /\ ready' = Append(ready, Head(waiting[k]))
         /\ waiting' = [waiting EXCEPT ![k] = Tail(@)]
         /\ UNCHANGED occupiedKeys
    ELSE /\ occupiedKeys' = occupiedKeys \ {k}
         /\ UNCHANGED <<ready, waiting>>

WorkerFinish(w) ==
    LET k == KeyOf[current[w]] IN
    /\ worker[w] = "finishing"
    /\ runningKeys' = runningKeys \ {k}
    /\ outstanding' = outstanding - 1
    /\ AdvanceLane(k)
    /\ NotifyAll
    /\ worker' = [worker EXCEPT ![w] = "looking"]
    /\ current' = [current EXCEPT ![w] = NoCommand]
    /\ UNCHANGED <<accepting, stopping, outcome, closerVars, admitted>>

-----------------------------------------------------------------------------
(* stop_accepting(cancel_pending=True) and shutdown().  The server calls   *)
(* the first when cleanup starts and the second, which begins by calling   *)
(* the first again, once the runtimes are shutting down.                   *)

Elements(s) == {s[i] : i \in DOMAIN s}

Pending == Elements(ready) \union UNION {Elements(waiting[k]) : k \in Key}

\* An order in which the pending commands are collected: ready first, then
\* lane by lane, each lane in its order (Python iterates the dict of lanes).
CancelOrder(q) ==
    /\ Len(q) = Cardinality(Pending)
    /\ Elements(q) = Pending
    /\ \A i \in DOMAIN ready : q[i] = ready[i]
    /\ \A k \in Key : \A i, j \in DOMAIN waiting[k] : i < j =>
          \E m, n \in DOMAIN q : m < n /\ q[m] = waiting[k][i] /\ q[n] = waiting[k][j]

\* Mutant: the lanes keep their waiting commands.
CancelPendingMutant(q) ==
    /\ CancelOrder(q)
    /\ ready' = <<>>
    /\ UNCHANGED waiting
    /\ occupiedKeys' = occupiedKeys \ ({KeyOf[c] : c \in Pending} \ runningKeys)
    /\ outstanding' = outstanding - Len(q)

CancelPending(q) ==
    /\ CancelOrder(q)
    /\ ready' = <<>>
    /\ waiting' = [k \in Key |-> <<>>]
    /\ occupiedKeys' = occupiedKeys \ ({KeyOf[c] : c \in Pending} \ runningKeys)
    /\ outstanding' = outstanding - Len(q)

StopAccepting ==
    /\ closer \in {"serving", "stopped"}
    /\ cancelled = <<>>
    /\ accepting' = FALSE
    /\ \E q \in [1..Cardinality(Pending) -> Pending] :
          CancelPending(q) /\ cancelled' = q
    /\ NotifyAll
    /\ closer' = IF closer = "serving" THEN "stopped" ELSE "draining"
    /\ UNCHANGED <<runningKeys, stopping, worker, current, outcome, drained, admitted>>

\* on_cancel callbacks run after the lock is released, oldest first.
RunCancel ==
    /\ cancelled # <<>>
    /\ outcome' = [outcome EXCEPT ![Head(cancelled)] = "cancelled"]
    /\ cancelled' = Tail(cancelled)
    /\ UNCHANGED <<queueVars, runningKeys, outstanding, accepting, stopping,
                   waitset, worker, current, closer, drained, admitted>>

NothingOutstanding == outstanding = 0

DrainWait ==
    /\ closer = "draining" /\ cancelled = <<>> /\ Closer \notin waitset
    /\ ~NothingOutstanding
    /\ waitset' = waitset \union {Closer}
    /\ UNCHANGED <<queueVars, runningKeys, outstanding, accepting, stopping,
                   worker, current, outcome, closerVars, admitted>>

\* No command is left, or the deadline has passed (a timed wait ends even
\* when nobody notifies): tell the workers to return.
DrainDone ==
    /\ closer = "draining" /\ cancelled = <<>>
    /\ drained' = NothingOutstanding
    /\ stopping' = TRUE
    /\ NotifyAll
    /\ closer' = "joining"
    /\ UNCHANGED <<queueVars, runningKeys, outstanding, accepting, worker,
                   current, outcome, cancelled, admitted>>

\* join() every worker until the deadline.
JoinDone ==
    /\ closer = "joining"
    /\ closer' = "returned"
    /\ UNCHANGED <<queueVars, runningKeys, outstanding, accepting, stopping,
                   waitset, worker, current, outcome, cancelled, drained, admitted>>

-----------------------------------------------------------------------------
WorkerStep(w) ==
    \/ WorkerWait(w) \/ WorkerReturn(w) \/ WorkerTake(w)
    \/ WorkerRun(w, "completed") \/ WorkerRun(w, "failed")
    \/ WorkerFinish(w)

CloserStep == StopAccepting \/ RunCancel \/ DrainWait \/ DrainDone \/ JoinDone

Next ==
    \/ \E c \in Command : Submit(c) \/ SubmitRejected(c)
    \/ \E w \in Worker : WorkerStep(w)
    \/ CloserStep

Spec == Init /\ [][Next]_vars

\* Threads are scheduled: a worker that can step does, operations are bounded
\* (every one of them has a deadline), and cancel callbacks do get to run.
\* Nothing forces a submission or a shutdown.
FairSpec ==
    /\ Spec
    /\ \A w \in Worker : WF_vars(WorkerStep(w))
    /\ WF_vars(RunCancel)

-----------------------------------------------------------------------------
(* Properties. *)

\* Type invariant of the executor's fields and of the threads' control points.
TypeOK ==
    /\ ready \in Seq(Command)
    /\ waiting \in [Key -> Seq(Command)]
    /\ occupiedKeys \subseteq Key
    /\ runningKeys \subseteq Key
    /\ outstanding \in Int
    /\ accepting \in BOOLEAN /\ stopping \in BOOLEAN
    /\ waitset \subseteq Worker \union {Closer}
    /\ worker \in [Worker -> {"looking", "running", "finishing", "returned"}]
    /\ current \in [Worker -> Command \union {NoCommand}]
    /\ outcome \in [Command -> Final \union {"new", "queued"}]
    /\ closer \in {"serving", "stopped", "draining", "joining", "returned"}
    /\ cancelled \in Seq(Command)
    /\ drained \in BOOLEAN
    /\ admitted \in Seq(Command)

\* Two workers never hold commands of the same key: equal session ids form
\* one serial lane.
LaneExclusion ==
    \A v, w \in Worker :
        (v # w /\ current[v] # NoCommand /\ current[w] # NoCommand)
            => KeyOf[current[v]] # KeyOf[current[w]]

Begun(c) == outcome[c] \in {"completed", "failed"} \/ \E w \in Worker : current[w] = c

\* Commands of one key run in the order they were accepted, each only after
\* the operation and the callback of the one before have returned: a close
\* accepted while a startup blocks never overtakes it.
LaneOrder ==
    \A i, j \in DOMAIN admitted :
        (/\ i < j
         /\ KeyOf[admitted[i]] = KeyOf[admitted[j]]
         /\ Begun(admitted[j]))
            => outcome[admitted[i]] \in {"completed", "failed"}

\* _outstanding counts exactly the accepted commands whose lane slot is not
\* yet released, and never exceeds max_commands.
CapacityExact ==
    /\ outstanding = Cardinality(Pending \union ({current[w] : w \in Worker} \ {NoCommand}))
    /\ outstanding <= MaxCommands

\* A submitter hears exactly one of on_complete, on_error, on_cancel and
\* "rejected": no later callback follows the first.
ResolvedOnce == [][\A c \in Command : outcome[c] \in Final => outcome'[c] = outcome[c]]_vars

\* Once stop_accepting has released the lock no further command begins, not
\* even one that was queued behind a running command of its lane.
NothingBeginsAfterStop ==
    [][closer # "serving" =>
         \A w \in Worker : current[w] = NoCommand => current'[w] = NoCommand]_vars

\* shutdown() that reports a drained pool leaves no accepted command without
\* its callback.
DrainedMeansResolved ==
    (closer \in {"joining", "returned"} /\ drained) =>
        \A c \in Command : outcome[c] # "queued"

\* Every accepted command is eventually completed, failed or cancelled: no
\* wakeup is lost although workers and shutdown share one condition variable.
AcceptedResolved == \A c \in Command : (outcome[c] = "queued") ~> (outcome[c] \in Final)

\* The bookkeeping of the pool: commands of a lane in their order, an exact
\* count, and no accepted command left unanswered by a drained pool.
BookkeepingExact == TypeOK /\ LaneOrder /\ CapacityExact /\ DrainedMeansResolved

\* Every accepted command is answered, and answered once.
ResolvedExactlyOnce == ResolvedOnce /\ AcceptedResolved

-----------------------------------------------------------------------------
(* The executor implements SerialLanes: a lane is the command of the key   *)
(* that is ready or held by a worker, followed by the waiting ones.        *)

Holders(k) ==
    {w \in Worker : current[w] # NoCommand /\ KeyOf[current[w]] = k}
Fronts(k) ==
    {c \in Elements(ready) : KeyOf[c] = k} \union {current[w] : w \in Holders(k)}
LaneOf(k) ==
    (IF Fronts(k) = {} THEN <<>> ELSE <<CHOOSE c \in Fronts(k) : TRUE>>) \o waiting[k]

Lanes == INSTANCE SerialLanes WITH
    lane <- [k \in Key |-> LaneOf(k)],
    busy <- runningKeys

\* The pool of threads refines one FIFO lane per key.
ImplementsSerialLanes == Lanes!LanesSpec
=============================================================================
