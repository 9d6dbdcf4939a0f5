--------------------------- MODULE SessionRuntime ---------------------------
(***************************************************************************)
(* SessionRuntime (daemon/session_runtime.py) with what drives it: the     *)
(* per-session lanes of the command executor (SerialLanes), the PTY runner *)
(* (one I/O thread, one reaper), the OpenSSH diagnostics monitor and its   *)
(* grace timers, the selector thread that serves sessions.open and         *)
(* sessions.close, and the thread that shuts the runtime down.             *)
(*                                                                         *)
(* Every `with self._lock` block is one action.  What its thread does      *)
(* after releasing the lock (publish events, call terminal callbacks,      *)
(* release the diagnostics lease) is queued in todo[t] and done one effect *)
(* at a time, so the effects of different threads interleave as they do in *)
(* the daemon.                                                             *)
(***************************************************************************)
EXTENDS Integers, Sequences, FiniteSets

CONSTANTS
    Session,          \* session identifiers
    NoSession,        \* the thread index of the threads that serve them all
    TerminalCapable,  \* the runner owns PTYs (PtySessionProcessRunner)
    EvidenceGate,     \* enable_connection_evidence_gate() was called
    AuthGate,         \* set_auth_gate() installed a gate
    Diagnostics,      \* a readiness manager may instrument a launch
    MaxRetained,      \* max_retained_closed_sessions
    MaxCommands,      \* max_commands of the executor
    MaxOutput,        \* bound: PTY chunks per session
    MaxCloses,        \* bound: sessions.close requests per session
    ExitCodes,        \* bound: how a child may end: "clean", "error", "fatal"
    MayStop           \* bound: whether the daemon is asked to stop

ASSUME RuntimeAssumption ==
    /\ NoSession \notin Session
    /\ IsFiniteSet(Session)
    /\ {TerminalCapable, EvidenceGate, AuthGate, Diagnostics, MayStop} \subseteq BOOLEAN
    /\ MaxRetained \in Nat /\ MaxCommands \in Nat \ {0}
    /\ MaxOutput \in Nat /\ MaxCloses \in Nat
    /\ ExitCodes \subseteq {"clean", "error", "fatal"}

VARIABLES
    state,        \* record.state; "none" before the session is opened
    rec,          \* the other lifecycle fields of the record
    known,        \* the keys of _records and _creation_order
    born,         \* position in _creation_order
    fault,        \* _transition_locked raised: a transition was not allowed
    lane, busy, outstanding, laneAccepting,   \* the executor (SerialLanes)
    step,         \* control point of each thread
    todo,         \* effects each thread owes after releasing the lock
    target,       \* the session the selector and the closer work on
    toReject,     \* cancelled starts whose on_cancel has not run
    toClose,      \* sessions shutdown() has yet to close
    proc,         \* the operating system's view of the session's process
    exitCode,     \* how it ended
    notified,     \* PtyProcessHandle._exit_notified / _eof_notified
    evidence,     \* verdict of classify_connection_evidence on the PTY text
    chunks,       \* PTY chunks appended to the replay buffer
    lease,        \* the session's entry in SshReadinessManager
    decisive,     \* verdicts its parser has reached
    inflight,     \* verdict taken from the parser, callback not yet run
    grace,        \* the grace timer
    told,         \* history: how often the subscribers were told what
    delivered,    \* history: chunks handed to the terminal callbacks
    closes        \* history: sessions.close requests made

recordVars == <<state, rec, known, born, fault>>
laneVars   == <<lane, busy, outstanding, laneAccepting>>
serverVars == <<target, toReject, toClose, closes>>
procVars   == <<proc, exitCode, notified>>
ptyVars    == <<evidence, chunks>>
diagVars   == <<lease, decisive, inflight, grace>>
toldVars   == <<told, delivered>>
vars == <<recordVars, laneVars, step, todo, serverVars, procVars, ptyVars,
          diagVars, toldVars>>

-----------------------------------------------------------------------------
(* Threads, effects, records. *)

Lane(s)  == <<"lane", s>>
Timer(s) == <<"timer", s>>
IO       == <<"io", NoSession>>
Reaper   == <<"reaper", NoSession>>
Monitor  == <<"monitor", NoSession>>
Selector == <<"selector", NoSession>>
Closer   == <<"closer", NoSession>>
Thread   == ({"lane", "timer"} \X Session) \union {IO, Reaper, Monitor, Selector, Closer}

Effect(do, s, what, n) == [do |-> do, session |-> s, what |-> what, chunk |-> n]
Publish(s, kind) == <<Effect("publish", s, kind, 0)>>
FinishReadiness(s) == <<Effect("finish", s, "", 0)>>
NotifyAuthenticated(s) == <<Effect("publish", s, "authenticated", 0)>>
FlushDeferred(s) == <<Effect("flush", s, "", 0)>>

States == {"created", "starting", "running", "closing", "exited", "failed", "closed"}

\* What subscribers are told: a lifecycle event per state entered, the EOF
\* marker of the terminal stream and the owner's authenticated callback.
Kinds == States \union {"eof", "authenticated"}

AllowedTransitions == [
    none     |-> {"created"},
    created  |-> {"starting", "failed", "closed"},
    starting |-> {"running", "closing", "exited", "failed"},
    running  |-> {"closing", "exited", "failed"},
    closing  |-> {"exited", "failed", "closed"},
    exited   |-> {"closed"},
    failed   |-> {"closed"},
    closed   |-> {}]

\* The record prepare_open_session creates.
NewRecord == [
    scheduled      |-> TRUE,     \* startup_scheduled
    started        |-> FALSE,    \* startup_started
    closeScheduled |-> FALSE,
    handle         |-> FALSE,    \* process_handle is not None
    capable        |-> FALSE,    \* terminal_capable
    eof            |-> FALSE,    \* pty_eof
    exit           |-> "none",   \* exit_info
    diagPrimary    |-> FALSE,
    fallback       |-> FALSE,    \* pty_fallback
    result         |-> "none",   \* diagnostic_result
    detail         |-> FALSE,    \* diagnostic_failure_detail is not None
    failure        |-> FALSE,
    deferred       |-> <<>>]     \* deferred_live_output

Cleared  == step[Closer] \in {"cleared", "runnerClosed", "returned"}
RunnerClosed == step[Closer] \in {"runnerClosed", "returned"}
\* The selector loop runs, and _accepting_commands is TRUE throughout.
Serving == step[Closer] = "serving"

\* Terminal callbacks are captured under the lock; shutdown() drops them.
Dispatch(s, n) == IF Cleared THEN <<>> ELSE <<Effect("output", s, "", n)>>
DispatchEof(s) == IF Cleared THEN <<>> ELSE Publish(s, "eof")

Init ==
    /\ state = [s \in Session |-> "none"]
    /\ rec = [s \in Session |-> NewRecord]
    /\ known = {}
    /\ born = [s \in Session |-> 0]
    /\ fault = FALSE
    /\ lane = [s \in Session |-> <<>>] /\ busy = {}
    /\ outstanding = 0 /\ laneAccepting = TRUE
    /\ step = [t \in Thread |-> IF t = Closer THEN "serving" ELSE "idle"]
    /\ todo = [t \in Thread |-> <<>>]
    /\ target = [t \in {Selector, Closer} |-> NoSession]
    /\ toReject = {} /\ toClose = {}
    /\ proc = [s \in Session |-> "none"]
    /\ exitCode = [s \in Session |-> "none"]
    /\ notified = [s \in Session |-> {}]
    /\ evidence = [s \in Session |-> "pending"]
    /\ chunks = [s \in Session |-> 0]
    /\ lease = [s \in Session |-> "none"]
    /\ decisive = [s \in Session |-> {}]
    /\ inflight = [s \in Session |-> "none"]
    /\ grace = [s \in Session |-> "off"]
    /\ told = [s \in Session |-> [kind \in Kinds |-> 0]]
    /\ delivered = [s \in Session |-> <<>>]
    /\ closes = [s \in Session |-> 0]

-----------------------------------------------------------------------------
(* _transition_locked and _evict_closed_locked. *)

\* _evict_closed_locked: all but the newest MaxRetained closed records.
Evicted(closed) ==
    {s \in closed : Cardinality({r \in closed : born[r] >= born[s]}) > MaxRetained}

Transition(s, path) ==
    LET at(i)  == IF i = 0 THEN state[s] ELSE path[i]
        last   == at(Len(path))
        closed == {r \in known : state[r] = "closed"} \union {s}
    IN /\ state' = [state EXCEPT ![s] = last]
       /\ fault' = (fault \/ \E i \in 1..Len(path) : path[i] \notin AllowedTransitions[at(i-1)])
       /\ known' = IF path # <<>> /\ last = "closed" THEN known \ Evicted(closed) ELSE known

\* One critical section of thread t about session s.
Locked(t, s, path, record, effects) ==
    /\ Transition(s, path)
    /\ rec' = [rec EXCEPT ![s] = record]
    /\ todo' = [todo EXCEPT ![t] = effects \o @]
    /\ UNCHANGED born

LeavesRecord(t, s, effects) == Locked(t, s, <<>>, rec[s], effects)

At(t, pc) == step[t] = pc /\ todo[t] = <<>>
Goto(t, pc) == step' = [step EXCEPT ![t] = pc]

Lanes == INSTANCE SerialLanes WITH
    Key <- Session, Command <- Session \X {"start", "close"},
    KeyOf <- [c \in Session \X {"start", "close"} |-> c[1]],
    accepting <- laneAccepting

-----------------------------------------------------------------------------
(* The exit of a session: _final_exit_events_locked, _process_exited.      *)

\* Why an exit is a failure; `hint` is whether post_auth_exit_failure_reason
\* finds an OpenSSH line in the recent terminal text.
ExitFails(s, code, hint) ==
    \/ /\ state[s] = "starting"
       /\ EvidenceGate \/ rec[s].diagPrimary
       /\ rec[s].detail \/ code # "clean" \/ evidence[s] # "connected"
    \/ /\ state[s] = "running" /\ ~rec[s].failure
       /\ code # "clean"
       /\ rec[s].detail \/ evidence[s] = "failed" \/ hint \/ code = "fatal"

\* Mutant: the final events are published in the wrong order.
FinalExitMutant(t, s, record, hint, before, after) ==
    Locked(t, s, IF state[s] = "failed" THEN <<"closed">> ELSE <<"exited", "closed">>,
           [record EXCEPT !.handle = FALSE],
           before \o Publish(s, "closed") \o Publish(s, "exited") \o after)

FinalExit(t, s, record, hint, before, after) ==
    LET fails == ExitFails(s, record.exit, hint)
        path  == IF state[s] = "failed" THEN <<"closed">>
                 ELSE IF fails THEN <<"failed", "closed">> ELSE <<"exited", "closed">>
    IN Locked(t, s, path,
              [record EXCEPT !.handle = FALSE, !.failure = @ \/ fails],
              before \o (IF fails THEN Publish(s, "failed") ELSE <<>>)
                     \o Publish(s, "exited") \o Publish(s, "closed") \o after)

\* Mutant: a second report of the same exit is not recognised.
ProcessExitedMutant(t, s, after) ==
    LET record == [rec[s] EXCEPT !.exit = exitCode[s]] IN
    IF rec[s].capable /\ ~rec[s].eof THEN Locked(t, s, <<>>, record, after)
    ELSE FinalExit(t, s, record, FALSE, FinishReadiness(s), after)

ProcessExited(t, s, after) ==
    LET record == [rec[s] EXCEPT !.exit = exitCode[s]] IN
    \/ /\ s \notin known \/ state[s] \in {"exited", "closed"}
       /\ LeavesRecord(t, s, after)
    \/ /\ s \in known /\ state[s] \notin {"exited", "closed"}
       /\ rec[s].capable /\ ~rec[s].eof
       /\ Locked(t, s, <<>>, record, after)
    \/ /\ s \in known /\ state[s] \notin {"exited", "closed"}
       /\ ~rec[s].capable \/ rec[s].eof
       /\ \E hint \in BOOLEAN :
             FinalExit(t, s, record, hint, FinishReadiness(s), after)

-----------------------------------------------------------------------------
(* The selector: sessions.open, sessions.close and their submission.       *)

\* fail_pending_start, also as reject_pending_start.
FailPendingStart(t, s) ==
    IF s \notin known \/ rec[s].started \/ state[s] # "starting"
    THEN LeavesRecord(t, s, <<>>)
    ELSE Locked(t, s, <<"failed">>,
                [rec[s] EXCEPT !.scheduled = FALSE, !.capable = FALSE, !.failure = TRUE],
                FinishReadiness(s) \o Publish(s, "failed"))

\* prepare_open_session: the record is created and enters STARTING at once.
Open(s) ==
    /\ Serving /\ At(Selector, "idle")
    /\ state[s] = "none"
    /\ state' = [state EXCEPT ![s] = "starting"]
    /\ rec' = [rec EXCEPT ![s] = NewRecord]
    /\ known' = known \union {s}
    /\ born' = [born EXCEPT ![s] = 1 + Cardinality({r \in Session : state[r] # "none"})]
    /\ todo' = [todo EXCEPT ![Selector] = Publish(s, "created") \o Publish(s, "starting")]
    /\ target' = [target EXCEPT ![Selector] = s]
    /\ Goto(Selector, "submitStart")
    /\ UNCHANGED <<fault, laneVars, toReject, toClose, closes, procVars, ptyVars,
                   diagVars, toldVars>>

\* prepare_close_session.
CloseRequest(s) ==
    LET done == \/ state[s] = "closed" \/ rec[s].closeScheduled
        bare == \/ state[s] \in {"created", "exited"}
                \/ state[s] = "failed" /\ ~rec[s].handle
        path == IF done THEN <<>>
                ELSE IF bare THEN <<"closed">>
                ELSE IF state[s] \in {"starting", "running"} THEN <<"closing">> ELSE <<>>
    IN /\ Serving /\ At(Selector, "idle")
       /\ s \in known /\ closes[s] < MaxCloses
       /\ closes' = [closes EXCEPT ![s] = @ + 1]
       /\ Locked(Selector, s, path,
                 [rec[s] EXCEPT !.closeScheduled = @ \/ ~(done \/ bare)],
                 IF path = <<>> THEN <<>> ELSE Publish(s, path[1]))
       /\ target' = [target EXCEPT ![Selector] = s]
       /\ Goto(Selector, IF done \/ bare THEN "idle" ELSE "submitClose")
       /\ UNCHANGED <<laneVars, toReject, toClose, procVars, ptyVars, diagVars, toldVars>>

\* _submit_deferred: the executor admits the command ...
SubmitAccepted(kind) ==
    /\ At(Selector, IF kind = "start" THEN "submitStart" ELSE "submitClose")
    /\ Lanes!Accept(<<target[Selector], kind>>)
    /\ Goto(Selector, "idle")
    /\ UNCHANGED <<recordVars, todo, serverVars, procVars, ptyVars, diagVars, toldVars>>

\* ... or it is full and on_rejected undoes the preparation.
SubmitStartRejected ==
    /\ At(Selector, "submitStart") /\ ~Lanes!CanAccept
    /\ FailPendingStart(Selector, target[Selector])
    /\ Goto(Selector, "idle")
    /\ UNCHANGED <<laneVars, serverVars, procVars, ptyVars, diagVars, toldVars>>

\* reject_pending_close; an evicted record makes it raise, which changes nothing.
SubmitCloseRejected ==
    LET s == target[Selector]
        fails == s \in known /\ rec[s].closeScheduled /\ state[s] = "closing"
    IN /\ At(Selector, "submitClose") /\ ~Lanes!CanAccept
       /\ Locked(Selector, s, IF fails THEN <<"failed">> ELSE <<>>,
                 [rec[s] EXCEPT !.closeScheduled = @ /\ s \notin known,
                                !.failure = @ \/ fails],
                 IF fails THEN Publish(s, "failed") ELSE <<>>)
       /\ Goto(Selector, "idle")
       /\ UNCHANGED <<laneVars, serverVars, procVars, ptyVars, diagVars, toldVars>>

-----------------------------------------------------------------------------
(* A command worker on the lane of session s: start_session.               *)

LaneBegin(s) ==
    /\ At(Lane(s), "idle")
    /\ Lanes!Begin(s)
    /\ Goto(Lane(s), Head(lane[s])[2])
    /\ UNCHANGED <<recordVars, todo, serverVars, procVars, ptyVars, diagVars, toldVars>>

LaneEnd(s) ==
    /\ At(Lane(s), "done")
    /\ Lanes!Finish(s)
    /\ Goto(Lane(s), "idle")
    /\ UNCHANGED <<recordVars, todo, serverVars, procVars, ptyVars, diagVars, toldVars>>

\* The first critical section: claim the startup, unless the session has
\* already left STARTING/CLOSING or its record is gone.
StartClaim(s) ==
    LET pending == s \in known /\ rec[s].scheduled /\ ~rec[s].started
        live    == state[s] \in {"starting", "closing"}
    IN
    /\ At(Lane(s), "start")
    /\ \/ /\ ~pending
          /\ FailPendingStart(Lane(s), s)     \* on_background_error
          /\ Goto(Lane(s), "done")
       \/ /\ pending /\ ~live
          /\ Locked(Lane(s), s, <<>>, [rec[s] EXCEPT !.scheduled = FALSE], <<>>)
          /\ Goto(Lane(s), "done")
       \/ /\ pending /\ live
          /\ Locked(Lane(s), s, <<>>,
                    [rec[s] EXCEPT !.scheduled = FALSE, !.started = TRUE,
                                   !.capable = TerminalCapable], <<>>)
          /\ Goto(Lane(s), "launch")
    /\ UNCHANGED <<laneVars, serverVars, procVars, ptyVars, diagVars, toldVars>>

\* readiness.subscribe registers the callbacks.
StartSubscribe(s) ==
    /\ At(Lane(s), "launch")
    /\ lease' = [lease EXCEPT ![s] = IF Diagnostics THEN "subscribed" ELSE @]
    /\ Goto(Lane(s), "build")
    /\ UNCHANGED <<recordVars, laneVars, todo, serverVars, procVars, ptyVars, decisive,
                   inflight, grace, toldVars>>

\* The launch builder may raise, and may instrument the launch: prepare_launch
\* engages the lease (without callbacks if it was released in between) and
\* arms the grace timer.
StartLaunch(s) ==
    /\ At(Lane(s), "build")
    /\ \/ /\ Goto(Lane(s), "spawn")
          /\ Diagnostics
          /\ lease' = [lease EXCEPT ![s] = IF @ = "subscribed" THEN "engaged" ELSE "orphan"]
          /\ grace' = [grace EXCEPT ![s] = "armed"]
       \/ /\ Goto(Lane(s), "spawn") \/ Goto(Lane(s), "startFailed")
          /\ UNCHANGED <<lease, grace>>
    /\ UNCHANGED <<recordVars, laneVars, todo, serverVars, procVars, ptyVars,
                   decisive, inflight, toldVars>>

\* runner.start: from here on the I/O thread and the reaper own the child,
\* although the worker has not stored the handle yet.  A closed runner kills
\* the child it spawned and raises (every record is CLOSED by then, so the
\* exit callback of that child changes nothing).
StartSpawn(s) ==
    /\ At(Lane(s), "spawn")
    /\ \/ /\ ~RunnerClosed
          /\ proc' = [proc EXCEPT ![s] = "alive"]
          /\ Goto(Lane(s), "spawned")
       \/ /\ Goto(Lane(s), "startFailed")
          /\ UNCHANGED proc
    /\ UNCHANGED <<recordVars, laneVars, todo, serverVars, exitCode, notified,
                   ptyVars, diagVars, toldVars>>

\* Mutant: _startup_failed without its state check.
StartupFailedMutant(s) ==
    Locked(Lane(s), s, <<"failed">>,
           [rec[s] EXCEPT !.scheduled = FALSE, !.capable = FALSE, !.failure = TRUE],
           FinishReadiness(s) \o Publish(s, "failed"))

\* _startup_failed.
StartupFailed(s) ==
    IF state[s] # "starting"
    THEN LeavesRecord(Lane(s), s, <<>>)
    ELSE Locked(Lane(s), s, <<"failed">>,
                [rec[s] EXCEPT !.scheduled = FALSE, !.capable = FALSE,
                               !.deferred = <<>>, !.failure = TRUE],
                FinishReadiness(s) \o Publish(s, "failed"))

StartFailed(s) ==
    /\ At(Lane(s), "startFailed")
    /\ StartupFailed(s)
    /\ Goto(Lane(s), "done")
    /\ UNCHANGED <<laneVars, serverVars, procVars, ptyVars, diagVars, toldVars>>

\* The second critical section: is the launch instrumented?
StartEngage(s) ==
    LET primary == rec[s].diagPrimary \/ lease[s] \in {"engaged", "orphan"} IN
    /\ At(Lane(s), "spawned")
    /\ Locked(Lane(s), s, <<>>, [rec[s] EXCEPT !.diagPrimary = primary], <<>>)
    /\ Goto(Lane(s), IF AuthGate /\ ~(EvidenceGate /\ rec[s].capable) /\ ~primary
                     THEN "gate" ELSE "attach")
    /\ UNCHANGED <<laneVars, serverVars, procVars, ptyVars, diagVars, toldVars>>

\* The blocking auth gate answers; a refusal fails the startup.
StartGate(s) ==
    /\ At(Lane(s), "gate")
    /\ \/ Goto(Lane(s), "attach") /\ UNCHANGED <<recordVars, todo>>
       \/ Goto(Lane(s), "reap") /\ StartupFailed(s)
    /\ UNCHANGED <<laneVars, serverVars, procVars, ptyVars, diagVars, toldVars>>

\* Mutant: the spawn of the process counts as readiness.
PromotesMutant(s) == rec[s].diagPrimary => rec[s].result = "auth"

\* What the third critical section does to a session that is still STARTING.
Promotes(s) ==
    IF rec[s].diagPrimary THEN rec[s].result = "auth"
    ELSE (EvidenceGate /\ rec[s].capable) => evidence[s] = "connected"

DeferredOutputs(s, d) == [i \in 1..Len(d) |-> Effect("output", s, "", d[i])]

\* The third critical section stores the handle and settles the startup,
\* according to the state it finds: a failed verdict was parked ...
AttachFailed(s) ==
    /\ state[s] = "starting" /\ rec[s].diagPrimary /\ rec[s].result = "failed"
    /\ Locked(Lane(s), s, <<"failed">>,
              [rec[s] EXCEPT !.handle = TRUE, !.detail = TRUE, !.failure = TRUE],
              Publish(s, "failed") \o FinishReadiness(s))
    /\ Goto(Lane(s), "reap")

\* Mutant: the deferred output is left in the record.
AttachRunningMutant(s) ==
    /\ state[s] = "starting" /\ Promotes(s)
    /\ Locked(Lane(s), s, <<"running">>, [rec[s] EXCEPT !.handle = TRUE],
              Publish(s, "running") \o NotifyAuthenticated(s))
    /\ Goto(Lane(s), "done")

\* ... the session is proven and its deferred output is taken out ...
AttachRunning(s) ==
    /\ state[s] = "starting" /\ Promotes(s)
    /\ Locked(Lane(s), s, <<"running">>, [rec[s] EXCEPT !.handle = TRUE, !.deferred = <<>>],
              Publish(s, "running") \o NotifyAuthenticated(s)
                  \o (IF Cleared THEN <<>> ELSE DeferredOutputs(s, rec[s].deferred)))
    /\ Goto(Lane(s), "done")

\* ... it waits for a verdict or for evidence ...
AttachWaiting(s) ==
    /\ state[s] = "starting" /\ ~Promotes(s)
    /\ ~(rec[s].diagPrimary /\ rec[s].result = "failed")
    /\ Locked(Lane(s), s, <<>>, [rec[s] EXCEPT !.handle = TRUE], <<>>)
    /\ Goto(Lane(s), "done")

\* ... a close overtook it; the close command finds the handle ...
AttachClosing(s) ==
    /\ state[s] = "closing"
    /\ Locked(Lane(s), s, <<>>, [rec[s] EXCEPT !.handle = TRUE, !.deferred = <<>>], <<>>)
    /\ Goto(Lane(s), "done")

\* Mutant: the late child is forgotten.
AttachLateMutant(s) ==
    /\ state[s] \in {"exited", "failed", "closed"}
    /\ LeavesRecord(Lane(s), s, <<>>)
    /\ Goto(Lane(s), "done")

\* ... or it is already over and the worker itself reaps the child.
AttachLate(s) ==
    /\ state[s] \in {"exited", "failed", "closed"}
    /\ LeavesRecord(Lane(s), s, <<>>)
    /\ Goto(Lane(s), "reap")

StartAttach(s) ==
    /\ At(Lane(s), "attach")
    /\ AttachFailed(s) \/ AttachRunning(s) \/ AttachWaiting(s) \/ AttachClosing(s)
         \/ AttachLate(s)
    /\ UNCHANGED <<laneVars, serverVars, procVars, ptyVars, diagVars, toldVars>>

\* _terminate_handle: signal the child; wait() either sees it exit, and is
\* the first to notify or not, or the deadline passes.
Signal(s) ==
    proc' = [proc EXCEPT ![s] = IF @ = "alive" THEN "signalled" ELSE @]

StartReap(s) ==
    /\ At(Lane(s), "reap")
    /\ Signal(s)
    /\ Goto(Lane(s), "reaping")
    /\ UNCHANGED <<recordVars, laneVars, todo, serverVars, exitCode, notified,
                   ptyVars, diagVars, toldVars>>

StartReaped(s) ==
    /\ At(Lane(s), "reaping")
    /\ Goto(Lane(s), "done")
    /\ \/ /\ proc[s] = "exited" /\ "exit" \notin notified[s]
          /\ notified' = [notified EXCEPT ![s] = @ \union {"exit"}]
          /\ ProcessExited(Lane(s), s, <<>>)
       \/ /\ proc[s] # "exited" \/ "exit" \in notified[s]
          /\ UNCHANGED <<recordVars, todo, notified>>
    /\ UNCHANGED <<laneVars, serverVars, proc, exitCode, ptyVars, diagVars, toldVars>>

-----------------------------------------------------------------------------
(* _close_session_id and _terminate_record, on the lane of s               *)
(* (finish_close_session) or on the thread that runs shutdown().           *)

\* The record is looked up first: a record evicted since makes it raise, which
\* ends the lane's command, and ends shutdown().
CloseBegin(t, s) ==
    LET path == CASE state[s] \in {"created", "exited"} -> <<"closed">>
                  [] state[s] = "failed" /\ ~rec[s].handle -> <<"closed">>
                  [] state[s] \in {"starting", "running"} -> <<"closing">>
                  [] OTHER -> <<>>
    IN
    /\ At(t, "close")
    /\ \/ /\ s \notin known
          /\ Goto(t, IF t = Closer THEN "aborted" ELSE "done")
          /\ UNCHANGED <<recordVars, todo>>
       \/ /\ s \in known /\ state[s] = "closed"
          /\ Goto(t, "done")
          /\ UNCHANGED <<recordVars, todo>>
       \/ /\ s \in known /\ state[s] # "closed"
          /\ Locked(t, s, path, rec[s], IF path = <<>> THEN <<>> ELSE Publish(s, path[1]))
          /\ Goto(t, IF rec[s].handle /\ state[s] \in {"failed", "starting", "running", "closing"}
                     THEN "terminate" ELSE "bare")
    /\ UNCHANGED <<laneVars, serverVars, procVars, ptyVars, diagVars, toldVars>>

\* No handle: a CLOSING session is closed in a critical section of its own.
CloseBare(t, s) ==
    /\ At(t, "bare")
    /\ IF state[s] = "closing"
       THEN Locked(t, s, <<"closed">>, rec[s], Publish(s, "closed") \o FinishReadiness(s))
       ELSE LeavesRecord(t, s, FinishReadiness(s))
    /\ Goto(t, "done")
    /\ UNCHANGED <<laneVars, serverVars, procVars, ptyVars, diagVars, toldVars>>

\* _terminate_record reads the handle again, without the lock.
CloseSignal(t, s) ==
    /\ At(t, "terminate")
    /\ \/ /\ rec[s].handle
          /\ Signal(s)
          /\ Goto(t, "waiting")
          /\ UNCHANGED todo
       \/ /\ ~rec[s].handle
          /\ todo' = [todo EXCEPT ![t] = FinishReadiness(s)]
          /\ Goto(t, "done")
          /\ UNCHANGED proc
    /\ UNCHANGED <<recordVars, laneVars, serverVars, exitCode, notified, ptyVars,
                   diagVars, toldVars>>

\* wait() returns: the exit is notified, once, and _process_exited runs.
CloseExited(t, s) ==
    /\ At(t, "waiting") /\ proc[s] = "exited"
    /\ notified' = [notified EXCEPT ![s] = @ \union {"exit"}]
    /\ ProcessExited(t, s, FinishReadiness(s))
    /\ Goto(t, "done")
    /\ UNCHANGED <<laneVars, serverVars, proc, exitCode, ptyVars, diagVars, toldVars>>

\* Neither SIGTERM nor SIGKILL ended the child before the deadline.
CloseTimeout(t, s) ==
    LET fails == state[s] \notin {"failed", "closed"} IN
    /\ At(t, "waiting") /\ proc[s] # "exited"
    /\ Locked(t, s, IF fails THEN <<"failed">> ELSE <<>>,
              [rec[s] EXCEPT !.closeScheduled = FALSE, !.failure = @ \/ fails],
              (IF fails THEN Publish(s, "failed") ELSE <<>>)
                  \o (IF t = Closer THEN FinishReadiness(s) ELSE <<>>))
    /\ Goto(t, "done")
    /\ UNCHANGED <<laneVars, serverVars, procVars, ptyVars, diagVars, toldVars>>

CloseStep(t, s) ==
    \/ CloseBegin(t, s) \/ CloseBare(t, s) \/ CloseSignal(t, s)
    \/ CloseExited(t, s) \/ CloseTimeout(t, s)

-----------------------------------------------------------------------------
(* The child, the reaper and the PTY I/O thread.                           *)

\* A child ends by itself or because it was signalled: "clean" is status 0
\* or a signal, "fatal" is ssh's 255.
ChildExits(s, code) ==
    /\ proc[s] \in {"alive", "signalled"}
    /\ proc' = [proc EXCEPT ![s] = "exited"]
    /\ exitCode' = [exitCode EXCEPT ![s] = code]
    /\ UNCHANGED <<recordVars, laneVars, step, todo, serverVars, notified, ptyVars,
                   diagVars, toldVars>>

\* poll_and_notify on the reaper thread.
ReaperNotify(s) ==
    /\ todo[Reaper] = <<>>
    /\ proc[s] = "exited" /\ "exit" \notin notified[s]
    /\ notified' = [notified EXCEPT ![s] = @ \union {"exit"}]
    /\ ProcessExited(Reaper, s, <<>>)
    /\ UNCHANGED <<laneVars, step, serverVars, proc, exitCode, ptyVars, diagVars, toldVars>>

\* _terminal_output: the chunk joins the replay text, may promote the
\* session, and is deferred or dispatched.
TerminalOutput(s, verdict) ==
    LET r == rec[s]
        n == chunks[s] + 1
        waits == state[s] = "starting" /\ r.diagPrimary /\ ~r.fallback
        gated == state[s] = "starting" /\ ~waits /\ EvidenceGate
        defer == IF waits THEN ~r.handle ELSE ~gated /\ state[s] # "running"
        promote == gated /\ r.handle /\ verdict = "connected"
    IN
    /\ todo[IO] = <<>> /\ TerminalCapable /\ ~RunnerClosed
    /\ proc[s] # "none" /\ "eof" \notin notified[s]
    /\ s \in known /\ chunks[s] < MaxOutput
    /\ chunks' = [chunks EXCEPT ![s] = n]
    /\ evidence' = [evidence EXCEPT ![s] = verdict]
    /\ \/ /\ defer
          /\ Locked(IO, s, <<>>, [r EXCEPT !.deferred = Append(@, n)], <<>>)
       \/ /\ ~defer /\ promote
          /\ Locked(IO, s, <<"running">>, r,
                    Publish(s, "running") \o NotifyAuthenticated(s)
                        \o FlushDeferred(s) \o Dispatch(s, n))
       \/ /\ ~defer /\ ~promote
          /\ LeavesRecord(IO, s, Dispatch(s, n))
    /\ UNCHANGED <<laneVars, step, serverVars, procVars, diagVars, toldVars>>

\* Mutant: an EOF that follows the exit does not settle the session.
TerminalEofMutant(s) ==
    /\ todo[IO] = <<>> /\ TerminalCapable /\ ~RunnerClosed
    /\ proc[s] # "none" /\ "eof" \notin notified[s]
    /\ notified' = [notified EXCEPT ![s] = @ \union {"eof"}]
    /\ Locked(IO, s, <<>>, [rec[s] EXCEPT !.eof = TRUE], DispatchEof(s))
    /\ UNCHANGED <<laneVars, step, serverVars, proc, exitCode, ptyVars, diagVars, toldVars>>

\* _terminal_eof: the marker is dispatched after the lock is released; when
\* the exit is already recorded the same section settles the session.
TerminalEof(s) ==
    LET record == [rec[s] EXCEPT !.eof = TRUE] IN
    /\ todo[IO] = <<>> /\ TerminalCapable /\ ~RunnerClosed
    /\ proc[s] # "none" /\ "eof" \notin notified[s]
    /\ notified' = [notified EXCEPT ![s] = @ \union {"eof"}]
    /\ \/ /\ s \notin known
          /\ LeavesRecord(IO, s, <<>>)
       \/ /\ s \in known
          /\ rec[s].exit = "none" \/ state[s] \in {"exited", "closed"}
          /\ Locked(IO, s, <<>>, record, DispatchEof(s))
       \/ /\ s \in known
          /\ rec[s].exit # "none" /\ state[s] \notin {"exited", "closed"}
          /\ \E hint \in BOOLEAN :
                FinalExit(IO, s, record, hint, DispatchEof(s) \o FinishReadiness(s), <<>>)
    /\ UNCHANGED <<laneVars, step, serverVars, proc, exitCode, ptyVars, diagVars, toldVars>>

-----------------------------------------------------------------------------
(* OpenSSH diagnostics: the monitor thread and the grace timers.           *)

\* _consume: the parser reaches a verdict on what ssh wrote.  A failure may
\* still follow an authentication; nothing follows a failure.
DiagnosticsParsed(s, verdict) ==
    /\ lease[s] = "engaged" /\ proc[s] # "none"
    /\ inflight[s] = "none" /\ todo[Monitor] = <<>>
    /\ \A r \in Session : inflight[r] = "none"      \* one monitor thread
    /\ verdict \notin decisive[s] /\ "failed" \notin decisive[s]
    /\ decisive' = [decisive EXCEPT ![s] = @ \union {verdict}]
    /\ inflight' = [inflight EXCEPT ![s] = verdict]
    /\ grace' = [grace EXCEPT ![s] = IF @ = "armed" THEN "off" ELSE @]
    /\ UNCHANGED <<recordVars, laneVars, step, todo, serverVars, procVars, ptyVars,
                   lease, toldVars>>

\* _on_ssh_diagnostic_result.
DiagnosticResult(s) ==
    LET r == rec[s]
        v == inflight[s]
        parked  == state[s] = "starting" /\ ~r.handle
        decides == state[s] = "starting" /\ r.handle /\ r.diagPrimary
        noted   == [r EXCEPT !.detail = @ \/ v = "failed"]
        release == IF v = "failed" /\ ~parked THEN FinishReadiness(s) ELSE <<>>
    IN
    /\ v # "none" /\ todo[Monitor] = <<>>
    /\ inflight' = [inflight EXCEPT ![s] = "none"]
    /\ \/ /\ s \notin known \/ state[s] \in {"exited", "closed"}
          /\ LeavesRecord(Monitor, s, <<>>)
       \/ /\ s \in known /\ state[s] \notin {"exited", "closed"}
          /\ ~decides
          /\ Locked(Monitor, s, <<>>, [noted EXCEPT !.result = v], release)
       \/ /\ s \in known /\ decides /\ v = "failed"
          /\ Locked(Monitor, s, <<"failed">>, [noted EXCEPT !.failure = TRUE],
                    release \o Publish(s, "failed") \o FlushDeferred(s))
       \/ /\ s \in known /\ decides /\ v = "auth"
          /\ Locked(Monitor, s, <<"running">>, noted,
                    Publish(s, "running") \o NotifyAuthenticated(s) \o FlushDeferred(s))
    /\ UNCHANGED <<laneVars, step, serverVars, procVars, ptyVars, lease, decisive, grace,
                   toldVars>>

\* _fire_grace_expired passes its checks ...
GraceFires(s) ==
    /\ grace[s] = "armed" /\ lease[s] = "engaged" /\ decisive[s] = {}
    /\ grace' = [grace EXCEPT ![s] = "fired"]
    /\ UNCHANGED <<recordVars, laneVars, step, todo, serverVars, procVars, ptyVars,
                   lease, decisive, inflight, toldVars>>

\* ... and _on_ssh_grace_expired falls back to the PTY evidence.
GraceExpired(s) ==
    LET promote == rec[s].handle /\ evidence[s] = "connected" IN
    /\ grace[s] = "fired"
    /\ grace' = [grace EXCEPT ![s] = "off"]
    /\ IF s \notin known \/ state[s] # "starting"
       THEN LeavesRecord(Timer(s), s, <<>>)
       ELSE Locked(Timer(s), s, IF promote THEN <<"running">> ELSE <<>>,
                   [rec[s] EXCEPT !.fallback = TRUE],
                   IF promote THEN Publish(s, "running") \o NotifyAuthenticated(s)
                                       \o FlushDeferred(s)
                              ELSE <<>>)
    /\ UNCHANGED <<laneVars, step, serverVars, procVars, ptyVars, lease, decisive,
                   inflight, toldVars>>

-----------------------------------------------------------------------------
(* Daemon shutdown: _shutdown_session_commands and shutdown().             *)

\* Mutant: cancelled starts are dropped without their on_cancel.
ServerStopsMutant ==
    /\ MayStop /\ Serving /\ At(Selector, "idle")
    /\ Lanes!StopAndCancel
    /\ Goto(Closer, "stopped")
    /\ UNCHANGED <<recordVars, todo, target, toReject, toClose, closes, procVars, ptyVars,
                   diagVars, toldVars>>

\* executor.stop_accepting(cancel_pending=True) on the selector thread, whose
\* loop has ended.  A cancelled close has no on_cancel.
ServerStops ==
    /\ MayStop /\ Serving /\ At(Selector, "idle")
    /\ Lanes!StopAndCancel
    /\ toReject' = {s \in Session : \E i \in DOMAIN lane[s] :
                        lane[s][i] = <<s, "start">> /\ (i > 1 \/ s \notin busy)}
    /\ Goto(Closer, "stopped")
    /\ UNCHANGED <<recordVars, todo, target, toClose, closes, procVars, ptyVars,
                   diagVars, toldVars>>

CancelStart(s) ==
    /\ s \in toReject /\ todo[Selector] = <<>>
    /\ toReject' = toReject \ {s}
    /\ FailPendingStart(Selector, s)
    /\ UNCHANGED <<laneVars, step, target, toClose, closes, procVars, ptyVars,
                   diagVars, toldVars>>

\* shutdown(): refuse commands and snapshot _creation_order.
ShutdownBegin ==
    /\ At(Closer, "stopped") /\ toReject = {} /\ todo[Selector] = <<>>
    /\ toClose' = known
    /\ Goto(Closer, "done")
    /\ UNCHANGED <<recordVars, laneVars, todo, target, toReject, closes, procVars,
                   ptyVars, diagVars, toldVars>>

ShutdownNext(s) ==
    /\ At(Closer, "done")
    /\ s \in toClose /\ \A r \in toClose : born[s] <= born[r]
    /\ toClose' = toClose \ {s}
    /\ target' = [target EXCEPT ![Closer] = s]
    /\ Goto(Closer, "close")
    /\ UNCHANGED <<recordVars, laneVars, todo, toReject, closes, procVars, ptyVars,
                   diagVars, toldVars>>

\* Attachments and callbacks are dropped, _closed is set.
ShutdownClear ==
    /\ At(Closer, "done") /\ toClose = {}
    /\ Goto(Closer, "cleared")
    /\ UNCHANGED <<recordVars, laneVars, todo, serverVars, procVars, ptyVars,
                   diagVars, toldVars>>

\* runner.close(): no more EOF is read; every child still owned is killed.
\* Its exit is notified by the reaper, which outlives the call.
RunnerCloses ==
    /\ At(Closer, "cleared")
    /\ proc' = [s \in Session |-> IF proc[s] = "alive" THEN "signalled" ELSE proc[s]]
    /\ Goto(Closer, "runnerClosed")
    /\ UNCHANGED <<recordVars, laneVars, todo, serverVars, exitCode, notified, ptyVars,
                   diagVars, toldVars>>

\* publisher.close().
ShutdownReturns ==
    /\ At(Closer, "runnerClosed")
    /\ Goto(Closer, "returned")
    /\ UNCHANGED <<recordVars, laneVars, todo, serverVars, procVars, ptyVars,
                   diagVars, toldVars>>

-----------------------------------------------------------------------------
(* What a thread does after its critical section, one effect at a time.    *)

Rest(t) == todo' = [todo EXCEPT ![t] = Tail(@)]

\* publisher.publish or the EOF callback; a closed publisher drops it.
DoPublish(t) ==
    LET e == Head(todo[t]) IN
    /\ todo[t] # <<>> /\ e.do = "publish"
    /\ told' = IF step[Closer] = "returned" THEN told
               ELSE [told EXCEPT ![e.session][e.what] = @ + 1]
    /\ Rest(t)
    /\ UNCHANGED <<recordVars, laneVars, step, serverVars, procVars, ptyVars,
                   diagVars, delivered>>

DoOutput(t) ==
    LET e == Head(todo[t]) IN
    /\ todo[t] # <<>> /\ e.do = "output"
    /\ delivered' = [delivered EXCEPT ![e.session] = Append(@, e.chunk)]
    /\ Rest(t)
    /\ UNCHANGED <<recordVars, laneVars, step, serverVars, procVars, ptyVars,
                   diagVars, told>>

\* readiness.finish: pop the entry, cancel the timer, drop the watch.
DoFinish(t) ==
    LET e == Head(todo[t]) IN
    /\ todo[t] # <<>> /\ e.do = "finish"
    /\ lease' = [lease EXCEPT ![e.session] = "none"]
    /\ grace' = [grace EXCEPT ![e.session] = IF @ = "armed" THEN "off" ELSE @]
    /\ Rest(t)
    /\ UNCHANGED <<recordVars, laneVars, step, serverVars, procVars, ptyVars,
                   decisive, inflight, toldVars>>

\* _flush_deferred_output: a critical section of its own.
DoFlush(t) ==
    LET s == Head(todo[t]).session
        flushes == s \in known /\ state[s] = "running"
    IN
    /\ todo[t] # <<>> /\ Head(todo[t]).do = "flush"
    /\ rec' = IF flushes THEN [rec EXCEPT ![s].deferred = <<>>] ELSE rec
    /\ todo' = [todo EXCEPT ![t] =
                    (IF flushes /\ ~Cleared THEN DeferredOutputs(s, rec[s].deferred) ELSE <<>>)
                        \o Tail(@)]
    /\ UNCHANGED <<state, known, born, fault, laneVars, step, serverVars, procVars,
                   ptyVars, diagVars, toldVars>>

DoEffect(t) == DoPublish(t) \/ DoOutput(t) \/ DoFinish(t) \/ DoFlush(t)

-----------------------------------------------------------------------------
SelectorStep ==
    \/ \E s \in Session : Open(s) \/ CloseRequest(s) \/ CancelStart(s)
    \/ SubmitAccepted("start") \/ SubmitAccepted("close")
    \/ SubmitStartRejected \/ SubmitCloseRejected
    \/ ServerStops

StartStep(s) ==
    \/ StartClaim(s) \/ StartSubscribe(s) \/ StartLaunch(s) \/ StartSpawn(s) \/ StartFailed(s)
    \/ StartEngage(s) \/ StartGate(s) \/ StartAttach(s)
    \/ StartReap(s) \/ StartReaped(s)

LaneStep(s) == LaneBegin(s) \/ StartStep(s) \/ CloseStep(Lane(s), s) \/ LaneEnd(s)

CloserStep ==
    \/ ShutdownBegin \/ ShutdownClear \/ RunnerCloses \/ ShutdownReturns
    \/ \E s \in Session : ShutdownNext(s) \/ (target[Closer] = s /\ CloseStep(Closer, s))

DiagnosticsStep(s) ==
    \/ DiagnosticsParsed(s, "auth") \/ DiagnosticsParsed(s, "failed")
    \/ DiagnosticResult(s) \/ GraceFires(s) \/ GraceExpired(s)

ChildStep(s) ==
    \/ \E code \in ExitCodes : ChildExits(s, code)
    \/ \E verdict \in {"pending", "connected", "failed"} : TerminalOutput(s, verdict)
    \/ TerminalEof(s)
    \/ ReaperNotify(s)

Next ==
    \/ SelectorStep
    \/ CloserStep
    \/ \E s \in Session : LaneStep(s) \/ DiagnosticsStep(s) \/ ChildStep(s)
    \/ \E t \in Thread : DoEffect(t)

Spec == Init /\ [][Next]_vars

\* What the daemon does by itself: its threads go on, a signalled child ends,
\* and the kernel hangs up the PTY of a session leader that has exited.
\* Requests, the child's own exit and its output are inputs.
DaemonStep ==
    \/ CloserStep
    \/ SubmitAccepted("start") \/ SubmitAccepted("close")
    \/ SubmitStartRejected \/ SubmitCloseRejected
    \/ \E s \in Session :
         \/ CancelStart(s) \/ LaneStep(s) \/ DiagnosticResult(s) \/ GraceExpired(s)
         \/ proc[s] = "signalled" /\ \E code \in ExitCodes : ChildExits(s, code)
         \/ ReaperNotify(s)
         \/ proc[s] = "exited" /\ TerminalEof(s)
    \/ \E t \in Thread : DoEffect(t)

\* Some thread that can go on does: less than the fairness of each of them,
\* and enough, since no thread of the daemon goes round in circles.
Fairness == WF_vars(DaemonStep)

FairSpec == Spec /\ Fairness

-----------------------------------------------------------------------------
(* Properties. *)

RecordType == [
    scheduled : BOOLEAN, started : BOOLEAN, closeScheduled : BOOLEAN,
    handle : BOOLEAN, capable : BOOLEAN, eof : BOOLEAN,
    exit : {"none", "clean", "error", "fatal"},
    diagPrimary : BOOLEAN, fallback : BOOLEAN,
    result : {"none", "auth", "failed"}, detail : BOOLEAN, failure : BOOLEAN,
    deferred : Seq(Nat)]

EffectType == [
    do : {"publish", "output", "finish", "flush"}, session : Session,
    what : Kinds \union {""}, chunk : Nat]

\* Type invariant of the runtime's records, threads and histories.
TypeOK ==
    /\ state \in [Session -> States \union {"none"}]
    /\ rec \in [Session -> RecordType]
    /\ known \subseteq Session
    /\ born \in [Session -> Nat]
    /\ fault \in BOOLEAN
    /\ step \in [Thread -> {"idle", "submitStart", "submitClose", "start", "launch",
          "build", "spawn", "spawned", "startFailed", "gate", "attach", "reap", "reaping",
          "close", "bare", "terminate", "waiting", "done", "serving", "stopped",
          "aborted", "cleared", "runnerClosed", "returned"}]
    /\ todo \in [Thread -> Seq(EffectType)]
    /\ target \in [{Selector, Closer} -> Session \union {NoSession}]
    /\ toReject \subseteq Session /\ toClose \subseteq Session
    /\ proc \in [Session -> {"none", "alive", "signalled", "exited"}]
    /\ exitCode \in [Session -> {"none", "clean", "error", "fatal"}]
    /\ notified \in [Session -> SUBSET {"exit", "eof"}]
    /\ evidence \in [Session -> {"pending", "connected", "failed"}]
    /\ chunks \in [Session -> Nat]
    /\ lease \in [Session -> {"none", "subscribed", "engaged", "orphan"}]
    /\ decisive \in [Session -> SUBSET {"auth", "failed"}]
    /\ inflight \in [Session -> {"none", "auth", "failed"}]
    /\ grace \in [Session -> {"off", "armed", "fired"}]
    /\ told \in [Session -> [Kinds -> Nat]]
    /\ delivered \in [Session -> Seq(Nat)]
    /\ closes \in [Session -> Nat]

\* No interleaving of start, close, exit, EOF, verdict, timer and shutdown
\* makes _transition_locked raise "invalid session transition".
NoInvalidTransition == ~fault

\* Active records are never evicted, and at most MaxRetained closed ones stay.
RetentionExact ==
    /\ \A s \in Session : state[s] \notin {"none", "closed"} => s \in known
    /\ Cardinality({s \in known : state[s] = "closed"}) <= MaxRetained

\* A child that is alive and was not signalled is still in somebody's hands:
\* a visible, unclosed record holds its handle, or the worker that spawned it
\* has yet to store the handle or to reap it, or the daemon is shutting down
\* (runner.close() kills what is left).
NoAbandonedProcess ==
    \A s \in Session : proc[s] = "alive" =>
        \/ s \in known /\ state[s] # "closed" /\ rec[s].handle
        \/ step[Lane(s)] \in {"spawned", "gate", "attach", "reap"}
        \/ ~Serving

\* An accepted open is never an unreachable orphan: a STARTING record whose
\* startup has not been claimed still has its start command, about to be
\* submitted, in the lane, being taken, or cancelled and about to be failed.
NoOrphanedOpen ==
    \A s \in Session : (state[s] = "starting" /\ ~rec[s].started) =>
        \/ step[Selector] = "submitStart" /\ target[Selector] = s
        \/ \E i \in DOMAIN lane[s] : lane[s][i] = <<s, "start">>
        \/ s \in toReject

\* Subscribers hear each lifecycle transition, the EOF marker and the
\* authenticated callback at most once, although up to six threads publish.
ToldOnce == \A s \in Session : \A kind \in Kinds : told[s][kind] <= 1

\* What must have been told before an event of the kind is.
Preamble(kind) ==
    CASE kind = "created" -> {}
      [] kind = "authenticated" -> {"created", "starting", "running"}
      [] OTHER -> {"created"}

\* session.created precedes every other event and session.exited is never
\* published after session.closed; the authenticated callback follows the
\* running event.
EventOrder ==
    [][\A s \in Session : \A kind \in Kinds : told'[s][kind] > told[s][kind] =>
         /\ \A before \in Preamble(kind) : told[s][before] > 0
         /\ kind = "exited" => told[s]["closed"] = 0]_vars

\* RUNNING means authenticated: a session becomes RUNNING only on a decisive
\* OpenSSH verdict or, when its launch is not instrumented or the grace
\* deadline has passed, on PTY evidence; never on the mere spawn.
RunningIsProven ==
    [][EvidenceGate /\ TerminalCapable =>
         \A s \in Session : (state[s] # "running" /\ state'[s] = "running") =>
            \/ "auth" \in decisive[s]
            \/ evidence'[s] = "connected" /\ (~rec[s].diagPrimary \/ rec'[s].fallback)]_vars

\* Output of a RUNNING session is neither lost nor repeated: once no thread
\* owes a dispatch or a flush, every chunk read from the PTY has reached the
\* terminal callbacks exactly once, whichever of the worker, the monitor, the
\* timer and the I/O thread promoted the session and flushed what was deferred.
OutputComplete ==
    \A s \in Session :
        (/\ state[s] = "running"
         /\ \A t \in Thread : \A i \in DOMAIN todo[t] :
               todo[t][i].session = s => todo[t][i].do \notin {"output", "flush"})
        => /\ Len(delivered[s]) = chunks[s]
           /\ {delivered[s][i] : i \in DOMAIN delivered[s]} = 1..chunks[s]

\* The records are well formed, no thread makes _transition_locked raise, and
\* nothing is told twice.
RecordsSound == TypeOK /\ NoInvalidTransition /\ ToldOnce

\* No opened session is lost: neither by eviction nor by a refused or
\* cancelled command, and whatever record is kept is sound.
OpensKept == RecordsSound /\ RetentionExact /\ NoOrphanedOpen

\* Sessions settle.  An exit, reported by the reaper or by a close, and the EOF
\* of its PTY end the session in CLOSED, whichever comes first and whatever else
\* is going on; and a session does not stay in CLOSING: the close ends it or,
\* when the child cannot be terminated or the executor is full, makes it FAILED
\* (retryable).  An exited child stays so and CLOSED is final, so to be true
\* again and again is to settle.
SessionsSettle ==
    []<>(\A s \in Session : /\ proc[s] = "exited" => state[s] = "closed"
                            /\ state[s] # "closing")

-----------------------------------------------------------------------------
(* What the documentation says and the code does not do.                   *)

\* docs/architecture/session-runtime.md: "A late diagnostic verdict can never
\* change a session's fate once the fallback is taken."
LateVerdictInert ==
    [][\A s \in Session :
         (rec[s].fallback /\ inflight[s] # "none" /\ inflight'[s] = "none")
            => state'[s] = state[s]]_vars

\* docs/architecture/terminal-streaming.md: "EOF is emitted once at the final
\* byte sequence, followed by session.exited and session.closed."
EofBeforeExited ==
    \A s \in Session : (rec[s].capable /\ told[s]["exited"] > 0) => told[s]["eof"] > 0

\* docs/api/sessions.md: closed is "Terminal; resources reaped".
ClosedMeansReaped ==
    \A s \in Session : told[s]["closed"] > 0 => proc[s] \notin {"alive", "signalled"}

\* docs/architecture/session-runtime.md: shutdown "runs required runtime
\* cleanup", "the runner's close() releases or kills exact owned resources".
ShutdownCompletes == step[Closer] # "aborted"

\* docs/architecture/session-runtime.md: PTY evidence "remains the fallback
\* when diagnostics are unavailable or stay pending past the readiness grace
\* deadline": with the fallback taken and a connected verdict on a session that
\* has its handle, the session is RUNNING.
FallbackPromotes ==
    \A s \in Session :
        (rec[s].fallback /\ rec[s].handle /\ evidence[s] = "connected") => state[s] # "starting"

=============================================================================
