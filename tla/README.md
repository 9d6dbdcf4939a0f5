# Verification of the sshpilot session daemon

sshpilot is an SSH connection manager. Its user interfaces (GTK, CLI, MCP) are
clients of a per-user daemon, `src/src/sshpilot/daemon`, which owns every
process, terminal, transfer and forward. The daemon is one selector thread, a
bounded pool of command workers, a PTY I/O thread, a reaper, a diagnostics
monitor, timers and one thread per transfer or operation, sharing state under
a few locks. That is where the program is hard to get right and hard to test,
and it is what this project models, together with the way of terminal output
from the daemon through the client to a terminal tab.

All source paths below are relative to `src/src/sshpilot/`.

## 1. Inventory

| component | state it keeps | operations | what makes it correct |
|---|---|---|---|
| command executor (`daemon/command_executor.py`) | ready queue, one waiting queue per key, occupied and running keys, outstanding count, one condition variable | submit, take, run, finish, stop, cancel, drain, join | one FIFO lane per key, exact capacity, every accepted command is answered once, no lost wakeup |
| session runtime (`daemon/session_runtime.py`) | one record per session: state, handle, readiness, deferred output, attachments, size; creation order; retention | open, start, attach, detach, claim, release, resize, input, replay, close, evict, shutdown; callbacks for output, EOF, exit, verdicts, timers | only allowed transitions, no process without somebody to end it, nothing told twice or in the wrong order, RUNNING only with proof, closing and exiting settle |
| PTY runner (`daemon/pty_runner.py`, `_pty_child.py`) | child processes, PTY descriptors, an I/O command queue, a reaper | start, write, resize, terminate, notify EOF and exit, close | EOF and exit reported once each, in any order |
| readiness (`daemon/ssh_readiness.py`, `ssh_diagnostics_monitor.py`) | one lease per start attempt, parser results, a grace timer | instrument, engage, verdict, expire, finish | a verdict belongs to its attempt, leases are released |
| terminal replay (`daemon/terminal_stream.py`) | a chunked byte ring per session, a daemon-wide budget | append, evict, trim, clear, replay, mark EOF | offsets agree with contents, bounds hold, no silent gap |
| server and dispatch (`daemon/server.py`, `dispatch.py`) | peers, outbound queues, publication queues | accept, dispatch, submit deferred work, drain events and frames, stop | rejected work is undone, per-peer order, overflow is reported |
| interaction broker (`daemon/interaction_broker.py`) | prompts, claims, nonces, deadlines, askpass contexts | create, claim, release, respond, submit secret, cancel, expire | one responder, one answer, no secret outlives its prompt |
| transfer runtime (`daemon/transfer_runtime.py`) | transfer records, worker threads, pending queue | admit, schedule, run, cancel, finish, shutdown | every transfer ends, slots are freed, limits hold |
| forward runtime (`daemon/forward_runtime.py`) | forward records and processes | open, start, detect, close, exit | no leaked process |
| daemon client (`api/daemon_client.py`), terminal side | next sequence of each session, terminal queue, overflow marks | receive, queue, dispatch, reset on a response | a jump, a drop or a status is told to the subscriber |
| terminal tabs (`gtk_client_bridge.py`, `terminal_session_controller.py`) | spool, loss and recovery range of a binding; state and next sequence of the tab | spool, drain, begin and finish recovery, page, fail | the parser is fed in order, and what is missing is recovered or reported |
| SFTP runtime (`daemon/sftp_runtime.py`) | service records, clients, path locks | open, attach, operate, close | ownership, serialised targets |
| operation runtime (`daemon/operation_runtime.py`) | operation records, hooks, an event queue drained by whoever finds it idle | start, cancel, report, finish, drain, shutdown | cancel reaches the work, events in order and none forgotten |
| daemon lifecycle (`daemon/lifecycle_policy.py`, `lifecycle.py`, `launcher.py`) | lifecycle state, idle and drain deadlines, confirmation token | note activity, poll, stop, restart | never drains under live work, always stops |
| process registry (`daemon/process_registry.py`) | owned processes on disk | register, unregister, prune | crash recovery never kills a stranger |
| configuration reload, secrets, keys, known hosts, host info, plugins, GTK, CLI, MCP, import/export | | | see `components` in `PROJECT.json` |

**Interactions.** The selector thread decodes a request and calls a runtime.
Quick requests are answered at once; `sessions.open` and `sessions.close`
prepare the record under the runtime's lock, then submit the blocking part to
the executor under the session id as key, with callbacks for "rejected",
"failed" and "cancelled". The start worker blocks in readiness, runner and
authentication gate; meanwhile the PTY thread delivers output and EOF, the
reaper delivers the exit, the monitor delivers verdicts, a timer delivers the
grace deadline, clients attach, resize and close, and the daemon may stop. Each
takes the runtime's lock, changes the record, releases the lock and *then*
publishes events, calls terminal callbacks, flushes deferred output or releases
the diagnostics lease. Terminal frames go through a queue to the selector,
which decides only then who receives them. Transfers and forwards follow the
same pattern: a record is prepared on the selector, a command runs under its id
as key, and worker threads or reapers report back. Prompts go the other way: an
askpass helper of an ssh child, or a command, waits in the broker until a
client answers, a deadline passes or the session ends. Output that does not fit
a queue is dropped, marked and announced; the tab then replaces its binding and
asks for a replay.

**Hard behaviours.** State read before a blocking call and used after it
(start); effects after an unlock (publishing, flushing); two reporters of one
fact (exit by reaper and by close; EOF); work refused after a record was
changed for it; a shared condition variable; timers racing handles; shutdown
racing everything; buffers trimmed under a reader; slots that only a `finally`
clause frees; a table walked while a callee evicts from it; answers that race
deadlines and disconnects; recovery that meets the loss it recovers from.
`hazards` in `PROJECT.json`
lists each at its line, with the properties that cover it or the reason why
none does yet.

## 2. Modules

| module | models | composed with |
|---|---|---|
| `SerialLanes` | abstract: what the executor promises | |
| `CommandExecutor` | the pool as it is, condition variable included | implements `SerialLanes` |
| `SessionRuntime` | the life of sessions and every thread that takes part in it | runs its start and close commands on the lanes of `SerialLanes` |
| `SessionAttachments` | attachments, input owner, audience, EOF delivery, size of one session | session states as in `SessionRuntime` |
| `TerminalReplay` | ring buffers, daemon-wide budget, paging client | |
| `TerminalStream` | publication, peer, client queues and the recovery of a tab | the answers of `TerminalReplay`, one chunk being a unit |
| `TransferRuntime` | transfer records, pending queue, worker slots, shutdown | the executor as one lane per transfer |
| `ForwardRuntime` | forwards, their ssh children, reapers, shutdown | the executor as one lane per forward |
| `OperationRuntime` | operation threads, cancellation, the shared event drain | |
| `InteractionBroker` | prompts, claims, answers, deadlines, direct scopes | |
| `AskpassContexts` | the credentials of ssh children: autofill, prompts, staging, commit | how a prompt ends is the subject of `InteractionBroker`; its proofs are in `InteractionBrokerProofs` |
| `MC...` | instances for TLC | |
| `Selection` | selecting from an ordered dictionary, and retention, as the four runtimes below the sessions use them | used by `TransferRuntime`, `ForwardRuntime`, `OperationRuntime`, `InteractionBroker` |
| `SelectionTheorems` | lemmas about `Selection` | |
| `CommandExecutorProofs`, `SessionRuntimeProofs`, `SessionAttachmentsProofs`, `TransferRuntimeProofs`, `ForwardRuntimeProofs`, `OperationRuntimeProofs`, `InteractionBrokerProofs` | theorems | |

### CommandExecutor

Variables carry the names of the fields (`_ready` is `ready`, and so on). Each
`with self._condition` block is one action: `Submit`, `SubmitRejected`,
`WorkerWait`, `WorkerTake`, `WorkerReturn`, `WorkerFinish`, `StopAccepting`,
`DrainWait`, `DrainDone`. Between them, outside the lock, are `WorkerRun` (the
operation and its callback) and `RunCancel`. `waitset` holds the threads blocked
in `wait()`; `notify()` wakes an arbitrary one of them, which is how a wakeup
meant for a worker can be taken by the thread that drains. The refinement maps
the lane of a key to the command that is ready or held by a worker, followed by
the waiting ones.

### SessionRuntime

Each `with self._lock` block is one action. What its thread does after the
unlock is appended to `todo[thread]` and executed by `DoPublish`, `DoOutput`,
`DoFinish` and `DoFlush`, one effect at a time, so that effects of different
threads interleave as they do in the daemon. `step[thread]` is the control
point of a thread; a start worker goes through `StartClaim`, `StartSubscribe`,
`StartLaunch`, `StartSpawn`, `StartEngage`, `StartGate` and `StartAttach`
(split, as the code's third critical section is, into failing, running,
waiting, closing and late), with `StartFailed`, `StartReap` and `StartReaped`
on the way out. Closing is `CloseRequest` on the selector and
`CloseBegin`/`CloseSignal`/`CloseExited`/`CloseTimeout`/`CloseBare` on a worker
or in `shutdown()`. `ProcessExited`, `TerminalOutput`, `TerminalEof`,
`DiagnosticResult` and `GraceExpired` are the callbacks. The executor appears
as the lanes it was shown to implement. An attempted transition that the code's
table does not allow sets `fault` (the code raises).

Abstracted: output chunks are numbers, the text classifier is a verdict that
may change with each chunk, exits are clean, an error or fatal, deadlines are
choices ("the child did not end in time"), ids are model values. Timestamps,
summaries and wording are left out.

### SessionAttachments

`live`, `clientOf`, `wanting`, `flagged` are the attachment records,
`attachmentsOf` the per-client index, `owner` the input owner, `outputClients`
and `closedOutputClients` the audience. Requests run on the selector, one at a
time. The dispatch of a size is split where the code takes the dispatch lock
and re-reads the size, since the start worker catches up with resizes that
arrived while it was blocked. The session's own transitions are left to an
environment that takes every transition the runtime can, so the properties do
not depend on why a session ended.

### TerminalReplay

A byte is represented by its offset in the output of its session, so a chunk
cut or labelled at the wrong place is visibly wrong. `EvictChunk` is the body of
the eviction loop and `TrimSession` the body of the budget loop; both loops are
folds. The reader is a client that attaches or asks for the oldest bytes, then
pages from where it got to while the front of the buffer moves.

### TerminalStream

The path of one session's output to one attached tab. `hand` is what the PTY
thread and the flushing thread still have to put into the server's
`_terminal_queue` (`published`); `Publish` is `_on_terminal_output`.
`DrainBegins`/`DrainFrame`/`DrainEnds` are `_drain_terminal_output`, split
because publishers run meanwhile. `out`, `partial` and `peerLost` are the
peer's queue, whether its first frame is partly sent, and its continuity mark;
`Priority`, `DropTerminal`, `QueueStatus` and `QueueTerminalFrame` are the
methods of the same meaning. `Serve` is `terminal.replay` with `_queue_replay`.
`WriteRest` sends the rest of a frame, which the client's reader handles
(`ReceiveOutput`, `ReceiveStatus`, `ReceiveResponse`); `Dispatch` is the
dispatch thread calling the binding (`Accept`). `Feed` and `BeginRecovery` are
the two halves of the binding's `_drain`, `FinishReplay` and `Continue` the
controller's recovery, `Send` the bridge's one worker thread.
Two history flags name known defects (section 5): `binding.skipped`, a live
chunk was ignored before the end of the replay was known, and `forgotten`, a
response cleared an overflow mark the server still relies on.

### TransferRuntime, ForwardRuntime, OperationRuntime

Each `with self._lock` (or `self._condition`) block is one action, named after
its method or the branch of it. In `TransferRuntime` the start command of a
transfer is `RunTransfer...`, a worker thread goes through `WorkerEnters`,
`WorkerAcquires`, a copy and `WorkerFinally`, which frees the slot and promotes
the next transfer (`NextRunnable`); the two early returns that skip the
`finally` clause are `WorkerReturnsEarly` and `WorkerCannotAcquire`. In
`ForwardRuntime` a start is split at every point where the child, the reaper, a
close or `shutdown()` can come between spawning, registering, storing the
handle, proving activity and the transition. In `OperationRuntime`, `drainers`
are the threads inside `_drain_events`, and `grip` the hooks and processes a
cancelling thread took under the lock and acts on after it. Three history
variables tell what became of a hook: `offer` (how its registration was
received: kept, or ignored because the record was evicted), `cancelAsked` and
`hookRuns`.

### InteractionBroker and AskpassContexts

`InteractionBroker` has one action per block that holds `self._condition`:
creating and waiting (`Create`, `BeginWait`, `TakeResult`, `GiveUp`), answering
(`Claim`, `Release`, `Decide`, `Reserve`, `SubmitSecret`, `Cancel`, `Refuse`),
and what races them (`Expire`, `Disconnect`, `CancelSession`, `CancelOwned`,
`BeginClose`). A nonce is the number of a claim, so a frame sent under an older
claim can be told apart. `_evict_completed_locked` deletes from the table that
some callers are iterating; the exception that follows is part of the actions.
`AskpassContexts` follows the children of one scope: OpenSSH asks, the worker
answers from the backend once, then from a person, stages what is to be
remembered, and `mark_authenticated` or `cancel_session` empties the stage. The
history `fate` of a value begins with `chosen`, when the worker receives an
answer to be remembered (`Submit`), before it is staged in a later critical
section (`Stage`); a `Stage` that finds its context closed adds nothing, as the
code logs nothing.

## 3. Runs

Several properties are conjunctions of named parts, each with its own comment
in the module; the parts are in brackets.

| run | instance | shows |
|---|---|---|
| `executor` | 2 workers, lanes of 3 and 1 commands, capacity 3, fair | `LaneExclusion`; `BookkeepingExact` (types, order in a lane, exact capacity, drained means answered); `NothingBeginsAfterStop`; `ResolvedExactlyOnce` (every accepted command is answered, once); the refinement `ImplementsSerialLanes` |
| `session_lifecycle` | 1 instrumented session, one chunk, one close, executor of one command, fair | `RecordsSound` (types, no invalid transition, nothing told twice); `NoAbandonedProcess`; `OutputComplete`; `EventOrder`; `RunningIsProven`; `SessionsSettle` |
| `session_pair` | 2 sessions without terminals, authentication gate, executor of one command, retention of one, a stop at any moment | `OpensKept` (sound records, exact retention, no orphaned open) when sessions compete for the executor and the daemon stops; that a session ends is `SessionsSettle` of the other run |
| `attachments` | 2 clients, 2 ids, 2 sizes, 2 resizes | `SingleOwner`; `AttachmentsExact` (index and audience); EOF delivery, newest size wins |
| `replay` | 3 sessions, rings of 3 bytes, budget of 4, chunks of 1 and 3, pages of 1 and 2 | `BuffersExact` (types, rings, budget, every answer), no silent gap for a paging client, oldest trimmed first |
| `stream` | 3 chunks, publication and client queues of 1, peer queue, spool and page of 2 | `StreamSound` (types, fed in order and never twice, a recovery always has a request or a page to end it); `NothingMissing`: at rest the tab shows everything or has failed and said so, two defects aside |
| `transfers` | 3 transfers of a service that takes one at a time and an SCP copy, pool of 2 | `SlotsExact` (caps held, no slot idle that a waiting transfer could use); `ActiveHasKeeper`; `FifoPerService` |
| `transfer_stop` | an SFTP and an SCP transfer, one worker, a client that leaves and another that comes, a stop at any moment, fair | `RecordsSound` (types, retention, one final event, none active after shutdown); `TransfersSettle` |
| `forwards` | 2 forwards, executor of two, a close that may be refused and retried, retention of none, a stop, fair | `ProcessesKept` (a child has a keeper, a CLOSING one a close to come); `RecordsSound` (types, retention, ACTIVE is live); `ForwardsSettle`; `StoppedMeansReaped` |
| `operations` | 2 operations, one with a process, one with a hook and progress, cancels and a stop, fair | `CancelReaches` (the process of a cancelled operation is terminated or held to be); `HookReached` (a registered hook is called exactly once or held to be called, only after a cancel); `RecordsSound` (types, while open one drainer and no event without one, order of events, nothing left behind, retention, none active after shutdown); `OperationSettles` |
| `interactions` | a prompt of an ssh child and one of a direct scope, 2 clients, 2 claims, ring of one, fair | `SecretsSafe` (only from the claim, reservation kept, cleared at every exit); `AnswersSound` (delivered, retained, told once, none open after close); `OneOutcome`; `WaitEnds` |
| `askpass` | a child that asks for a password and one for a passphrase, 2 prompts each | `SecretsAccounted` (a value to be remembered is followed from the answer on and does not vanish, except in the hand of a worker whose context was closed; none outlives its context, none is offered twice); `NoReprompt` |

**Bounds and why they suffice.** One session already has every thread that
takes part in its life; threads that serve all sessions keep per-session
effects apart, so a second session only matters where sessions share something:
the executor's capacity, the retention limit and the walk of `shutdown()`,
which is what `session_pair` is for. An executor of one command is full
whenever a start is blocked, so refused closes occur. One close and one late
exit suffice for every order of close, exit, EOF and verdict; a close that is asked
again is covered by the theorems, which hold for any `MaxCloses`
(`RecordsSoundAlways`, `NoAbandonedAlways`), and occurs in `ClosedMeansReaped`.
Two attachments
cover "same client twice" and "two clients"; two resizes cover one before and
one after the claim, which is where the two dispatchers race. Rings of three
bytes with chunks of one and three give whole, partial and oversized evictions,
and a budget of four makes one write trim one or two other sessions. Queues of
one or two items overflow at every place where the code drops; three chunks are
one deferred, one live and one more while a recovery is under way, and pages of
two make a replay of three take two requests. Three transfers of one service
and one of another are the least for which a queued transfer is overtaken by
one of another service while two of its own keep their order; two transfers are
enough for a stop, since one is then in a worker and one in the queue. A ring
of one finished interaction evicts whenever the second prompt ends. Two prompts
are one refused and one repeated. `CHECK_DEADLOCK FALSE` is used because the
systems do come to rest: all sessions closed, all commands answered, all bounds
used up. Every bound is a constant named as one.

**Fairness.** Requests, output, disconnects, stops and a child's own exit are
never fair: liveness is about what the daemon does by itself.
- Executor: worker threads are scheduled and the operations they run return
  (each has its own deadline in the code); cancel callbacks get to run.
- Session runtime: weak fairness of one disjunction, `DaemonStep`: if any
  thread can go on, some thread does. That is less than the fairness of each
  thread and enough, since no thread of the daemon goes round in circles. It
  contains that a signalled child ends (the code escalates to SIGKILL) and that
  the kernel reports the end of the PTY of a session leader that has exited.
- Transfers: executor, workers and `shutdown()` go on, and a copy ends, which
  is an assumption on the remote side.
- Forwards: workers and reapers go on and a signalled child ends; for the child
  that a failed start lets go the code relies on ssh ending on SIGTERM.
- Operations: threads go on, the body of an operation returns.
- Interactions: the waiting thread runs and its deadline passes. Neither the
  scheduler nor any person has to do anything.

`SessionsSettle`, `TransfersSettle` and `ForwardsSettle` are stated as "again
and again all are settled" (`[]<>`): the states in question are final, so that
is the same as settling.

**Mutants.** Every listed property has a mutant: a definition beside the one it
mutates (named `...Mutant` or `...Mut`) with a dropped guard, a forgotten
reset, a lost entry or a wrong order. With it in place of the original, the
property fails.

## 4. Proofs

The theorems hold for every value of the constants, under the assumptions named
in the modules, which only say what kind of thing a constant is: ids are
finitely many (where they are counted), null values are not ids, limits are
numbers, positive where the code refuses zero, and a direct scope serves one
interaction (`ExecutorAssumption`, `RuntimeAssumption`, `AttachmentsAssumption`, `TransferAssumption`,
`ForwardAssumption`, `OperationAssumption`, `BrokerAssumption`). All are proved
along the same lines: an inductive invariant, one lemma for the initial states,
one for the steps with a step per action; TLC checked each invariant before it
was proved. Where the state is a family of records, the invariant is a
predicate of one record, and an action is shown to keep it for the records it
touches while a frame lemma covers the others.

*`SelectionTheorems`.* The runtimes take keys out of insertion-ordered
dictionaries. `Only(s, S)` names the result by position instead of by
recursion, so that it can be reasoned about: its k-th element is the k-th
selected one (order and distinctness follow). `OnlyOrder` says so of
the order. `TrimmedProperties` is what every retention loop promises: everything
not chosen stays, at most the limit of the chosen and exactly the limit once
anything goes, the newest ones, and all that stays in its order.

*`CommandExecutorProofs`.*
- `LaneExclusion` is not inductive: that two workers never hold commands of one
  key depends on what is queued. `ExecutorInv` adds that a worker holds a
  command exactly between taking and finishing it (`HoldsCommand`); that a key
  has at most one ready or held command, and that `_occupied_keys` and
  `_running_keys` tell which (`LaneState`); and that nothing is queued after the
  stop (`StoppedState`). From it: `TypeCorrect`, `LanesExclusive`,
  `StopIsFinal`.
- `BookkeepingInv` says in addition where each accepted command is: in one place
  and unanswered (`Placed`), its lane occupied because of a command that can be
  named (`Occupied`), owed its `on_cancel` or still known (`Owed`), in the
  history of accepted commands once (`Admitted`), behind the ones accepted
  before it (`Ordered`). The count of `_outstanding` is then the cardinality of
  a disjoint union. From it: `BookkeepingAlways` (order within a lane, exact
  capacity, a drained pool has answered everybody) and `AnsweredOnce`.
- `LanesImplemented` is the refinement: `Submit` is `Accept`, `WorkerTake` is
  `Begin`, `WorkerFinish` is `Finish`, `StopAccepting` is `StopAndCancel`, and
  every other action changes nothing that `SerialLanes` knows of. It needs
  `BookkeepingInv`: a free key must have nothing waiting for `Accept` to append
  at the right place, and the abstract count after a stop is the number of
  running keys, which a bijection from the held commands gives.

*`SessionRuntimeProofs`.* Everything the runs check of `SessionRuntime` but
`SessionsSettle`, for any set of sessions, any setting of the gates, any
capacity and any number of chunks. `SessionInvariant` is the inductive
invariant `IInv`, ten predicates of one session beside types and retention:
- `StateFits`, `LaneFits`, `StartFits`: which states a record rests in, what its
  lane may hold and which control point of the worker goes with them. The
  startup is claimed once and a close is submitted only for a session that has
  left STARTING and RUNNING; without that the critical sections of a start
  could find a state from which their transition is refused. With what
  `FreshFits` says of the one thread that submits, they give
  `NoInvalidTransition`, `RetentionExact` and `NoOrphanedOpen`.
- `ChildFits`, `ShutFits`: a live child is held, and `shutdown()` reaches every
  session that is STARTING or RUNNING before it drops the callbacks.
- `VerdictFits`: a verdict in transit or parked in the record was reached by
  the parser, and a claimed record knows whether it has a PTY.
- `FreshFits`: until its start is submitted, only the selector owes anything
  about a session, `created` before `starting`. `KindFits`: an event is owed by
  one thread, once, not after it was told, and only when the session has been
  where it says. `OrderFits`: in one thread's queue `authenticated` comes after
  `running` and `exited` before `closed`. `ToldOnce` alone is not inductive,
  since it says nothing of what is queued.
- `OutputFits`: each chunk is deferred, owed or delivered, in one of these and
  once; while the session is STARTING or RUNNING none is missing; and deferred
  output of a RUNNING session is about to be flushed. `OutputComplete` then
  needs that a sequence of distinct chunks that holds `1..chunks` has that
  length (`Permutation`).

A critical section is summarised once (`Section`, `Summary`): what its own session
becomes, what it queues, and that the queue is tidy; each of the actions is
then shown to be such a section. From `IInv`: `RecordsSoundAlways`,
`NoAbandonedAlways`, `OpensKeptAlways`, `OutputCompleteAlways`, and the action
properties `EventOrderAlways` and `RunningIsProvenAlways`. The last needs the
invariant only where a worker attaches: that the parked verdict is one the
parser reached and that `terminal_capable` is what the claim stored.

*`SessionAttachmentsProofs`.*
- `AttachmentsInv` ties ownership, index and audience together: `SingleOwner`
  needs `IndexExact` (a disconnect removes what the index names), which needs
  `IdsFresh` (ids are not reused); `OutputToAttached` needs the index because
  `detach_session` looks there for another attachment that wants output. From
  it: `AttachmentsTyped`, `OneInputOwner`, `AttachmentsExactAlways`. `NoTakeover`
  needs no invariant.
- `EofInv`: while the EOF is under way, everyone it must reach is connected and
  in `output_clients` or, the session having closed, in
  `closed_output_clients`. From it: `EofReachesEveryone`.
- `SizeInv`: with a handle, the newest size is yet to be read by a waiting
  dispatcher, or held by the one with the lock, or the last thing queued. From
  it: `NewestSizeWins`.

*`OperationRuntimeProofs`.* `OperationInv` relates the state of a record to the
threads that start and run it (`ControlFits`), the table to the states
(`OrderFits`), the progress of `shutdown()` to what may be active (`StopFits`),
the draining flag to the thread that drains (`DrainFits`), a cancel hook to the
one place it can be at (`HooksFit`: in the table, in one thread's grip, or run
once) and to how its registration and the cancellation went (`OffersFit`: a hook
that was kept is in the table, held, or run, or its operation ended uncancelled) and the events published and queued to the
state of the record (`EventsFit`). One drainer alone is not inductive: the flag must be shown to
be set for as long as a drainer or a queued event exists. From it:
`CancelReachesAlways`, `HookReachedAlways`, `RecordsSoundAlways`.

*`ForwardRuntimeProofs`.* `ForwardInv` says what the lane of a forward holds
for each state (`LaneFits`), which control point of the start, the close and
the reaper goes with a live child (`ProcessFits`), and that the selector thread
submits one close at a time (`SelectorFits`). From it: `ProcessesKeptAlways`,
`RecordsSoundAlways`, and the action properties `OverIsFinalAlways` and
`OldestEvictedAlways`: the retention theorem brought to every action that
closes a forward.
`ProcessHasKeeper` excepts the children that a failed start lets go
(`dropped`), as the code does.

*`InteractionBrokerProofs`.* `BrokerInv` is `RingFits` (ring, dictionary and
closing agree, also after a loop that raised) and four predicates of one
interaction: what its record holds, whom a claim belongs to, what the waiting
thread may find, and what was published. From it: `SecretsSafeAlways`,
`AnswersSoundAlways` and the action property `OneOutcomeAlways`.

The same module proves `AskpassContexts`, since both follow
`interaction_broker.py`; for that the two modules share no name (its
specification is `AskpassSpec`). The assumption is `AskpassAssumption`: finitely
many children, the passphrase ones among them, at least one attempt.
`AskpassInv` is `AskpassTypeOK`, `MarksFit`
(no more calls of `mark_authenticated` are due than children were accepted) and,
of each child, `WorkFits` (a value is named after its attempt, and an attempt is
counted before it is served), `RefusedFits` (a dismissed prompt is about to be
marked, is marked, or the context is closed), `OfferFits` (a stored value is
looked up only while none was offered), `FateFits` and `StagedFits`. That a
value is still where its `fate` says is not inductive alone: `FateFits` also
says that a value in the hand of a worker has the one entry `chosen`, so that a
second staging cannot hide the first, and that a value whose loss was logged at
the commit point has three, so that closing the context logs no loss twice. From it:
`SecretsAccountedAlways` and the action property `NoRepromptAlways`.

*`TransferRuntimeProofs`.* `TransferInv` is the table and its retention
(`OrderFits`), the pool, which counts every thread that may use a connection
(`PoolFits`), the order in which the daemon stops (`StopFits`), promotion by a
finished worker (`PromoteFits`) and four predicates of one transfer (record,
worker, command, events). `ClientFits` is inductive by itself. From it:
`CapsHeldAlways`, `ActiveHasKeeperAlways`, `RecordsSoundAlways` and the action
property `SettledAlways`.

Proved without a run of their own: `TypeOK` and `NoForcedTakeover` of the
attachments, `TypeOK` of the executor and `OldestEvicted` of the forwards, whose
run retains none; and, as conjuncts of properties that
runs check, `ResolvedOnce` (`AnsweredOnce`), `CapsHeld`, `Settled` and
`OverIsFinal`, the rest of those properties being liveness or, for `CapsHeld`,
the following.

*Only model-checked:*
- liveness and everything about fairness, which the prover does not do;
- `WorkConserving` and `FifoPerService` of `TransferRuntime`. That a worker
  which ends need promote only one transfer holds because the idle places which
  waiting transfers could use are at most the workers whose record was evicted
  early: a sum over the services, and an invariant about sums is induction over
  a set, which is out of reach here. `FifoPerService` rests on it (a transfer
  that starts at once must not overtake one that waits);
- `TerminalReplay` and `TerminalStream`, whose buffers and queues are folds and
  would need induction over data.

## 5. Statements the code does not keep

Each has a definition in its module and a configuration that makes TLC show a
counterexample (`tlc -config <name>.cfg <module>`). They are not among the runs
of `PROJECT.json`.

| configuration, module | statement | what happens |
|---|---|---|
| `LateVerdict`, `MCSessionRuntime` | `docs/architecture/session-runtime.md:114` "A late diagnostic verdict can never change a session's fate once the fallback is taken." | `_on_ssh_diagnostic_result` does not look at the fallback and promotes or fails the session |
| `EofBeforeExited`, `MCSessionRuntime` | `terminal-streaming.md:131` "EOF is emitted once at the final byte sequence, followed by `session.exited` and `session.closed`" | the EOF is recorded under the lock and announced after it; the reaper can announce the exit in between |
| `ClosedMeansReaped`, `MCSessionRuntime` | `docs/api/sessions.md:51` closed is "Terminal; resources reaped" | a close refused by the full executor makes a starting session FAILED without a handle; the retried close publishes `session.closed` with the child alive |
| `ShutdownCompletes`, `MCSessionRuntime` | `docs/api/sessions.md:69` "shutdown reaps children" | a record evicted while `shutdown()` walks its snapshot makes it raise before the runner is closed |
| `FallbackPromotes`, `MCSessionRuntime` | `session-runtime.md:112` the evidence classifier "remains the fallback when diagnostics are unavailable or stay pending past the readiness grace deadline" | when the timer fires before the handle is stored, connected evidence does not promote the session until the remote writes again |
| `SlotLeak`, `MCTransferRuntime` | `docs/architecture/file-transfers.md:34` "Completed worker threads are removed" | a worker that returns before its `try` block (cancelled before its first step, or service not acquired) stays in `_worker_threads` and keeps its slot for ever |
| `PublishingClosed`, `MCOperationRuntime` | `daemon/operation_runtime.py:607` "Reject new work, request bounded cancellation, and close publishing." | `shutdown()` queues the events of the queued operations it cancels, which takes the draining flag, and does not drain; the close it then requests is left to a drainer that does not exist, so neither the events nor the close happen |
| `UnprovenStored`, `MCAskpassContexts` | comment at `daemon/interaction_broker.py:1865` "A repeated prompt proves the previous password failed."; `secret-brokering.md:57` "Failure, cancellation, exit, or shutdown clears it without storage." | the staged value of a refused attempt is dropped only when the next answer is to be remembered too; otherwise the refused one is stored |
| `RememberedLossLogged`, `MCAskpassContexts` | comment at `daemon/interaction_broker.py:1366` "Say so — otherwise a credential the user explicitly chose to save is discarded without a trace anywhere in the logs." | `cancel_session` closes the context while a worker holds the person's answer and has yet to stage it; the worker finds the context closed (line 1864) and drops the value without a warning. `SecretsAccounted` excepts exactly this |
| `StreamTail`, `MCTerminalStream` | `terminal-streaming.md:98` output "cannot leave an unreported gap" | a live chunk that reaches a recovering binding before `resume()` is ignored; the tab becomes ACTIVE without it and stays so while the session is silent |
| `StreamGap`, `MCTerminalStream` | `gtk_client_bridge.py:340` "bytes after a gap are never fed to the existing terminal-parser state" | the same, followed by one more chunk: with nothing received yet there is nothing to compare its sequence with, and it is fed |
| `StreamForgotten`, `MCTerminalStream` | `terminal-streaming.md:98`, as above | a continuity status overtakes the response of a replay and overflows the client's queue; the response clears the overflow mark, the server keeps its own, and the tab waits in RECOVERING for frames nobody sends |
| `StreamLivelock`, `MCTerminalStream` | a recovery ends | every frame of a page that does not reach the live end is marked truncated, which the client takes for a loss, so paging restarts the recovery it serves, and can do so for ever |

Also met, without a configuration: output of an instrumented launch is
dispatched before RUNNING once the handle is stored
(`daemon/session_runtime.py:1955`); the diagnostics lease of an attempt may stay
behind when a startup fails in CLOSING (`session_runtime.py:2209`); a forward
that does not become active loses its handle without its process being
terminated (`forward_runtime.py:492`; `ProcessHasKeeper` excepts it as
`dropped`), and a forward left FAILED by a refused close is killed by the
retried close but never becomes CLOSED; the loops of the broker over `_records`
raise once the ring of finished interactions is full
(`interaction_broker.py:1311`, `1340`, `1409`, `2036`), which also aborts the
server's cleanup; the result of an attach resets the tab's next sequence even
when replayed frames were fed before it
(`terminal_session_controller.py:725`).

## 6. Not modelled, and the plan

Not modelled because there is little to check: argument vectors and launch
plans, codecs and wire models, `ssh_config` text, key and secret tools, user
interfaces, packaging. They transform data or call external programs.

Left out of the modelled parts: the input path and its back-pressure; the
selector loop and write queue of `PtyIoManager`; the EOF marker, lost
connections and reattachment in `TerminalStream`; the copying of files, its
progress and conflict policies; who owns a forward; confirmation of a new
passphrase and the switch that forbids stored secrets; event queues of peers.

What remains, in this order:

1. `SftpRuntime`: ownership and sharing of services, path locks, idle closing;
   it would replace the environment of `TransferRuntime`.
2. `PtyIoManager`: the write queue, back-pressure and the input path.
3. `DaemonLifecycle`: idle and drain deadlines against arriving work, and the
   process registry after a crash.
4. Reattachment after a lost connection, as an extension of `TerminalStream`.

A proof worth having next: `ServiceOf`-wise counting for `WorkConserving`,
should the prover learn to instantiate an induction rule.

## 7. Running the checks

In this directory: `tlc -config SessionLifecycle.cfg MCSessionRuntime` (runs
and their modules are listed in `PROJECT.json`), and
`tlapm SessionAttachmentsProofs.tla`, and so for the other `...Proofs` modules and
`SelectionTheorems`; each takes from seconds to a few minutes,
`SessionRuntimeProofs` about a quarter of an hour.
