------------------------ MODULE SessionAttachments ------------------------
(***************************************************************************)
(* Who may see and drive the terminal of one session                       *)
(* (daemon/session_runtime.py): attachments, the single input owner, the   *)
(* audience of terminal frames, and the terminal size.                     *)
(*                                                                         *)
(* Requests of clients run on the selector thread of the server; the start *)
(* worker, the PTY I/O thread and the threads that end the session run     *)
(* concurrently with it.  The session's states are those of SessionRuntime,*)
(* here driven by an environment that takes every transition open to it.   *)
(***************************************************************************)
EXTENDS Integers, Sequences, FiniteSets

CONSTANTS
    Client, NoClient,           \* handshaken peers; an id is never reused
    Attachment, NoAttachment,   \* bound: attachment ids that can be allocated
    Size,                       \* terminal dimensions
    TerminalCapable,            \* the runner owns PTYs
    MaxResizes                  \* bound: terminal.resize requests

ASSUME AttachmentsAssumption ==
    /\ NoClient \notin Client
    /\ NoAttachment \notin Attachment
    /\ TerminalCapable \in BOOLEAN
    /\ MaxResizes \in Nat

VARIABLES
    state,          \* record.state; "gone" once the record is evicted
    capable,        \* record.terminal_capable
    serving,        \* _accepting_commands, then _closed
    connected,      \* peers whose socket is open
    used,           \* history: attachment ids allocated so far
    live,           \* keys of record.attachments
    clientOf,       \* _AttachmentRecord.client_id
    wanting,        \* live attachments with want_output
    flagged,        \* live attachments with is_input_owner
    attachmentsOf,  \* record.client_attachments
    owner,          \* record.input_owner_attachment_id
    outputClients, closedOutputClients,
    eof,            \* where the EOF marker of the PTY is
    audience,       \* history: the clients it must reach
    toldEof,        \* history: the clients it was sent to
    worker,         \* control point of start_session
    handle,         \* record.process_handle is not None
    desired,        \* record.launch_spec.dimensions
    launched,       \* spec.dimensions, read before the blocking start
    applied,        \* window size of the PTY
    commands,       \* resize commands queued for the PTY I/O thread
    dispatch,       \* control point of _dispatch_resize on each thread
    read,           \* the size read by the thread that holds the dispatch lock
    missed,         \* history: the newest dispatch met a full I/O queue
    resizes         \* history: terminal.resize requests made

lifeVars   == <<state, capable, serving>>
attachVars == <<live, wanting, flagged, attachmentsOf, owner, outputClients,
                closedOutputClients>>
idVars     == <<used, clientOf>>
eofVars    == <<eof, audience, toldEof>>
sizeVars   == <<desired, launched, applied, commands, dispatch, read, missed, resizes>>
vars == <<lifeVars, connected, idVars, attachVars, eofVars, worker, handle, sizeVars>>

Thread == {"selector", "worker"}

Init ==
    /\ state = "starting" /\ capable = FALSE /\ serving = "accepting"
    /\ connected = Client
    /\ used = {} /\ clientOf = [a \in Attachment |-> NoClient]
    /\ live = {} /\ wanting = {} /\ flagged = {}
    /\ attachmentsOf = [c \in Client |-> {}]
    /\ owner = NoAttachment
    /\ outputClients = {} /\ closedOutputClients = {}
    /\ eof = "none" /\ audience = {} /\ toldEof = {}
    /\ worker = "queued" /\ handle = FALSE
    /\ desired \in Size /\ launched = desired /\ applied = desired
    /\ commands = <<>>
    /\ dispatch = [t \in Thread |-> "idle"] /\ read = desired
    /\ missed = FALSE /\ resizes = 0

-----------------------------------------------------------------------------
(* Requests, one at a time on the selector thread. *)

SelectorFree == dispatch["selector"] = "idle"

\* _require_accepting_commands_locked, _record_locked.
Request(c) ==
    /\ SelectorFree /\ serving = "accepting" /\ state # "gone"
    /\ c \in connected

\* The attachment exists and belongs to the client.
Holds(c, a) == a \in live /\ clientOf[a] = c

\* attach_session.  The attachment is stored before the terminal is found to
\* be unavailable; the request then fails and the attachment stays.
Attach(c, a, out, inp) ==
    LET unavailable == out /\ ~capable /\ state # "starting"
        owns == inp /\ TerminalCapable /\ owner = NoAttachment /\ ~unavailable
    IN
    /\ Request(c) /\ state \notin {"exited", "failed", "closed"}
    /\ a \in Attachment \ used
    /\ used' = used \union {a}
    /\ clientOf' = [clientOf EXCEPT ![a] = c]
    /\ live' = live \union {a}
    /\ wanting' = IF out THEN wanting \union {a} ELSE wanting
    /\ attachmentsOf' = [attachmentsOf EXCEPT ![c] = @ \union {a}]
    /\ outputClients' = IF out /\ ~unavailable THEN outputClients \union {c} ELSE outputClients
    /\ owner' = IF owns THEN a ELSE owner
    /\ flagged' = IF owns THEN flagged \union {a} ELSE flagged
    /\ UNCHANGED <<lifeVars, connected, closedOutputClients, eofVars, worker, handle, sizeVars>>

\* Mutant: the owner may detach and keep the input.
DetachMutant(c, a) ==
    /\ Request(c) /\ Holds(c, a)
    /\ live' = live \ {a} /\ wanting' = wanting \ {a} /\ flagged' = flagged \ {a}
    /\ attachmentsOf' = [attachmentsOf EXCEPT ![c] = @ \ {a}]
    /\ UNCHANGED <<lifeVars, connected, idVars, outputClients, closedOutputClients, owner,
                   eofVars, worker, handle, sizeVars>>

\* detach_session.
Detach(c, a) ==
    LET last == a \in wanting /\ attachmentsOf[c] \cap wanting \subseteq {a} IN
    /\ Request(c) /\ Holds(c, a)
    /\ live' = live \ {a}
    /\ wanting' = wanting \ {a}
    /\ flagged' = flagged \ {a}
    /\ attachmentsOf' = [attachmentsOf EXCEPT ![c] = @ \ {a}]
    /\ outputClients' = IF last THEN outputClients \ {c} ELSE outputClients
    /\ owner' = IF owner = a THEN NoAttachment ELSE owner
    /\ audience' = audience \ (outputClients \ outputClients')
    /\ UNCHANGED <<lifeVars, connected, idVars, closedOutputClients, eof, toldEof,
                   worker, handle, sizeVars>>

\* claim_input: only when unowned.
ClaimInput(c, a) ==
    /\ Request(c) /\ Holds(c, a)
    /\ owner = NoAttachment
    /\ owner' = a
    /\ flagged' = flagged \union {a}
    /\ UNCHANGED <<lifeVars, connected, idVars, live, wanting, attachmentsOf, outputClients,
                   closedOutputClients, eofVars, worker, handle, sizeVars>>

\* release_input: the current owner only.
ReleaseInput(c, a) ==
    /\ Request(c) /\ Holds(c, a)
    /\ owner = a
    /\ owner' = NoAttachment
    /\ flagged' = flagged \ {a}
    /\ UNCHANGED <<lifeVars, connected, idVars, live, wanting, attachmentsOf, outputClients,
                   closedOutputClients, eofVars, worker, handle, sizeVars>>

\* Mutant: the client stays in the index and in the audience.
DisconnectMutant(c) ==
    /\ SelectorFree /\ c \in connected
    /\ connected' = connected \ {c}
    /\ live' = live \ attachmentsOf[c]
    /\ wanting' = wanting \ attachmentsOf[c]
    /\ flagged' = flagged \ attachmentsOf[c]
    /\ owner' = IF owner \in attachmentsOf[c] THEN NoAttachment ELSE owner
    /\ audience' = audience \ {c}
    /\ UNCHANGED <<lifeVars, idVars, attachmentsOf, outputClients, closedOutputClients, eof,
                   toldEof, worker, handle, sizeVars>>

\* _close_client and detach_client, which drops the peer from the records that
\* index attachments of it.
Disconnect(c) ==
    LET mine == attachmentsOf[c] IN
    /\ SelectorFree /\ c \in connected
    /\ connected' = connected \ {c}
    /\ live' = live \ mine
    /\ wanting' = wanting \ mine
    /\ flagged' = flagged \ mine
    /\ attachmentsOf' = [attachmentsOf EXCEPT ![c] = {}]
    /\ owner' = IF owner \in mine THEN NoAttachment ELSE owner
    /\ outputClients' = IF mine # {} THEN outputClients \ {c} ELSE outputClients
    /\ closedOutputClients' = IF mine # {} THEN closedOutputClients \ {c} ELSE closedOutputClients
    /\ audience' = audience \ {c}
    /\ UNCHANGED <<lifeVars, idVars, eof, toldEof, worker, handle, sizeVars>>

-----------------------------------------------------------------------------
(* The terminal size. *)

\* resize_terminal: the owner sets the desired size; with a handle it is
\* dispatched, without one start_session catches up.
ResizeTerminal(c, a, d) ==
    /\ Request(c) /\ Holds(c, a) /\ owner = a
    /\ handle \/ state = "starting"
    /\ resizes < MaxResizes
    /\ resizes' = resizes + 1
    /\ desired' = d
    /\ dispatch' = IF handle THEN [dispatch EXCEPT !["selector"] = "waiting"] ELSE dispatch
    /\ UNCHANGED <<lifeVars, connected, idVars, attachVars, eofVars, worker, handle,
                   launched, applied, commands, read, missed>>

\* _dispatch_resize takes the session's dispatch lock and only then reads the
\* desired size.
DispatchBegin(t) ==
    /\ dispatch[t] = "waiting" /\ \A u \in Thread : dispatch[u] # "holding"
    /\ dispatch' = [dispatch EXCEPT ![t] = IF handle THEN "holding" ELSE "idle"]
    /\ read' = IF handle THEN desired ELSE read
    /\ UNCHANGED <<lifeVars, connected, idVars, attachVars, eofVars, worker, handle,
                   desired, launched, applied, commands, missed, resizes>>

\* handle.resize submits to the I/O thread, whose queue, shared by all
\* sessions, may be full: the request fails as retryable, the catch-up is
\* only logged.
DispatchResize(t) ==
    /\ dispatch[t] = "holding"
    /\ dispatch' = [dispatch EXCEPT ![t] = "idle"]
    /\ \/ commands' = Append(commands, read) /\ missed' = FALSE
       \/ UNCHANGED commands /\ missed' = TRUE
    /\ UNCHANGED <<lifeVars, connected, idVars, attachVars, eofVars, worker, handle,
                   desired, launched, applied, read, resizes>>

\* PtyIoManager._drain_commands: TIOCSWINSZ.
ApplyResize ==
    /\ commands # <<>>
    /\ applied' = Head(commands) /\ commands' = Tail(commands)
    /\ UNCHANGED <<lifeVars, connected, idVars, attachVars, eofVars, worker, handle,
                   desired, launched, dispatch, read, missed, resizes>>

-----------------------------------------------------------------------------
(* start_session on a command worker. *)

StartClaim ==
    /\ worker = "queued" /\ state \in {"starting", "closing"}
    /\ worker' = "starting"
    /\ capable' = TerminalCapable
    /\ launched' = desired
    /\ UNCHANGED <<state, serving, connected, idVars, attachVars, eofVars, handle, desired,
                   applied, commands, dispatch, read, missed, resizes>>

\* The PTY is opened with the size read at the claim.
StartSpawn ==
    /\ worker = "starting"
    /\ worker' = "spawned"
    /\ applied' = launched
    /\ UNCHANGED <<lifeVars, connected, idVars, attachVars, eofVars, handle, desired, launched,
                   commands, dispatch, read, missed, resizes>>

\* Mutant: a resize that raced the start is forgotten.
StartAttachMutant ==
    /\ worker = "spawned"
    /\ worker' = "done"
    /\ handle' = (state \in {"starting", "closing"})
    /\ UNCHANGED <<lifeVars, connected, idVars, attachVars, eofVars, sizeVars>>

\* The handle is stored; a resize that arrived in between is caught up with.
StartAttach ==
    /\ worker = "spawned"
    /\ worker' = "done"
    /\ handle' = (state \in {"starting", "closing"})
    /\ dispatch' = IF state = "starting" /\ desired # launched
                   THEN [dispatch EXCEPT !["worker"] = "waiting"] ELSE dispatch
    /\ UNCHANGED <<lifeVars, connected, idVars, attachVars, eofVars, desired, launched,
                   applied, commands, read, missed, resizes>>

-----------------------------------------------------------------------------
(* The life of the session, on other threads. *)

\* Mutant: the audience at the time of the close is not kept.
DropAttachmentsMutant ==
    /\ live' = {} /\ wanting' = {} /\ flagged' = {}
    /\ attachmentsOf' = [c \in Client |-> {}]
    /\ owner' = NoAttachment
    /\ outputClients' = {} /\ closedOutputClients' = {}

\* _transition_locked into CLOSED.
DropAttachments ==
    /\ live' = {} /\ wanting' = {} /\ flagged' = {}
    /\ attachmentsOf' = [c \in Client |-> {}]
    /\ owner' = NoAttachment
    /\ closedOutputClients' = outputClients
    /\ outputClients' = {}

BecomeRunning ==
    /\ state = "starting" /\ handle
    /\ state' = "running"
    /\ UNCHANGED <<capable, serving, connected, idVars, attachVars, eofVars, worker, handle,
                   sizeVars>>

BecomeClosing ==
    /\ state \in {"starting", "running"}
    /\ state' = "closing"
    /\ UNCHANGED <<capable, serving, connected, idVars, attachVars, eofVars, worker, handle,
                   sizeVars>>

\* A failed startup also gives up the terminal; a failed close does not.
BecomeFailed ==
    /\ state \in {"starting", "running", "closing"}
    /\ state' = "failed"
    /\ capable' \in {capable, FALSE}
    /\ UNCHANGED <<serving, connected, idVars, attachVars, eofVars, worker, handle, sizeVars>>

\* A close or an exit; EXITED is never left visible.
BecomeClosed ==
    /\ state \in {"starting", "running", "closing", "failed"}
    /\ state' = "closed"
    /\ handle' = FALSE
    /\ DropAttachments
    /\ UNCHANGED <<capable, serving, connected, idVars, eofVars, worker, sizeVars>>

\* _evict_closed_locked, when enough newer sessions have closed.
Evict ==
    /\ state = "closed"
    /\ state' = "gone"
    /\ audience' = {}
    /\ UNCHANGED <<capable, serving, connected, idVars, attachVars, eof, toldEof, worker,
                   handle, sizeVars>>

\* receives_terminal.
Receives(c) == state # "gone" /\ c \in outputClients \union closedOutputClients

\* _terminal_eof: the marker is made under the lock, in the section that may
\* also close the session; the callbacks run later.
EofAccepted ==
    /\ eof = "none" /\ worker \in {"spawned", "done"} /\ TerminalCapable
    /\ eof' = IF serving = "cleared" \/ state = "gone" THEN "dropped" ELSE "accepted"
    /\ audience' = {c \in connected : Receives(c)}
    /\ \/ UNCHANGED <<state, handle, attachVars>>
       \/ /\ state \in {"starting", "running", "closing", "failed"}
          /\ state' = "closed" /\ handle' = FALSE
          /\ DropAttachments
    /\ UNCHANGED <<capable, serving, connected, idVars, toldEof, worker, sizeVars>>

\* _on_terminal_output: the frame is queued for the selector, unless the
\* server is stopping.
EofQueued ==
    /\ eof = "accepted"
    /\ eof' = IF serving = "accepting" THEN "queued" ELSE "dropped"
    /\ UNCHANGED <<lifeVars, connected, idVars, attachVars, audience, toldEof, worker, handle,
                   sizeVars>>

\* _drain_terminal_output: membership is tested only now.
EofDrained ==
    /\ eof = "queued" /\ SelectorFree /\ serving = "accepting"
    /\ eof' = "drained"
    /\ toldEof' = {c \in connected : Receives(c)}
    /\ UNCHANGED <<lifeVars, connected, idVars, attachVars, audience, worker, handle, sizeVars>>

ShutdownBegin ==
    /\ serving = "accepting" /\ SelectorFree
    /\ serving' = "refusing"
    /\ UNCHANGED <<state, capable, connected, idVars, attachVars, eofVars, worker, handle,
                   sizeVars>>

\* shutdown() clears what the closing of the sessions has left.
ShutdownClear ==
    /\ serving = "refusing" /\ state \in {"closing", "failed", "closed", "gone"}
    /\ serving' = "cleared"
    /\ live' = {} /\ wanting' = {} /\ flagged' = {}
    /\ attachmentsOf' = [c \in Client |-> {}]
    /\ owner' = NoAttachment
    /\ outputClients' = {} /\ closedOutputClients' = {}
    /\ audience' = {}
    /\ UNCHANGED <<state, capable, connected, idVars, eof, toldEof, worker, handle, sizeVars>>

-----------------------------------------------------------------------------
ClientStep(c) ==
    \/ \E a \in Attachment : \E out, inp \in BOOLEAN : Attach(c, a, out, inp)
    \/ \E a \in Attachment : Detach(c, a) \/ ClaimInput(c, a) \/ ReleaseInput(c, a)
    \/ \E a \in Attachment, d \in Size : ResizeTerminal(c, a, d)
    \/ Disconnect(c)

SizeStep == ApplyResize \/ \E t \in Thread : DispatchBegin(t) \/ DispatchResize(t)

LifeStep ==
    \/ StartClaim \/ StartSpawn \/ StartAttach
    \/ BecomeRunning \/ BecomeClosing \/ BecomeFailed \/ BecomeClosed \/ Evict
    \/ EofAccepted \/ EofQueued \/ EofDrained
    \/ ShutdownBegin \/ ShutdownClear

Next == (\E c \in Client : ClientStep(c)) \/ SizeStep \/ LifeStep

Spec == Init /\ [][Next]_vars

-----------------------------------------------------------------------------
(* Properties. *)

\* Type invariant of the record's attachment, audience and size fields; EXITED
\* is passed through inside one critical section and never seen.
TypeOK ==
    /\ state \in {"starting", "running", "closing", "failed", "closed", "gone"}
    /\ capable \in BOOLEAN /\ handle \in BOOLEAN /\ missed \in BOOLEAN
    /\ serving \in {"accepting", "refusing", "cleared"}
    /\ connected \subseteq Client
    /\ used \subseteq Attachment /\ live \subseteq Attachment
    /\ wanting \subseteq Attachment /\ flagged \subseteq Attachment
    /\ clientOf \in [Attachment -> Client \union {NoClient}]
    /\ attachmentsOf \in [Client -> SUBSET Attachment]
    /\ owner \in Attachment \union {NoAttachment}
    /\ outputClients \subseteq Client /\ closedOutputClients \subseteq Client
    /\ eof \in {"none", "accepted", "queued", "drained", "dropped"}
    /\ audience \subseteq Client /\ toldEof \subseteq Client
    /\ worker \in {"queued", "starting", "spawned", "done"}
    /\ desired \in Size /\ launched \in Size /\ applied \in Size /\ read \in Size
    /\ commands \in Seq(Size)
    /\ dispatch \in [Thread -> {"idle", "waiting", "holding"}]
    /\ resizes \in Nat

\* At most one attachment owns the input: the flags agree with the session's
\* owner field, and the owner is a live attachment of a connected client, after
\* any sequence of attach, detach, claim, release, disconnect and close.
SingleOwner ==
    /\ flagged = IF owner = NoAttachment THEN {} ELSE {owner}
    /\ owner # NoAttachment => owner \in live /\ clientOf[owner] \in connected

\* client_attachments indexes exactly the live attachments: a client that is
\* gone has none left, so that disconnecting really drops them.
IndexExact ==
    /\ \A c \in Client : attachmentsOf[c] = {a \in live : clientOf[a] = c}
    /\ \A a \in live : clientOf[a] \in connected

\* Live terminal frames go only to connected clients that hold an attachment
\* that asked for output.
OutputToAttached == outputClients \subseteq {clientOf[a] : a \in live \cap wanting}

\* Index and audience say of the live attachments what they should, also after
\* a client left in the middle of what another one does.
AttachmentsExact == IndexExact /\ OutputToAttached

\* Ownership is never taken from an attachment that holds it: it passes from
\* one to another only through nobody.
NoForcedTakeover ==
    [][(owner # NoAttachment /\ owner' # owner) => owner' = NoAttachment]_vars

\* The EOF marker reaches every client that was receiving the terminal when it
\* was accepted and has not left since, although the session may be CLOSED,
\* with its attachments dropped, by the time the selector filters the frame.
EofReachesAudience == eof = "drained" => audience \subseteq toldEof

\* The newest requested size is the one in effect once dispatches are over,
\* whichever of the start worker and the selector dispatched last (a dispatch
\* refused by the full I/O queue excepted).
SizeSettles ==
    (/\ handle /\ state \in {"starting", "running"}
     /\ \A t \in Thread : dispatch[t] = "idle"
     /\ commands = <<>> /\ ~missed)
        => applied = desired
=============================================================================
