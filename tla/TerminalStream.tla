--------------------------- MODULE TerminalStream ---------------------------
(***************************************************************************)
(* The way of a session's output to a terminal tab: the threads and queues *)
(* between the PTY and the terminal parser, and the recovery of a tab that *)
(* was told of a loss.                                                     *)
(*   daemon: the PTY thread and the thread that flushes deferred output    *)
(*     (daemon/session_runtime.py) fill the publication queue, which the   *)
(*     selector thread drains into the queue of the peer                   *)
(*     (daemon/server.py)                                                  *)
(*   client: the socket reader checks the sequence and fills the terminal  *)
(*     queue, whose dispatch thread calls the binding                      *)
(*     (api/daemon_client.py)                                              *)
(*   tab: the binding spools for the GTK thread, which feeds the parser    *)
(*     and, told of a loss, replaces the binding and asks for a replay     *)
(*     (gtk_client_bridge.py, terminal_session_controller.py)              *)
(*                                                                         *)
(* One session, one attached peer.  A chunk of output is one unit and its  *)
(* sequence is its number; chunks cut in the middle are the subject of     *)
(* TerminalReplay, whose answers Serve uses.  A frame counts one against   *)
(* each limit.  The socket keeps the order of frames; a frame is read when *)
(* its last byte is sent, the delay being in the queues on either side.    *)
(* Left out: the EOF marker (SessionAttachments), lost connections and     *)
(* reattachment, errors and timeouts of the replay request.                *)
(***************************************************************************)
EXTENDS Integers, Sequences, SequencesExt

CONSTANTS MaxOutput,    \* bound: chunks the session writes
          MaxPublish,   \* maxsize of the server's _terminal_queue
          MaxPeer,      \* max_client_terminal_bytes
          MaxDispatch,  \* event_dispatch_limit of the client
          MaxSpool,     \* max_spool_bytes of the binding
          PageSize      \* _RECOVERY_REPLAY_CHUNK_BYTES

ASSUME StreamAssumption ==
    /\ MaxOutput \in Nat
    /\ {MaxPublish, MaxPeer, MaxDispatch, MaxSpool, PageSize} \subseteq Nat \ {0}

VARIABLES
    front, end,  \* the replay ring retains the chunks front..end-1
    hand,        \* chunks each publishing thread has still to put in the queue
    published,   \* _terminal_queue of the server
    pubLost,     \* the session is in _terminal_publication_lost
    draining,    \* the selector is inside _drain_terminal_output
    out,         \* state.output of the peer
    partial,     \* state.output_offset # 0: the first frame is partly sent
    peerLost,    \* the session is in state.terminal_continuity_lost
    expected,    \* _terminal_sequences of the client for the session
    queue,       \* _terminal_queue of the client
    overflow,    \* the session is in _terminal_overflow
    binding,     \* the GtkTerminalBinding
    tab,         \* _tab_state.state
    shown,       \* _tab_state.expected_sequence
    page,        \* _recovery_replay_pending
    requests,    \* replay requests on the bridge's one worker, oldest first
    forgotten    \* history: a response made the client forget a loss that
                 \* the server has marked

ringVars    == <<front, end, hand>>
publishVars == <<published, pubLost, draining>>
peerVars    == <<out, partial, peerLost>>
clientVars  == <<expected, queue, overflow, forgotten>>
tabVars     == <<binding, tab, shown, page>>
vars == <<ringVars, publishVars, peerVars, clientVars, tabVars, requests>>

None == -1
Publisher == {"pty", "flush"}
Least(a, b)    == IF a < b THEN a ELSE b
Greatest(a, b) == IF a < b THEN b ELSE a

Live(s)       == [kind |-> "output", seq |-> s, replay |-> FALSE, truncated |-> FALSE]
Replayed(s, t) == [kind |-> "output", seq |-> s, replay |-> TRUE, truncated |-> t]
Status        == [kind |-> "status"]
Response      == [kind |-> "response"]
Loss          == [kind |-> "loss"]
Output(f)     == [kind |-> "output", seq |-> f.seq, replay |-> f.replay]

(* A binding; only one made for a recovery starts paused.                  *)
NewBinding(from) ==
    [paused |-> from # None, from |-> from, upto |-> None,
     live |-> from = None, last |-> None, loss |-> FALSE, spool |-> <<>>,
     skipped |-> FALSE]

NoPage == [end |-> None, more |-> FALSE]

(* The tab was attached before the first output and follows it; the        *)
(* session has just become RUNNING, with some output deferred until then.  *)
Init ==
    /\ front = 0
    /\ end \in 0..Least(1, MaxOutput)
    /\ hand = [pty |-> <<>>, flush |-> [i \in 1..end |-> i - 1]]
    /\ published = <<>> /\ pubLost = FALSE /\ draining = FALSE
    /\ out = <<>> /\ partial = FALSE /\ peerLost = FALSE
    /\ expected = 0 /\ queue = <<>> /\ overflow = FALSE /\ forgotten = FALSE
    /\ binding = NewBinding(None) /\ tab = "active" /\ shown = 0 /\ page = NoPage
    /\ requests = <<>>

-----------------------------------------------------------------------------
(* The session runtime.                                                    *)

(* _terminal_output: the chunk enters the ring under the lock, and is      *)
(* published by the PTY thread after it.                                   *)
TerminalOutput ==
    /\ end < MaxOutput
    /\ hand["pty"] = <<>>
    /\ end' = end + 1
    /\ hand' = [hand EXCEPT !["pty"] = <<end>>]
    /\ UNCHANGED <<front, publishVars, peerVars, clientVars, tabVars, requests>>

(* The ring is full, or another session's output needs its bytes.          *)
Trim ==
    /\ front < end
    /\ front' = front + 1
    /\ UNCHANGED <<end, hand, publishVars, peerVars, clientVars, tabVars, requests>>

(* _on_terminal_output, called by the PTY thread and by the thread that    *)
(* flushes the deferred output.                                            *)
Publish(p) ==
    /\ hand[p] # <<>>
    /\ hand' = [hand EXCEPT ![p] = Tail(@)]
    /\ IF Len(published) < MaxPublish
       THEN published' = Append(published, Head(hand[p])) /\ UNCHANGED pubLost
       ELSE pubLost' = TRUE /\ UNCHANGED published
    /\ UNCHANGED <<front, end, draining, peerVars, clientVars, tabVars, requests>>

-----------------------------------------------------------------------------
(* The selector thread.  A peer is [out, lost]: its queue and the mark.    *)

IsTerminal(f) == f.kind = "output"
Peer == [out |-> out, lost |-> peerLost]

(* Control frames overtake everything but a frame that is partly sent.     *)
Priority(q, f) ==
    IF partial THEN <<Head(q), f>> \o Tail(q) ELSE <<f>> \o q

(* _drop_terminal_session_locked.                                          *)
DropTerminal(q) ==
    IF partial THEN <<Head(q)>> \o SelectSeq(Tail(q), LAMBDA f : ~IsTerminal(f))
    ELSE SelectSeq(q, LAMBDA f : ~IsTerminal(f))

QueueStatus(peer) == [out |-> Priority(peer.out, Status), lost |-> TRUE]

QueueTerminalFrame(peer, f) ==
    IF peer.lost /\ ~f.replay
    THEN peer
    ELSE IF Len(SelectSeq(peer.out, IsTerminal)) < MaxPeer
    THEN [peer EXCEPT !.out = Append(@, f)]
    ELSE QueueStatus([peer EXCEPT !.out = DropTerminal(@)])

SetPeer(peer) == out' = peer.out /\ peerLost' = peer.lost

(* _drain_terminal_output: losses first, then the frames one by one.       *)
DrainBegins ==
    /\ ~draining
    /\ published # <<>> \/ pubLost
    /\ draining' = TRUE
    /\ pubLost' = FALSE
    /\ SetPeer(IF pubLost THEN QueueStatus(Peer) ELSE Peer)
    /\ UNCHANGED <<ringVars, published, partial, clientVars, tabVars, requests>>

DrainFrame ==
    /\ draining
    /\ published # <<>>
    /\ published' = Tail(published)
    /\ SetPeer(QueueTerminalFrame(Peer, Live(Head(published))))
    /\ UNCHANGED <<ringVars, pubLost, draining, partial, clientVars, tabVars, requests>>

DrainEnds ==
    /\ draining
    /\ published = <<>>
    /\ draining' = FALSE
    /\ UNCHANGED <<ringVars, published, pubLost, peerVars, clientVars, tabVars, requests>>

(* ReplayBuffer.replay, in frames; a page that does not reach the live end *)
(* is as truncated as one whose start is gone.                             *)
Slice(after) ==
    LET first == Greatest(after, front)
        next  == Least(end, first + PageSize)
    IN [first |-> first, next |-> next, truncated |-> after < front \/ next < end]

Frames(slice) ==
    [i \in 1..(slice.next - slice.first) |->
        Replayed(slice.first + i - 1, slice.truncated)]

(* Mutant: the mark of the peer stays. *)
BoundaryMut(q) == [out |-> DropTerminal(Priority(q, Response)), lost |-> peerLost]

(* _queue_replay begins with the response and without what was queued.     *)
Boundary(q) == [out |-> DropTerminal(Priority(q, Response)), lost |-> FALSE]

(* terminal.replay: the slice under the runtime's lock, the response ahead *)
(* of everything, the frames at the end of the queue.                      *)
Serve ==
    /\ ~draining
    /\ \E i \in DOMAIN requests :
         LET slice == Slice(requests[i].after)
         IN /\ requests[i].phase = "sent"
            /\ SetPeer(FoldLeft(QueueTerminalFrame, Boundary(out), Frames(slice)))
            /\ requests' = [requests EXCEPT ![i].phase = "served", ![i].slice = slice]
    /\ UNCHANGED <<ringVars, publishVars, partial, clientVars, tabVars>>

(* _write_client sends part of the first frame, or the rest of it.         *)
WritePart ==
    /\ ~draining
    /\ out # <<>> /\ ~partial
    /\ partial' = TRUE
    /\ UNCHANGED <<ringVars, publishVars, out, peerLost, clientVars, tabVars, requests>>

-----------------------------------------------------------------------------
(* The client's reader and dispatch threads.                               *)

(* _queue_terminal_item, for the items of one frame.                       *)
Push(items) ==
    LET room == MaxDispatch - Len(queue)
        fits == Least(room, Len(items))
    IN /\ queue' = queue \o SubSeq(items, 1, fits)
       /\ overflow' = (overflow \/ fits < Len(items))

(* _receive_terminal: a jump ahead is a loss, what is known already is     *)
(* dropped, and every frame of a truncated replay is a loss of its own.    *)
ReceiveOutput(f) ==
    LET jump == IF f.seq > expected THEN <<Loss>> ELSE <<>>
        data == IF f.seq >= expected THEN <<Output(f)>> ELSE <<>>
        cut  == IF f.truncated THEN <<Loss>> ELSE <<>>
    IN /\ expected' = Greatest(expected, f.seq + 1)
       /\ Push(jump \o data \o cut)
       /\ UNCHANGED <<requests, forgotten>>

ReceiveStatus == Push(<<Loss>>) /\ UNCHANGED <<expected, requests, forgotten>>

(* A response resets the sequence to the one asked for, and its request's  *)
(* result goes to the GTK thread while the worker is free for the next.    *)
ReceiveResponse ==
    LET i == CHOOSE j \in DOMAIN requests : requests[j].phase = "served"
    IN /\ expected' = requests[i].after
       /\ overflow' = FALSE
       /\ forgotten' = (forgotten \/ (overflow /\ peerLost))
       /\ requests' = [requests EXCEPT ![i].phase = "answered"]
       /\ UNCHANGED queue

WriteRest ==
    /\ ~draining
    /\ out # <<>>
    /\ out' = Tail(out)
    /\ partial' = FALSE
    /\ CASE Head(out).kind = "output"   -> ReceiveOutput(Head(out))
         [] Head(out).kind = "status"   -> ReceiveStatus
         [] Head(out).kind = "response" -> ReceiveResponse
    /\ UNCHANGED <<ringVars, publishVars, peerLost, tabVars>>

(* _receive_output of the binding.                                         *)
Progress(b) == IF b.last # None THEN b.last ELSE b.from

(* Live output is ignored until the replay is known to be complete.        *)
Ignores(b, o) ==
    /\ b.from # None
    /\ ~o.replay
    /\ ~b.live \/ b.upto = None \/ Progress(b) < b.upto

(* Mutant: a replayed chunk is not compared with the recovery's start. *)
OutOfLineMut(b, o) == b.last # None /\ o.seq # b.last

OutOfLine(b, o) ==
    \/ b.from # None /\ o.replay /\ o.seq # Progress(b)
    \/ b.last # None /\ o.seq # b.last

Accept(b, o) ==
    IF b.loss THEN b
    ELSE IF Ignores(b, o) THEN [b EXCEPT !.skipped = @ \/ o.seq >= Progress(b)]
    ELSE IF OutOfLine(b, o) \/ Len(b.spool) = MaxSpool THEN [b EXCEPT !.loss = TRUE]
    ELSE [b EXCEPT !.spool = Append(@, o.seq), !.last = o.seq + 1]

(* _terminal_dispatch_main: an overflow is told before the next item.      *)
Dispatch ==
    /\ queue # <<>>
    /\ queue' = Tail(queue)
    /\ overflow' = FALSE
    /\ LET told == IF overflow \/ Head(queue).kind = "loss"
                   THEN [binding EXCEPT !.loss = TRUE] ELSE binding
       IN binding' = IF tab # "failed" /\ Head(queue).kind = "output"
                     THEN Accept(told, Head(queue)) ELSE told
    /\ UNCHANGED <<ringVars, publishVars, peerVars, expected, forgotten, tab, shown, page,
                   requests>>

-----------------------------------------------------------------------------
(* The tab, on the GTK thread, and the bridge's worker.                    *)

Request(after) ==
    [after |-> after, phase |-> "waiting", current |-> TRUE,
     slice |-> [first |-> 0, next |-> 0, truncated |-> FALSE]]

Superseded == [i \in DOMAIN requests |-> [requests[i] EXCEPT !.current = FALSE]]

(* The worker sends a request when the one before it has been answered.    *)
Send ==
    \E i \in DOMAIN requests :
       /\ requests[i].phase = "waiting"
       /\ \A j \in 1..(i - 1) : requests[j].phase = "answered"
       /\ requests' = [requests EXCEPT ![i].phase = "sent"]
       /\ UNCHANGED <<ringVars, publishVars, peerVars, clientVars, tabVars>>

(* _continue_replay_if_chunk_delivered: when the tab has the whole page it *)
(* asks for the next one, or is done.                                      *)
Continue(p, at, others) ==
    IF tab = "recovering" /\ p # NoPage /\ at >= p.end
    THEN /\ page' = NoPage
         /\ tab' = IF p.more THEN tab ELSE "active"
         /\ requests' = IF p.more THEN Append(others, Request(p.end)) ELSE others
    ELSE page' = p /\ requests' = others /\ UNCHANGED tab

(* _drain, in slices of one: a spooled chunk goes to the parser ...        *)
Feed ==
    /\ tab # "failed" /\ ~binding.paused
    /\ binding.spool # <<>>
    /\ binding' = [binding EXCEPT !.spool = Tail(@)]
    /\ shown' = Head(binding.spool) + 1
    /\ Continue(page, shown', requests)
    /\ UNCHANGED <<ringVars, publishVars, peerVars, clientVars>>

(* ... and after the last one a loss starts a recovery.                    *)
BeginRecovery ==
    /\ tab # "failed" /\ ~binding.paused
    /\ binding.spool = <<>> /\ binding.loss
    /\ tab' = "recovering"
    /\ binding' = NewBinding(shown)
    /\ page' = NoPage
    /\ requests' = Append(Superseded, Request(shown))
    /\ UNCHANGED <<ringVars, publishVars, peerVars, clientVars, shown>>

(* _finish_output_replay: the retained output restores the view, or the    *)
(* recovery fails, which the user is told.                                 *)
Restores(r) ==
    /\ r.slice.first = r.after
    /\ ~(r.slice.truncated /\ r.slice.next = r.after)

FinishReplay ==
    /\ requests # <<>> /\ Head(requests).phase = "answered"
    /\ LET r == Head(requests)
           current == r.current /\ tab = "recovering"
       IN \/ /\ ~current
             /\ requests' = Tail(requests)
             /\ UNCHANGED tabVars
          \/ /\ current /\ ~Restores(r)
             /\ tab' = "failed"
             /\ binding' = NewBinding(None)
             /\ page' = NoPage
             /\ requests' = Tail(requests)
             /\ UNCHANGED shown
          \/ /\ current /\ Restores(r)
             /\ binding' = [binding EXCEPT !.paused = FALSE, !.upto = r.slice.next,
                                           !.live = ~r.slice.truncated]
             /\ Continue([end |-> r.slice.next, more |-> r.slice.truncated],
                         shown, Tail(requests))
             /\ UNCHANGED shown
    /\ UNCHANGED <<ringVars, publishVars, peerVars, clientVars>>

-----------------------------------------------------------------------------
Next ==
    \/ TerminalOutput \/ Trim \/ \E p \in Publisher : Publish(p)
    \/ DrainBegins \/ DrainFrame \/ DrainEnds \/ Serve \/ WritePart \/ WriteRest
    \/ Dispatch \/ Send \/ Feed \/ BeginRecovery \/ FinishReplay

Spec == Init /\ [][Next]_vars

(* Every thread keeps running; nobody has to write.                        *)
Fairness ==
    /\ \A p \in Publisher : WF_vars(Publish(p))
    /\ WF_vars(DrainBegins \/ DrainFrame \/ DrainEnds)
    /\ WF_vars(Serve) /\ WF_vars(WriteRest)
    /\ WF_vars(Dispatch) /\ WF_vars(Send)
    /\ WF_vars(Feed \/ BeginRecovery \/ FinishReplay)

FairSpec == Spec /\ Fairness

-----------------------------------------------------------------------------
(* Every variable keeps its type.                                          *)
TypeOK ==
    /\ front \in 0..end /\ end \in 0..MaxOutput
    /\ \A p \in Publisher : \A i \in DOMAIN hand[p] : hand[p][i] \in 0..(end - 1)
    /\ Len(published) <= MaxPublish /\ Len(queue) <= MaxDispatch
    /\ {pubLost, draining, partial, peerLost, overflow, forgotten} \subseteq BOOLEAN
    /\ partial => out # <<>>
    /\ Len(SelectSeq(out, IsTerminal)) <= MaxPeer
    /\ expected \in 0..end /\ shown \in 0..end
    /\ Len(binding.spool) <= MaxSpool
    /\ tab \in {"active", "recovering", "failed"}

(* "Bytes after a gap are never fed to the existing terminal-parser state" *)
(* (gtk_client_bridge.py): what the binding holds continues what was fed.  *)
Continues == \A i \in DOMAIN binding.spool : binding.spool[i] = shown + i - 1

(* After a live chunk was ignored before the end of the replay was known   *)
(* chunks may be missing, but none is ever fed twice.                      *)
FedInOrder ==
    tab # "failed" =>
      /\ \A i \in DOMAIN binding.spool : binding.spool[i] >= shown + i - 1
      /\ ~binding.skipped => Continues

(* A recovery has exactly one replay under way, or a page to show.         *)
RecoveryDriven ==
    LET current == {i \in DOMAIN requests : requests[i].current}
    IN /\ \A i, j \in current : i = j
       /\ tab = "recovering" <=> (current # {} \/ page # NoPage)

(* The stream is well formed and fed to the parser in order.               *)
StreamSound == TypeOK /\ FedInOrder /\ RecoveryDriven

(* No thread has anything to do for this session's output.                 *)
AtRest ==
    /\ \A p \in Publisher : hand[p] = <<>>
    /\ published = <<>> /\ ~pubLost /\ ~draining
    /\ out = <<>> /\ queue = <<>>
    /\ \A i \in DOMAIN requests : requests[i].phase = "answered" /\ ~requests[i].current
    /\ binding.spool = <<>>
    /\ binding.loss => binding.paused

UpToDate == tab = "active" /\ shown = end

(* "Output accepted concurrently may overlap replay, but cannot leave an   *)
(* unreported gap" (terminal-streaming.md): whatever was lost, deferred,   *)
(* reordered or replayed on the way, once everything is at rest the tab    *)
(* shows all output, or has failed and said so - unless it ignored a live  *)
(* chunk too early or forgot a loss, the two defects of the README.        *)
NothingMissing ==
    AtRest => UpToDate \/ tab = "failed" \/ binding.skipped \/ forgotten

(* The statements without the exceptions; they do not hold.                *)
NoGapFed     == tab # "failed" => Continues
TailIsShown  == AtRest /\ ~forgotten => UpToDate \/ tab = "failed"
LossIsKept   == AtRest /\ ~binding.skipped => UpToDate \/ tab = "failed"
RecoveryEnds == <>[](UpToDate \/ tab = "failed" \/ binding.skipped \/ forgotten)

=============================================================================
