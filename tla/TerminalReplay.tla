---------------------------- MODULE TerminalReplay ----------------------------
(***************************************************************************)
(* The bounded replay buffers of the sessions (daemon/terminal_stream.py), *)
(* the daemon-wide replay budget (daemon/session_runtime.py) and a client  *)
(* that pages through the output of one session.                           *)
(*                                                                         *)
(* The byte written at offset i of a session's output is represented by i, *)
(* so that a chunk sliced at the wrong place holds visibly wrong bytes.    *)
(* Every step is one critical section of the runtime's lock.               *)
(***************************************************************************)
EXTENDS Integers, Sequences, FiniteSets, SequencesExt

CONSTANTS
    Session, NoSession,
    MaxBytes,           \* max_bytes of every ring
    GlobalBytes,        \* _global_replay_bytes
    ChunkSize,          \* bound: bytes read from a PTY at once
    PageSize,           \* bound: max_bytes of replay requests
    MaxOutput           \* bound: bytes a session writes in all

ASSUME ReplayAssumption ==
    /\ NoSession \notin Session
    /\ MaxBytes \in Nat \ {0} /\ GlobalBytes \in Nat \ {0}
    /\ ChunkSize \subseteq Nat \ {0} /\ PageSize \subseteq Nat \ {0}
    /\ MaxOutput \in Nat

VARIABLES
    order,      \* _creation_order; its elements are the keys of _records
    opened,     \* history: sessions opened so far
    ring,       \* record.replay
    reader      \* the client: what it asked for and what it was given

vars == <<order, opened, ring, reader>>

\* The bytes of a session's output at the offsets from .. to - 1.
Bytes(from, to) == [i \in 1 .. to - from |-> from + i - 1]

Least(a, b) == IF a < b THEN a ELSE b
Greatest(a, b) == IF a > b THEN a ELSE b

-----------------------------------------------------------------------------
(* TerminalReplayBuffer. *)

EmptyRing == [chunks |-> <<>>, start |-> 0, end |-> 0, retained |-> 0, eof |-> FALSE]

ChunkEnd(c) == c.at + Len(c.data)

\* Mutant: the front of a chunk is cut and its sequence forgotten.
EvictChunkMutant(acc, c) ==
    IF acc.excess = 0 THEN [acc EXCEPT !.chunks = Append(@, c)]
    ELSE LET cut == Least(Len(c.data), acc.excess) IN
         [chunks   |-> IF cut = Len(c.data) THEN acc.chunks
                       ELSE Append(acc.chunks,
                                   [at |-> c.at, data |-> SubSeq(c.data, cut + 1, Len(c.data))]),
          start    |-> c.at + cut,
          retained |-> acc.retained - cut,
          excess   |-> acc.excess - cut]

\* One iteration of _evict: the oldest chunk goes whole, or loses its front.
EvictChunk(acc, c) ==
    IF acc.excess = 0 THEN [acc EXCEPT !.chunks = Append(@, c)]
    ELSE LET cut == Least(Len(c.data), acc.excess) IN
         [chunks   |-> IF cut = Len(c.data) THEN acc.chunks
                       ELSE Append(acc.chunks,
                                   [at   |-> c.at + cut,
                                    data |-> SubSeq(c.data, cut + 1, Len(c.data))]),
          start    |-> c.at + cut,
          retained |-> acc.retained - cut,
          excess   |-> acc.excess - cut]

\* _evict, for the limit in force.
Evict(r, limit) ==
    LET excess == Greatest(0, r.retained - limit)
        after  == FoldLeft(EvictChunk,
                           [chunks |-> <<>>, start |-> r.start, retained |-> r.retained,
                            excess |-> excess],
                           r.chunks)
    IN [r EXCEPT !.chunks = after.chunks, !.retained = after.retained,
                 !.start = IF after.chunks = <<>> THEN r.end ELSE after.start]

Clear(r) == [r EXCEPT !.chunks = <<>>, !.retained = 0, !.start = r.end]

TrimTo(r, limit) == IF limit = 0 THEN Clear(r) ELSE Evict(r, limit)

\* append of n > 0 bytes: a chunk that fills the ring replaces it.
AppendBytes(r, n) ==
    LET end == r.end + n IN
    IF n >= MaxBytes
    THEN [r EXCEPT !.end = end, !.start = end - MaxBytes, !.retained = MaxBytes,
                   !.chunks = <<[at |-> end - MaxBytes, data |-> Bytes(end - MaxBytes, end)]>>]
    ELSE Evict([r EXCEPT !.end = end, !.retained = @ + n,
                         !.chunks = Append(@, [at |-> r.end, data |-> Bytes(r.end, end)])],
               MaxBytes)

\* _slice_chunks: the overlap of every chunk with the offsets from .. to - 1.
SliceChunks(r, from, to) ==
    LET Overlaps(c) == from < to /\ ChunkEnd(c) > from /\ c.at < to
        hit == SelectSeq(r.chunks, Overlaps)
    IN [i \in DOMAIN hit |->
          LET c == hit[i] IN
          [at   |-> Greatest(from, c.at),
           data |-> SubSeq(c.data, Greatest(from, c.at) - c.at + 1,
                                   Least(to, ChunkEnd(c)) - c.at)]]

\* replay: a ReplaySlice.
Replay(r, from, max) ==
    LET first == Greatest(from, r.start)
        next  == Least(r.end, first + max)
    IN [first |-> first, next |-> next, chunks |-> SliceChunks(r, first, next),
        truncated |-> from < r.start \/ next < r.end,
        eof |-> r.eof /\ next = r.end]

-----------------------------------------------------------------------------
(* The daemon-wide budget. *)

Total(rings) == FoldLeft(LAMBDA sum, s : sum + rings[s].retained, 0, order)

\* One iteration of the loop over the sessions to trim.
TrimSession(acc, s) ==
    LET retained == acc.rings[s].retained
        trimmed  == TrimTo(acc.rings[s], Greatest(0, retained - acc.excess))
    IN IF acc.excess <= 0 \/ retained <= 0 THEN acc
       ELSE [rings  |-> [acc.rings EXCEPT ![s] = trimmed],
             excess |-> acc.excess - (retained - trimmed.retained)]

\* Mutant: the writer is not spared.
EnforceGlobalBudgetMutant(rings, prefer) ==
    LET excess == Greatest(0, Total(rings) - GlobalBytes)
    IN FoldLeft(TrimSession, [rings |-> rings, excess |-> excess], order).rings

\* _enforce_global_replay_budget_locked: oldest sessions first, the writer last.
EnforceGlobalBudget(rings, prefer) ==
    LET others == SelectSeq(order, LAMBDA s : s # prefer)
        excess == Greatest(0, Total(rings) - GlobalBytes)
    IN FoldLeft(TrimSession, [rings |-> rings, excess |-> excess],
                Append(others, prefer)).rings

-----------------------------------------------------------------------------
NoReader == [session |-> NoSession, origin |-> 0, pos |-> 0, got |-> <<>>,
             missing |-> {}, eof |-> FALSE]

Init ==
    /\ order = <<>> /\ opened = {}
    /\ ring = [s \in Session |-> EmptyRing]
    /\ reader = NoReader

Live == Range(order)

\* open_session stores a record with a new buffer.
Open(s) ==
    /\ s \notin opened
    /\ opened' = opened \union {s}
    /\ order' = Append(order, s)
    /\ ring' = [ring EXCEPT ![s] = EmptyRing]
    /\ UNCHANGED reader

\* _terminal_output: nothing is taken after the EOF.
Output(s, n) ==
    /\ s \in Live /\ ~ring[s].eof
    /\ ring[s].end + n <= MaxOutput
    /\ ring' = EnforceGlobalBudget([ring EXCEPT ![s] = AppendBytes(@, n)], s)
    /\ UNCHANGED <<order, opened, reader>>

\* _terminal_eof.
Eof(s) ==
    /\ s \in Live /\ ~ring[s].eof
    /\ ring' = [ring EXCEPT ![s].eof = TRUE]
    /\ UNCHANGED <<order, opened, reader>>

\* _evict_closed_locked: the record of a closed session goes with its buffer.
EvictSession(s) ==
    /\ s \in Live /\ ring[s].eof
    /\ \A i \in DOMAIN order : order[i] = s => \A j \in 1 .. i - 1 : ~ring[order[j]].eof
    /\ order' = SelectSeq(order, LAMBDA t : t # s)
    /\ ring' = [ring EXCEPT ![s] = EmptyRing]
    /\ reader' = IF reader.session = s THEN NoReader ELSE reader
    /\ UNCHANGED opened

\* What a client makes of an answer to a request from the offset asked: the
\* bytes of the chunks, and the offsets it is told it will never get.
Received(asked, slice) ==
    [reader EXCEPT !.pos = slice.next,
                   !.got = @ \o FlattenSeq([i \in DOMAIN slice.chunks |-> slice.chunks[i].data]),
                   !.missing = @ \union asked .. slice.first - 1,
                   !.eof = slice.eof]

\* attach_replay sends everything retained from the offset asked for.
AttachReplay(s, from) ==
    /\ reader.session = NoSession /\ s \in Live
    /\ LET asked == Least(from, ring[s].end) IN
       reader' = [Received(asked, Replay(ring[s], asked, MaxBytes))
                    EXCEPT !.session = s, !.origin = asked]
    /\ UNCHANGED <<order, opened, ring>>

\* replay_terminal without after_sequence: from the oldest byte retained.
ReplayOldest(s, max) ==
    /\ reader.session = NoSession /\ s \in Live
    /\ LET asked == ring[s].start IN
       reader' = [Received(asked, Replay(ring[s], asked, max))
                    EXCEPT !.session = s, !.origin = asked]
    /\ UNCHANGED <<order, opened, ring>>

\* Mutant: a page begins at the oldest byte retained.
ReplayNextMutant(max) ==
    LET s == reader.session IN
    /\ s \in Live
    /\ reader' = Received(reader.pos, Replay(ring[s], ring[s].start, max))
    /\ UNCHANGED <<order, opened, ring>>

\* replay_terminal from where the last page ended.
ReplayNext(max) ==
    LET s == reader.session IN
    /\ s \in Live
    /\ reader' = Received(reader.pos, Replay(ring[s], reader.pos, max))
    /\ UNCHANGED <<order, opened, ring>>

Next ==
    \/ \E s \in Session : Open(s) \/ Eof(s) \/ EvictSession(s)
    \/ \E s \in Session, n \in ChunkSize : Output(s, n)
    \/ \E s \in Session, from \in 0 .. MaxOutput : AttachReplay(s, from)
    \/ \E s \in Session, max \in PageSize : ReplayOldest(s, max)
    \/ \E max \in PageSize : ReplayNext(max)

Spec == Init /\ [][Next]_vars

-----------------------------------------------------------------------------
(* Properties. *)

Chunk == [at : 0 .. MaxOutput, data : Seq(0 .. MaxOutput)]

\* Type invariant of the rings, the creation order and the reading client.
TypeOK ==
    /\ order \in Seq(Session) /\ IsInjective(order) /\ opened \subseteq Session
    /\ Live \subseteq opened
    /\ \A s \in Session :
         /\ ring[s].chunks \in Seq(Chunk) /\ ring[s].eof \in BOOLEAN
         /\ {ring[s].start, ring[s].end, ring[s].retained} \subseteq 0 .. MaxOutput
    /\ reader.session \in Session \union {NoSession}
    /\ reader.origin \in 0 .. MaxOutput /\ reader.pos \in 0 .. MaxOutput
    /\ reader.got \in Seq(0 .. MaxOutput) /\ reader.missing \subseteq 0 .. MaxOutput

\* The chunks of a ring are the last retained_bytes of the output, without
\* hole, overlap, empty chunk or misplaced byte, after any mix of appends,
\* partial evictions and trims for the benefit of other sessions.
RingExact ==
    \A s \in Session : LET r == ring[s] IN
        /\ FlattenSeq([i \in DOMAIN r.chunks |-> r.chunks[i].data]) = Bytes(r.start, r.end)
        /\ \A i \in DOMAIN r.chunks :
              r.chunks[i].data # <<>> /\ r.chunks[i].at = r.chunks[i].data[1]
        /\ r.retained = r.end - r.start

\* No ring exceeds its limit, and all of them together stay within the
\* daemon-wide budget, whoever wrote last and whatever was evicted.
BudgetHeld ==
    /\ \A s \in Session : ring[s].retained <= MaxBytes
    /\ Total(ring) <= GlobalBytes

\* Output of one session costs another one bytes only after every older
\* session but the writer has lost everything, and costs the writer bytes to
\* the daemon-wide budget only after all others have lost everything.
TrimOldestFirst ==
    [][\A i \in DOMAIN order : LET s == order[i] IN
         /\ ring'[s].end = ring[s].end /\ ring'[s].retained < ring[s].retained /\ s \in Range(order')
              => \A j \in 1 .. i - 1 : ring'[order[j]].retained = 0
                                         \/ ring'[order[j]].end # ring[order[j]].end
         /\ ring'[s].end # ring[s].end
              /\ ring'[s].retained
                   < Least(MaxBytes, ring[s].retained + ring'[s].end - ring[s].end)
              => \A t \in Live \ {s} : ring'[t].retained = 0]_vars

\* Every answer holds exactly the bytes it claims to, makes progress, is marked
\* truncated exactly when output of the session is missing from it, and carries
\* the EOF exactly when nothing can follow.
ReplayExact ==
    \A s \in Live : \A from \in 0 .. ring[s].end, max \in 1 .. MaxBytes :
        LET r == ring[s]
            a == Replay(r, from, max)
            bytes == FlattenSeq([i \in DOMAIN a.chunks |-> a.chunks[i].data])
        IN /\ bytes = Bytes(a.first, a.next) /\ Len(bytes) <= max
           /\ from < r.end => a.next > from
           /\ a.truncated <=> bytes # Bytes(from, r.end)
           /\ a.eof => r.eof /\ a.next = r.end

\* A client that pages through the output while it is written and evicted gets
\* every byte once, in order, or is told that it is gone; told the EOF, it has
\* been through all of it.
NoSilentGap ==
    reader.session # NoSession =>
        /\ reader.got = SelectSeq(Bytes(reader.origin, reader.pos),
                                  LAMBDA b : b \notin reader.missing)
        /\ reader.eof => reader.pos = ring[reader.session].end

\* The buffers are exact: contents, offsets, bounds and every answer from them.
BuffersExact == TypeOK /\ RingExact /\ BudgetHeld /\ ReplayExact
===============================================================================
