------------------------- MODULE InteractionBroker -------------------------
(***************************************************************************)
(* The authentication prompts of the daemon (interaction_broker.py).  A     *)
(* thread that needs an answer from a person creates an interaction and     *)
(* waits for its result: an askpass worker on behalf of an OpenSSH child,   *)
(* or a command of a client that opened a direct scope.  A client claims    *)
(* the interaction, which gives it a nonce, and answers it: a host key with *)
(* one decision, a secret in two messages (a reservation, then a frame that *)
(* carries the nonce).  Responses race deadlines, disconnections, the end   *)
(* of the session and shutdown.                                             *)
(*                                                                          *)
(* An action is one block that holds self._condition.  Events are           *)
(* published after the block, so the publication of a final state is an     *)
(* action of its own; the events of the other states are left out.  Refused *)
(* requests raise and change nothing, list() and get() only read: neither   *)
(* has an action.                                                           *)
(***************************************************************************)
EXTENDS Naturals, Sequences, FiniteSets, Functions, Selection

CONSTANTS
    Interaction,    \* the interactions one behaviour may create
    Session,        \* session and scope identifiers
    SessionOf,      \* the session each interaction belongs to
    Direct,         \* the direct scopes among the sessions
    Kinds,          \* the types an interaction may have
    Client,
    NoClient,
    Limit,          \* completed_limit: finished records kept
    ScopeClient,    \* the client that opens each direct scope
    MaxClaims       \* bound: claims of each interaction

ASSUME BrokerAssumption ==
    /\ SessionOf \in [Interaction -> Session]
    /\ Kinds \subseteq {"secret", "hostkey", "presence"} /\ "secret" \in Kinds
    /\ Direct \subseteq Session
    \* A direct scope is named for one request, which creates one interaction.
    /\ \A i, j \in Interaction :
           SessionOf[i] = SessionOf[j] /\ SessionOf[i] \in Direct => i = j
    /\ NoClient \notin Client
    /\ Limit \in Nat \ {0}
    /\ ScopeClient \in [Direct -> Client]
    /\ MaxClaims \in [Interaction -> Nat]

VARIABLES
    records,    \* _records: the interactions in it, in insertion order
    completed,  \* _completed, oldest first
    kind,       \* summary.type of each record
    state,      \* summary.state ("absent" before create)
    responder,  \* summary.responder_client_id
    issued,     \* the client each nonce of an open interaction was given to
    nonce,      \* claim_nonce, an index of issued, or 0
    awaiting,   \* the records with awaiting_secret set
    result,     \* record.result
    owner,      \* _direct_scope_owners
    context,    \* the sessions whose askpass context is registered
    closed,     \* _closed
    closer,     \* the thread in close(): "none", "publish", "done", "raised"
    scheduler,  \* the scheduler thread: "run", "exited" or "raised"
    scopes,     \* the scopes the selector thread has yet to cancel
    connected,  \* the clients with a connection
    waiter,     \* the thread that needs the answer
    got,        \* what the result it returned with holds
    unpub,      \* the thread that has yet to publish the final event
    finals,     \* how many final events were published
    mute        \* the final events that an exception lost

vars == <<records, completed, kind, state, responder, issued, nonce, awaiting, result,
          owner, context, closed, closer, scheduler, scopes, connected,
          waiter, got, unpub, finals, mute>>

ring      == <<records, completed>>
claimvars == <<responder, issued, nonce, awaiting>>
eventvars == <<unpub, finals, mute>>

FinalStates == {"answered", "cancelled", "expired"}
OpenStates  == {"pending", "claimed"}

NoResult == [kind |-> "none", claim |-> 0, sent |-> 0]

ResultKinds == {"none", "decision", "refusal", "reserved", "secret"}

\* An InteractionResult: what it holds, the claim it was reserved under and
\* the nonce of the frame its secret came in.
Results == [kind : ResultKinds, claim : Nat, sent : Nat]

Present(i) == i \in Range(records)

Open(i) == Present(i) /\ state[i] \in OpenStates

TypeOK ==
    /\ records \in Seq(Interaction)
    /\ completed \in Seq(Interaction)
    /\ kind \in [Interaction -> Kinds]
    /\ state \in [Interaction -> {"absent"} \union OpenStates \union FinalStates]
    /\ responder \in [Interaction -> Client \union {NoClient}]
    /\ issued \in [Interaction -> Seq(Client)]
    /\ nonce \in [Interaction -> Nat]
    /\ awaiting \subseteq Interaction
    /\ result \in [Interaction -> Results]
    /\ owner \in [Direct -> Client \union {NoClient}]
    /\ context \subseteq Session
    /\ closed \in BOOLEAN
    /\ closer \in {"none", "publish", "done", "raised"}
    /\ scheduler \in {"run", "exited", "raised"}
    /\ scopes \subseteq Direct
    /\ connected \subseteq Client
    /\ waiter \in [Interaction -> {"idle", "ready", "created", "waiting",
                                   "leaving", "left", "returned", "raised"}]
    /\ got \in [Interaction -> ResultKinds]
    /\ unpub \in [Interaction -> {"none", "closer", "other"}]
    /\ finals \in [Interaction -> Nat]
    /\ mute \subseteq Interaction

Init ==
    /\ records = <<>> /\ completed = <<>>
    /\ kind = [i \in Interaction |-> "secret"]
    /\ state = [i \in Interaction |-> "absent"]
    /\ responder = [i \in Interaction |-> NoClient]
    /\ issued = [i \in Interaction |-> <<>>]
    /\ nonce = [i \in Interaction |-> 0]
    /\ awaiting = {}
    /\ result = [i \in Interaction |-> NoResult]
    /\ owner = [s \in Direct |-> NoClient]
    /\ context = Session \ Direct
    /\ closed = FALSE /\ closer = "none" /\ scheduler = "run"
    /\ scopes = {}
    /\ connected = Client
    /\ waiter = [i \in Interaction |-> "idle"]
    /\ got = [i \in Interaction |-> "none"]
    /\ unpub = [i \in Interaction |-> "none"]
    /\ finals = [i \in Interaction |-> 0]
    /\ mute = {}

-----------------------------------------------------------------------------
(* Finishing records.                                                       *)

\* _evict_completed_locked: the ring once done has joined it, oldest first out,
\* and what it drops.
Ring(done) ==
    LET all  == completed \o done
        over == Len(all) - Limit
    IN IF over > 0 THEN SubSeq(all, over + 1, Len(all)) ELSE all

Evicted(done) == Range(completed \o done) \ Range(Ring(done))

\* _finish_locked, for the records of the sequence done, which leave result
\* as res says; by is the thread that publishes.  The nonces of a finished
\* record have no effect any more and are forgotten.
Finish(done, st, res, by) ==
    LET gone == Evicted(done)
        ids  == Range(done)
    IN  /\ completed' = Ring(done)
        /\ records' = Only(records, Interaction \ gone)
        /\ state' = [i \in Interaction |-> IF i \in ids THEN st ELSE state[i]]
        /\ responder' = [i \in Interaction |-> IF i \in ids THEN NoClient ELSE responder[i]]
        /\ nonce' = [i \in Interaction |-> IF i \in ids THEN 0 ELSE nonce[i]]
        /\ awaiting' = awaiting \ (ids \union gone)
        /\ result' = [i \in Interaction |-> IF i \in gone THEN NoResult ELSE res[i]]
        /\ unpub' = [i \in Interaction |-> IF i \in ids THEN by ELSE unpub[i]]
        /\ issued' = [i \in Interaction |-> IF i \in ids THEN <<>> ELSE issued[i]]
        /\ UNCHANGED <<kind, connected, finals>>

Cleared(S) == [i \in Interaction |-> IF i \in S THEN NoResult ELSE result[i]]

\* The records a loop over _records.values() finishes, in dictionary order.
Selected(S) == Only(records, S)

Room == Limit - Len(completed)

\* Such a loop deletes from the dictionary it iterates over as soon as the
\* ring is full: the iterator raises RuntimeError on its next step.
Raises(todo) == Len(todo) > Room

\* The part of the loop that ran.
Swept(todo) == IF Raises(todo) THEN SubSeq(todo, 1, Room + 1) ELSE todo

\* The loop of cancel_session, close and the scheduler.  When it raises, what
\* it finished is not published.
Sweep(todo, st, by) ==
    \E done \in {Swept(todo)} :
        /\ Finish(done, st, Cleared(Range(done)), IF Raises(todo) THEN "none" ELSE by)
        /\ mute' = IF Raises(todo) THEN mute \union Range(done) ELSE mute

\* The publication of a final event, after the lock is released.
PublishFinal(i) ==
    /\ unpub[i] # "none"
    /\ closer # "done"
    /\ unpub' = [unpub EXCEPT ![i] = "none"]
    /\ finals' = [finals EXCEPT ![i] = @ + 1]
    /\ UNCHANGED <<ring, kind, claimvars, state, result, owner, context, closed, closer,
                   scheduler, scopes, connected, waiter, got, mute>>

-----------------------------------------------------------------------------
(* The threads that need an answer.                                         *)

\* An askpass worker classifies the prompt of its SSH child and reads the
\* context of the session.
ReadContext(i, k) ==
    /\ waiter[i] = "idle"
    /\ SessionOf[i] \notin Direct
    /\ SessionOf[i] \in context /\ ~closed
    /\ kind' = [kind EXCEPT ![i] = k]
    /\ waiter' = [waiter EXCEPT ![i] = "ready"]
    /\ UNCHANGED <<ring, claimvars, state, result, owner, context, closed, closer,
                   scheduler, scopes, connected, got, eventvars>>

\* _request_client_secret_result registers the owner of the scope.  The
\* command runs on a thread of the executor: its client may be gone.
OpenScope(i) ==
    /\ waiter[i] = "idle"
    /\ SessionOf[i] \in Direct
    /\ ~closed /\ owner[SessionOf[i]] = NoClient
    /\ owner' = [owner EXCEPT ![SessionOf[i]] = ScopeClient[SessionOf[i]]]
    /\ waiter' = [waiter EXCEPT ![i] = "ready"]
    /\ UNCHANGED <<ring, kind, claimvars, state, result, context, closed, closer,
                   scheduler, scopes, connected, got, eventvars>>

\* create: the context is not looked at again.  A closed broker raises.
Create(i) ==
    /\ waiter[i] = "ready"
    /\ IF closed
       THEN /\ waiter' = [waiter EXCEPT ![i] =
                              IF SessionOf[i] \in Direct THEN "leaving" ELSE "raised"]
            /\ UNCHANGED <<records, state>>
       ELSE /\ records' = Append(records, i)
            /\ state' = [state EXCEPT ![i] = "pending"]
            /\ waiter' = [waiter EXCEPT ![i] = "created"]
    /\ UNCHANGED <<completed, kind, claimvars, result, owner, context, closed, closer,
                   scheduler, scopes, connected, got, eventvars>>

\* Where the waiting thread goes once it has its result.
AfterWait(i) == IF SessionOf[i] \in Direct THEN "leaving" ELSE "returned"

\* _wait_for_result_with_state begins by looking the record up: one that was
\* finished and evicted meanwhile is not found.
BeginWait(i) ==
    /\ waiter[i] = "created"
    /\ waiter' = [waiter EXCEPT ![i] =
                      IF Present(i) THEN "waiting"
                      ELSE IF SessionOf[i] \in Direct THEN "leaving" ELSE "raised"]
    /\ UNCHANGED <<ring, kind, claimvars, state, result, owner, context, closed, closer,
                   scheduler, scopes, connected, got, eventvars>>

\* Mutant: the record keeps the result it handed out.
TakeResultMut(i) ==
    /\ waiter[i] = "waiting"
    /\ state[i] \in FinalStates \/ closed
    /\ waiter' = [waiter EXCEPT ![i] = AfterWait(i)]
    /\ IF state[i] \in {"expired", "cancelled"}
       THEN UNCHANGED <<got, result>>
       ELSE /\ got' = [got EXCEPT ![i] = result[i].kind]
            /\ result' = result
    /\ UNCHANGED <<ring, kind, claimvars, state, owner, context, closed, closer,
                   scheduler, scopes, connected, eventvars>>

\* The wait ends on a final state, or because the broker is closed: an
\* expired or cancelled record gives nothing, any other its result, once.
TakeResult(i) ==
    /\ waiter[i] = "waiting"
    /\ state[i] \in FinalStates \/ closed
    /\ waiter' = [waiter EXCEPT ![i] = AfterWait(i)]
    /\ IF state[i] \in {"expired", "cancelled"}
       THEN UNCHANGED <<got, result>>
       ELSE /\ got' = [got EXCEPT ![i] = result[i].kind]
            /\ result' = [result EXCEPT ![i] = NoResult]
    /\ UNCHANGED <<ring, kind, claimvars, state, owner, context, closed, closer,
                   scheduler, scopes, connected, eventvars>>

\* Mutant: the wait leaves deadlines to the scheduler.
GiveUpMut(i) ==
    /\ waiter[i] = "waiting"
    /\ state[i] \notin FinalStates /\ ~closed
    /\ \E st \in IF SessionOf[i] \in Direct THEN {} ELSE {"cancelled"} :
           Finish(<<i>>, st, Cleared({i}), "other")
    /\ waiter' = [waiter EXCEPT ![i] = AfterWait(i)]
    /\ UNCHANGED <<owner, context, closed, closer, scheduler, scopes, got, mute>>

\* The wait ends an interaction itself, at its deadline or because the askpass
\* helper hung up, which is noticed within a tenth of a second.  It does not
\* depend on the scheduler.
GiveUp(i) ==
    /\ waiter[i] = "waiting"
    /\ state[i] \notin FinalStates /\ ~closed
    /\ \E st \in IF SessionOf[i] \in Direct THEN {"expired"} ELSE {"expired", "cancelled"} :
           Finish(<<i>>, st, Cleared({i}), "other")
    /\ waiter' = [waiter EXCEPT ![i] = AfterWait(i)]
    /\ UNCHANGED <<owner, context, closed, closer, scheduler, scopes, got, mute>>

\* The finally clause of a direct scope drops the owner ...
LeaveScope(i) ==
    /\ waiter[i] = "leaving"
    /\ owner' = [owner EXCEPT ![SessionOf[i]] = NoClient]
    /\ waiter' = [waiter EXCEPT ![i] = "left"]
    /\ UNCHANGED <<ring, kind, claimvars, state, result, context, closed, closer,
                   scheduler, scopes, connected, got, eventvars>>

OfSession(s) ==
    Selected({i \in Interaction : SessionOf[i] = s /\ state[i] \notin FinalStates})

\* ... and cancels what is left of it.
CancelScope(i) ==
    /\ waiter[i] = "left"
    /\ Sweep(OfSession(SessionOf[i]), "cancelled", "other")
    /\ waiter' = [waiter EXCEPT ![i] =
                      IF Raises(OfSession(SessionOf[i])) THEN "raised" ELSE "returned"]
    /\ UNCHANGED <<owner, context, closed, closer, scheduler, scopes, got>>

-----------------------------------------------------------------------------
(* The clients.  Their requests and disconnections are handled on the       *)
(* selector thread, one after another; the same thread closes the broker,    *)
(* which the server forgets before it does.                                 *)

\* _visible_locked: the owner of a direct scope, or a client that can see
\* the session; here every connected client can see the other sessions.
Visible(i, c) == SessionOf[i] \in Direct => owner[SessionOf[i]] = c

Request(i, c) == ~closed /\ scopes = {} /\ c \in connected /\ Open(i)

Responder(i, c) == Request(i, c) /\ Visible(i, c) /\ responder[i] = c

\* claim: a second claim by the same client repeats its nonce.
Claim(i, c) ==
    /\ Request(i, c) /\ Visible(i, c)
    /\ responder[i] = NoClient
    /\ Len(issued[i]) < MaxClaims[i]
    /\ issued' = [issued EXCEPT ![i] = Append(@, c)]
    /\ nonce' = [nonce EXCEPT ![i] = Len(issued[i]) + 1]
    /\ responder' = [responder EXCEPT ![i] = c]
    /\ state' = [state EXCEPT ![i] = "claimed"]
    /\ UNCHANGED <<ring, kind, awaiting, result, owner, context, closed, closer, scheduler,
                   scopes, connected, waiter, got, eventvars>>

\* release: refused once a secret is reserved.
Release(i, c) ==
    /\ Request(i, c) /\ responder[i] = c
    /\ i \notin awaiting
    /\ nonce' = [nonce EXCEPT ![i] = 0]
    /\ responder' = [responder EXCEPT ![i] = NoClient]
    /\ state' = [state EXCEPT ![i] = "pending"]
    /\ UNCHANGED <<ring, kind, issued, awaiting, result, owner, context, closed, closer,
                   scheduler, scopes, connected, waiter, got, eventvars>>

Answer(i, k) == [result EXCEPT ![i] = [kind |-> k, claim |-> nonce[i], sent |-> 0]]

\* respond to a host key confirmation.
Decide(i, c) ==
    /\ Responder(i, c) /\ kind[i] = "hostkey"
    /\ Finish(<<i>>, "answered", Answer(i, "decision"), "other")
    /\ UNCHANGED <<owner, context, closed, closer, scheduler, scopes, waiter,
                   got, mute>>

\* respond with SecretDecision.CANCEL.
Refuse(i, c) ==
    /\ Responder(i, c) /\ kind[i] # "hostkey"
    /\ Finish(<<i>>, "cancelled", Answer(i, "refusal"), "other")
    /\ UNCHANGED <<owner, context, closed, closer, scheduler, scopes, waiter,
                   got, mute>>

\* respond with SecretDecision.SUBMIT reserves the answer.
Reserve(i, c) ==
    /\ Responder(i, c) /\ kind[i] = "secret"
    /\ i \notin awaiting
    /\ awaiting' = awaiting \union {i}
    /\ result' = Answer(i, "reserved")
    /\ UNCHANGED <<ring, kind, responder, issued, nonce, state, owner, context, closed,
                   closer, scheduler, scopes, connected, waiter, got, eventvars>>

\* The nonce of the frame is the one of the present claim.
NonceMatches(i, n) == nonce[i] = n

\* Mutant: the result is cleared when the record is finished.
SubmitSecretMut(i, c, n) ==
    /\ Responder(i, c)
    /\ i \in awaiting
    /\ n \in 1..Len(issued[i]) /\ issued[i][n] = c
    /\ NonceMatches(i, n)
    /\ result[i].kind = "reserved"
    /\ Finish(<<i>>, "answered",
              Cleared({i}), "other")
    /\ UNCHANGED <<owner, context, closed, closer, scheduler, scopes, waiter,
                   got, mute>>

\* submit_secret: a frame carries a nonce its client was given at some time.
SubmitSecret(i, c, n) ==
    /\ Responder(i, c)
    /\ i \in awaiting
    /\ n \in 1..Len(issued[i]) /\ issued[i][n] = c
    /\ NonceMatches(i, n)
    /\ result[i].kind = "reserved"
    /\ Finish(<<i>>, "answered",
              [result EXCEPT ![i] = [kind |-> "secret", claim |-> @.claim, sent |-> n]], "other")
    /\ UNCHANGED <<owner, context, closed, closer, scheduler, scopes, waiter,
                   got, mute>>

\* cancel, as a client requests it.  A final record returns early; its
\* responder is gone, so the client is refused before that.
Cancel(i, c) ==
    /\ Responder(i, c)
    /\ Finish(<<i>>, "cancelled", Cleared({i}), "other")
    /\ UNCHANGED <<owner, context, closed, closer, scheduler, scopes, waiter,
                   got, mute>>

\* disconnect_client: claims are given back, reservations dropped, the scopes
\* of the client forgotten; their interactions are cancelled afterwards.
Disconnect(c) ==
    LET held == {i \in Interaction :
                    Present(i) /\ responder[i] = c /\ state[i] \notin FinalStates}
        mine == {s \in Direct : owner[s] = c}
    IN  /\ ~closed /\ c \in connected /\ scopes = {}
        /\ connected' = connected \ {c}
        /\ owner' = [s \in Direct |-> IF s \in mine THEN NoClient ELSE owner[s]]
        /\ scopes' = mine
        /\ state' = [i \in Interaction |-> IF i \in held THEN "pending" ELSE state[i]]
        /\ responder' = [i \in Interaction |-> IF i \in held THEN NoClient ELSE responder[i]]
        /\ nonce' = [i \in Interaction |-> IF i \in held THEN 0 ELSE nonce[i]]
        /\ result' = Cleared(held \intersect awaiting)
        /\ awaiting' = awaiting \ held
        /\ UNCHANGED <<ring, kind, issued, context, closed, closer, scheduler,
                       waiter, got, eventvars>>

\* The rest of disconnect_client; an exception skips the other scopes.
CancelOwned(s) ==
    /\ s \in scopes
    /\ Sweep(OfSession(s), "cancelled", "other")
    /\ scopes' = IF Raises(OfSession(s)) THEN {} ELSE scopes \ {s}
    /\ UNCHANGED <<owner, context, closed, closer, scheduler, waiter, got>>

-----------------------------------------------------------------------------
(* The end of a session, the scheduler and shutdown.                        *)

\* cancel_session, called when the session exits and again when it closes,
\* and by the launch scopes of the services.
CancelSession(s) ==
    /\ s \notin Direct
    /\ context' = context \ {s}
    /\ Sweep(OfSession(s), "cancelled", "other")
    /\ UNCHANGED <<owner, closed, closer, scheduler, scopes, waiter, got>>

\* Mutant: the scheduler does not skip finished records.
OverdueMut(late) == Selected(late)

Overdue(late) == Selected({i \in late : state[i] \notin FinalStates})

\* One round of _scheduler_main, which finds the deadlines of late passed:
\* time may pass at any moment.  A loop that raises ends the thread.
Expire(late) ==
    /\ scheduler = "run" /\ ~closed
    /\ Overdue(late) # <<>>
    /\ Sweep(Overdue(late), "expired", "other")
    /\ scheduler' = IF Raises(Overdue(late)) THEN "raised" ELSE "run"
    /\ UNCHANGED <<owner, context, closed, closer, scopes, waiter, got>>

SchedulerExits ==
    /\ scheduler = "run" /\ closed
    /\ scheduler' = "exited"
    /\ UNCHANGED <<ring, kind, claimvars, state, result, owner, context, closed, closer,
                   scopes, connected, waiter, got, eventvars>>

AllOpen == Selected({i \in Interaction : state[i] \notin FinalStates})

\* close, up to the release of the lock.
BeginClose ==
    /\ ~closed /\ scopes = {}
    /\ closed' = TRUE
    /\ owner' = [s \in Direct |-> NoClient]
    /\ context' = {}
    /\ Sweep(AllOpen, "cancelled", "closer")
    /\ closer' = IF Raises(AllOpen) THEN "raised" ELSE "publish"
    /\ UNCHANGED <<scheduler, scopes, waiter, got>>

\* The end of close: the publisher is closed once the events of close() are
\* out.  The joins are bounded, so other threads may be late: their
\* publication raises.
EndClose ==
    /\ closer = "publish"
    /\ \A i \in Interaction : unpub[i] # "closer"
    /\ closer' = "done"
    /\ mute' = mute \union {i \in Interaction : unpub[i] = "other"}
    /\ unpub' = [i \in Interaction |-> "none"]
    /\ UNCHANGED <<ring, kind, claimvars, state, result, owner, context, closed, scheduler,
                   scopes, connected, waiter, got, finals>>

Waiting(i) ==
    \/ OpenScope(i) \/ Create(i) \/ BeginWait(i) \/ TakeResult(i)
    \/ GiveUp(i) \/ LeaveScope(i) \/ CancelScope(i)
    \/ \E k \in Kinds : ReadContext(i, k)

Responding(i, c) ==
    \/ Claim(i, c) \/ Release(i, c) \/ Decide(i, c) \/ Refuse(i, c)
    \/ Reserve(i, c) \/ Cancel(i, c)
    \/ \E n \in 1..MaxClaims[i] : SubmitSecret(i, c, n)

Next ==
    \/ \E i \in Interaction :
           \/ Waiting(i) \/ PublishFinal(i)
           \/ \E c \in Client : Responding(i, c)
    \/ \E c \in Client : Disconnect(c)
    \/ \E s \in Session : CancelOwned(s) \/ CancelSession(s)
    \/ \E late \in SUBSET Interaction : Expire(late)
    \/ SchedulerExits \/ BeginClose \/ EndClose

Spec == Init /\ [][Next]_vars

\* The thread that needs an answer runs and time passes.  Nothing makes a
\* person answer, a client leave or a session end; the scheduler and the
\* publications need not run either.
Fairness ==
    \A i \in Interaction :
        WF_vars(Create(i) \/ BeginWait(i) \/ TakeResult(i) \/ GiveUp(i)
                    \/ LeaveScope(i) \/ CancelScope(i))

FairSpec == Spec /\ Fairness

-----------------------------------------------------------------------------
(* Properties.                                                              *)

\* A secret is only accepted in a frame of the claim its answer was reserved
\* under: a frame that was sent under an earlier claim, given back since, is
\* never mixed with the policy of a later reservation (submit_secret).
SecretFromClaim ==
    \A i \in Interaction : result[i].kind = "secret" => result[i].sent = result[i].claim

\* A reserved answer belongs to the present claim of a client that is still
\* connected, and no client can be asked for a secret nobody reserved: what
\* one client began is never completed by another (respond, release,
\* disconnect_client).
ReservationHeld ==
    \A i \in Interaction :
        /\ i \in awaiting =>
               /\ state[i] = "claimed" /\ nonce[i] > 0
               /\ responder[i] \in connected
               /\ issued[i][nonce[i]] = responder[i]
               /\ closed \/ result[i] = [kind |-> "reserved", claim |-> nonce[i], sent |-> 0]
        /\ result[i].kind = "reserved" => i \in awaiting

\* The broker holds a secret only between the frame and the waiting thread:
\* no record that expired, was cancelled or left the ring still has one, nor
\* one whose result was taken (_clear_result_locked at every exit).
SecretsCleared ==
    \A i \in Interaction :
        result[i].kind = "secret" =>
            /\ state[i] = "answered" /\ Present(i)
            /\ waiter[i] \in {"created", "waiting"}

\* The answer a client was told is accepted reaches the thread that waits for
\* it, whatever deadline passes meanwhile; the one exception is a ring that
\* evicts the record first.  No other outcome gives the thread an answer.
AnswerDelivered ==
    \A i \in Interaction :
        /\ waiter[i] \in {"leaving", "left", "returned"} /\ state[i] = "answered" =>
               got[i] \in {"secret", "decision"} \/ ~Present(i)
        /\ got[i] \in {"secret", "decision"} => state[i] = "answered"

\* The ring and the dictionary agree: the finished records are the last Limit
\* ones to finish, each once, and an open record is never evicted.
RetentionExact ==
    /\ Len(completed) <= Limit
    /\ IsInjective(completed)
    /\ \A i \in Interaction :
           /\ state[i] \in OpenStates => Present(i)
           /\ (Present(i) /\ state[i] \in FinalStates) <=> i \in Range(completed)

\* A client is told the end of an interaction once: never twice, whoever races
\* to finish it, and not at all only when an exception lost the event.
FinalToldOnce ==
    \A i \in Interaction :
        /\ finals[i] <= 1
        /\ state[i] \in FinalStates /\ unpub[i] = "none" /\ i \notin mute => finals[i] = 1

\* When close() got past its loop no interaction is open and none can be
\* created: no thread is left waiting for a person who can no longer answer.
ClosedMeansSettled ==
    closer \in {"publish", "done"} => \A i \in Interaction : state[i] \notin OpenStates

\* Exactly one result wins under response, timeout, disconnection, session
\* end and shutdown: a final state is never left for another.
OneOutcome ==
    [][\A i \in Interaction : state[i] \in FinalStates => state'[i] = state[i]]_vars

\* Every thread that needs an answer gets one or gives up, and its interaction
\* ends with it unless shutdown overtakes it: the wait has a deadline of its
\* own and does not need the scheduler, which an exception can end.
WaitEnds ==
    \A i \in Interaction :
        waiter[i] = "ready" ~>
            waiter[i] \in {"returned", "raised"} /\ (state[i] \in FinalStates \/ closed)

\* Secrets are safe: taken only from the client that holds the claim, which
\* keeps its reservation, and gone when the prompt is over.
SecretsSafe == SecretFromClaim /\ ReservationHeld /\ SecretsCleared

\* Answers are sound: delivered to their waiter, their records kept as long as
\* they should be, their end told once, and none open after close().
AnswersSound == /\ TypeOK /\ AnswerDelivered /\ RetentionExact
                /\ FinalToldOnce /\ ClosedMeansSettled
=============================================================================
