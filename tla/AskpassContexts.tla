-------------------------- MODULE AskpassContexts --------------------------
(***************************************************************************)
(* Credentials of the SSH children of one session or operation scope        *)
(* (interaction_broker.py).  Each child has an askpass context.  OpenSSH    *)
(* asks for a password until the server accepts one or its attempts are     *)
(* spent; an askpass worker answers with the stored value, once, and then   *)
(* with what a person types, who may ask to remember it.  What is to be      *)
(* remembered is staged in the context; mark_authenticated commits it to     *)
(* the secret backend, cancel_session discards it.                          *)
(*                                                                          *)
(* An action is one block that holds self._condition, with the backend      *)
(* call or the wait for the person before it.  How a wait ends is the        *)
(* subject of InteractionBroker: here it is a choice.  The ring of finished  *)
(* interactions is taken to be large enough to keep a record until its      *)
(* waiting thread has looked at it.                                         *)
(***************************************************************************)
EXTENDS Naturals, Sequences, FiniteSets

CONSTANTS
    Child,          \* the SSH children of the scope
    Passphrase,     \* those that ask for the passphrase of a key
    MaxPrompts      \* attempts of OpenSSH (NumberOfPasswordPrompts)

ASSUME AskpassAssumption ==
    /\ IsFiniteSet(Child)
    /\ Passphrase \subseteq Child
    /\ MaxPrompts \in Nat \ {0}

VARIABLES
    child,      \* the SSH process: "running", "asking", "judging", "in", "out"
    asked,      \* how often it asked
    accepted,   \* the answer the server accepted
    worker,     \* the askpass worker that serves it
    answer,     \* the value it has in hand
    remember,   \* the person's remember policy for that value
    passive,    \* the children launched AUTOFILL_ONLY
    contexts,   \* the children in _askpass_contexts
    attempt,    \* context.attempts
    tried,      \* the contexts with stored_attempted set
    dismissed,  \* the contexts with cancelled set
    committed,  \* the contexts with commit_point_passed set
    staged,     \* context.pending_remember
    vault,      \* the secret backend: the value stored for each child
    saver,      \* the contexts mark_authenticated has yet to drain
    items,      \* what it took and has yet to store
    marks,      \* calls of mark_authenticated that are due
    offers,     \* how often a stored value was given to the child
    refused,    \* the children whose prompt a person cancelled
    prompts,    \* how many prompts a person saw
    fate        \* history: what became of each value to be remembered

askpassvars ==
    <<child, asked, accepted, worker, answer, remember, passive, contexts,
          attempt, tried, dismissed, committed, staged, vault, saver, items, marks, offers, refused,
          prompts, fate>>

ssh     == <<child, asked, accepted>>
serving == <<worker, answer, remember>>
flags   == <<passive, tried, dismissed, committed>>
store   == <<vault, saver, items, marks>>
history == <<offers, refused, prompts, fate>>

\* The value typed for attempt n is n; 0 is no value.  A stored value from an
\* earlier session is Old.
Old == MaxPrompts + 1

Typed == 1..MaxPrompts

\* A member of pending_remember.
Pending == [value : Typed, reported : BOOLEAN]

\* What became of a value: the person chose to remember it, it was staged,
\* taken for the backend, replaced by a later one, or its loss was logged.
Fates == {"chosen", "staged", "taken", "replaced", "reported"}

AskpassTypeOK ==
    /\ child \in [Child -> {"running", "asking", "judging", "in", "out"}]
    /\ asked \in [Child -> 0..MaxPrompts]
    /\ accepted \in [Child -> 0..Old]
    /\ worker \in [Child -> {"idle", "begin", "read", "lookup", "ask", "prompt",
                             "cancelled", "stage", "reply"}]
    /\ answer \in [Child -> 0..Old]
    /\ remember \in [Child -> BOOLEAN]
    /\ passive \subseteq Child /\ contexts \subseteq Child
    /\ attempt \in [Child -> 0..MaxPrompts]
    /\ tried \subseteq Child /\ dismissed \subseteq Child /\ committed \subseteq Child
    /\ staged \in [Child -> Seq(Pending)]
    /\ vault \in [Child -> 0..Old]
    /\ saver \subseteq Child
    /\ items \in Seq(Child \X Typed)
    /\ marks \in 0..Cardinality(Child)
    /\ offers \in [Child -> Nat]
    /\ refused \subseteq Child
    /\ prompts \in [Child -> 0..MaxPrompts]
    /\ fate \in [Child -> [Typed -> Seq(Fates)]]

AskpassInit ==
    /\ child = [c \in Child |-> "running"]
    /\ asked = [c \in Child |-> 0]
    /\ accepted = [c \in Child |-> 0]
    /\ worker = [c \in Child |-> "idle"]
    /\ answer = [c \in Child |-> 0]
    /\ remember = [c \in Child |-> FALSE]
    /\ passive \in SUBSET Child
    /\ contexts = Child
    /\ attempt = [c \in Child |-> 0]
    /\ tried = {} /\ dismissed = {} /\ committed = {}
    /\ staged = [c \in Child |-> <<>>]
    /\ vault \in [Child -> {0, Old}]
    /\ saver = {} /\ items = <<>> /\ marks = 0
    /\ offers = [c \in Child |-> 0]
    /\ refused = {}
    /\ prompts = [c \in Child |-> 0]
    /\ fate = [c \in Child |-> [n \in Typed |-> <<>>]]

-----------------------------------------------------------------------------
(* OpenSSH, as the broker sees it.                                          *)

\* The child runs its askpass helper, which reaches a worker.
Ask(c) ==
    /\ child[c] = "running" /\ asked[c] < MaxPrompts
    /\ child' = [child EXCEPT ![c] = "asking"]
    /\ asked' = [asked EXCEPT ![c] = @ + 1]
    /\ worker' = [worker EXCEPT ![c] = "begin"]
    /\ UNCHANGED <<accepted, answer, remember, contexts, attempt, flags, staged, store,
                   history>>

\* The helper prints the answer; none counts as a wrong one.
Reply(c) ==
    /\ worker[c] = "reply"
    /\ worker' = [worker EXCEPT ![c] = "idle"]
    /\ child' = [child EXCEPT ![c] = IF answer[c] = 0 THEN "running" ELSE "judging"]
    /\ UNCHANGED <<asked, accepted, answer, remember, contexts, attempt, flags, staged,
                   store, history>>

\* The server accepts the answer, and the owner of the scope will report it.
Accept(c) ==
    /\ child[c] = "judging"
    /\ child' = [child EXCEPT ![c] = "in"]
    /\ accepted' = [accepted EXCEPT ![c] = answer[c]]
    /\ marks' = marks + 1
    /\ UNCHANGED <<asked, serving, contexts, attempt, flags, staged, vault, saver, items,
                   history>>

Reject(c) ==
    /\ child[c] = "judging"
    /\ child' = [child EXCEPT ![c] = "running"]
    /\ UNCHANGED <<asked, accepted, serving, contexts, attempt, flags, staged, store,
                   history>>

\* The child gives up, or is killed while it waits for its helper.
Exit(c) ==
    /\ child[c] \in {"running", "in"}
    /\ child' = [child EXCEPT ![c] = "out"]
    /\ UNCHANGED <<asked, accepted, serving, contexts, attempt, flags, staged, store,
                   history>>

-----------------------------------------------------------------------------
(* _resolve_askpass_secret, on a worker.                                    *)

\* A context a person has dismissed declines every further prompt.
CheckDismissed(c) ==
    /\ worker[c] = "begin"
    /\ answer' = [answer EXCEPT ![c] = 0]
    /\ remember' = [remember EXCEPT ![c] = FALSE]
    /\ worker' = [worker EXCEPT ![c] =
                      IF c \in contexts /\ c \in dismissed THEN "reply" ELSE "read"]
    /\ UNCHANGED <<ssh, contexts, attempt, flags, staged, store, history>>

\* The context is read; without one the prompt is declined.
BeginAttempt(c) ==
    /\ worker[c] = "read"
    /\ IF c \notin contexts
       THEN /\ worker' = [worker EXCEPT ![c] = "reply"]
            /\ UNCHANGED attempt
       ELSE /\ attempt' = [attempt EXCEPT ![c] = @ + 1]
            /\ worker' = [worker EXCEPT ![c] = IF c \in tried THEN "ask" ELSE "lookup"]
    /\ UNCHANGED <<ssh, answer, remember, contexts, flags, staged, store, history>>

\* The backend has a value: it is returned, and the context remembers that.
Autofill(c) ==
    /\ worker[c] = "lookup"
    /\ vault[c] # 0
    /\ tried' = IF c \in contexts THEN tried \union {c} ELSE tried
    /\ answer' = [answer EXCEPT ![c] = vault[c]]
    /\ offers' = [offers EXCEPT ![c] = @ + 1]
    /\ worker' = [worker EXCEPT ![c] = "reply"]
    /\ UNCHANGED <<ssh, remember, contexts, attempt, passive, dismissed, committed, staged, store,
                   refused, prompts, fate>>

\* The backend has none, or fails: a miss does not use the chance up.
LookupMisses(c) ==
    /\ worker[c] = "lookup"
    /\ worker' = [worker EXCEPT ![c] = "ask"]
    /\ UNCHANGED <<ssh, answer, remember, contexts, attempt, flags, staged, store, history>>

\* A passive child gets no prompt; for any other an interaction is created.
CreatePrompt(c) ==
    /\ worker[c] = "ask"
    /\ IF c \in passive
       THEN /\ worker' = [worker EXCEPT ![c] = "reply"]
            /\ UNCHANGED prompts
       ELSE /\ worker' = [worker EXCEPT ![c] = "prompt"]
            /\ prompts' = [prompts EXCEPT ![c] = @ + 1]
    /\ UNCHANGED <<ssh, answer, remember, contexts, attempt, flags, staged, store, offers,
                   refused, fate>>

\* The person submits a value and says whether to remember it.
Submit(c, keep) ==
    /\ worker[c] = "prompt"
    /\ answer' = [answer EXCEPT ![c] = attempt[c]]
    /\ remember' = [remember EXCEPT ![c] = keep]
    /\ worker' = [worker EXCEPT ![c] = IF keep THEN "stage" ELSE "reply"]
    /\ fate' = IF keep THEN [fate EXCEPT ![c][attempt[c]] = Append(@, "chosen")] ELSE fate
    /\ UNCHANGED <<ssh, contexts, attempt, flags, staged, store, offers, refused, prompts>>

\* The person cancels the prompt.
Dismiss(c) ==
    /\ worker[c] = "prompt"
    /\ worker' = [worker EXCEPT ![c] = "cancelled"]
    /\ refused' = refused \union {c}
    /\ UNCHANGED <<ssh, answer, remember, contexts, attempt, flags, staged, store, offers,
                   prompts, fate>>

\* Mutant: the context is not marked.
MarkCancelledMut(c) ==
    /\ worker[c] = "cancelled"
    /\ dismissed' = dismissed
    /\ worker' = [worker EXCEPT ![c] = "reply"]
    /\ UNCHANGED <<ssh, answer, remember, contexts, attempt, passive, tried, committed, staged,
                   store, history>>

\* _mark_context_cancelled.
MarkCancelled(c) ==
    /\ worker[c] = "cancelled"
    /\ dismissed' = IF c \in contexts THEN dismissed \union {c} ELSE dismissed
    /\ worker' = [worker EXCEPT ![c] = "reply"]
    /\ UNCHANGED <<ssh, answer, remember, contexts, attempt, passive, tried, committed, staged,
                   store, history>>

\* The prompt expires unanswered, or its helper hangs up.
Unanswered(c) ==
    /\ worker[c] = "prompt"
    /\ worker' = [worker EXCEPT ![c] = "reply"]
    /\ UNCHANGED <<ssh, answer, remember, contexts, attempt, flags, staged, store, history>>

\* The staged values a new one leaves: a repeated password prompt proves that
\* the previous password failed; passphrases are kept, there may be two keys.
Kept(c) == IF c \in Passphrase THEN staged[c] ELSE <<>>

\* Mutant: the worker stages in the context it read at the start.
StageMut(c) ==
    /\ worker[c] = "stage"
    /\ worker' = [worker EXCEPT ![c] = "reply"]
    /\ IF TRUE
       THEN LET late == c \in committed
                old  == {staged[c][n].value : n \in 1..Len(staged[c]) \ 1..Len(Kept(c))}
            IN  /\ staged' = [staged EXCEPT ![c] =
                                  Append(Kept(c), [value |-> answer[c], reported |-> late])]
                /\ fate' = [fate EXCEPT ![c] =
                       [n \in Typed |->
                           IF n \in old THEN Append(@[n], "replaced")
                           ELSE IF n # answer[c] THEN @[n]
                           ELSE IF late THEN @[n] \o <<"staged", "reported">>
                           ELSE Append(@[n], "staged")]]
       ELSE UNCHANGED <<staged, fate>>
    /\ UNCHANGED <<ssh, answer, remember, contexts, attempt, flags, store, offers, refused,
                   prompts>>

\* The value is staged for the commit if the context is still there; if the
\* session ended meanwhile it is dropped, and nothing is logged.
Stage(c) ==
    /\ worker[c] = "stage"
    /\ worker' = [worker EXCEPT ![c] = "reply"]
    /\ IF c \in contexts
       THEN LET late == c \in committed
                old  == {staged[c][n].value : n \in 1..Len(staged[c]) \ 1..Len(Kept(c))}
            IN  /\ staged' = [staged EXCEPT ![c] =
                                  Append(Kept(c), [value |-> answer[c], reported |-> late])]
                /\ fate' = [fate EXCEPT ![c] =
                       [n \in Typed |->
                           IF n \in old THEN Append(@[n], "replaced")
                           ELSE IF n # answer[c] THEN @[n]
                           ELSE IF late THEN @[n] \o <<"staged", "reported">>
                           ELSE Append(@[n], "staged")]]
       ELSE UNCHANGED <<staged, fate>>
    /\ UNCHANGED <<ssh, answer, remember, contexts, attempt, flags, store, offers, refused,
                   prompts>>

-----------------------------------------------------------------------------
(* The owner of the scope.                                                  *)

\* mark_authenticated lists the open contexts of the session.
MarkAuthenticated ==
    /\ marks > 0
    /\ saver = {} /\ items = <<>>
    /\ marks' = marks - 1
    /\ saver' = contexts
    /\ UNCHANGED <<ssh, serving, contexts, attempt, flags, staged, vault, items, history>>

\* _store_authenticated_secrets takes what is staged in one of them.
TakeStaged(c) ==
    /\ c \in saver /\ items = <<>>
    /\ saver' = saver \ {c}
    /\ IF c \in contexts
       THEN /\ committed' = committed \union {c}
            /\ items' = [n \in 1..Len(staged[c]) |-> <<c, staged[c][n].value>>]
            /\ staged' = [staged EXCEPT ![c] = <<>>]
            /\ fate' = [fate EXCEPT ![c] =
                   [n \in Typed |->
                       IF \E k \in 1..Len(staged[c]) : staged[c][k].value = n
                       THEN Append(@[n], "taken") ELSE @[n]]]
       ELSE UNCHANGED <<committed, items, staged, fate>>
    /\ UNCHANGED <<ssh, serving, contexts, attempt, passive, tried, dismissed, vault, marks, offers,
                   refused, prompts>>

\* It stores the values one by one; a failure of the backend is logged.
StoreItem ==
    /\ items # <<>>
    /\ items' = Tail(items)
    /\ \/ vault' = [vault EXCEPT ![Head(items)[1]] = Head(items)[2]]
       \/ UNCHANGED vault
    /\ UNCHANGED <<ssh, serving, contexts, attempt, flags, staged, saver, marks, history>>

\* _clear_context_locked: what is still staged is discarded, and the loss
\* logged unless that was done already.
Lost(c) == {n \in Typed : \E k \in 1..Len(staged[c]) :
                              staged[c][k] = [value |-> n, reported |-> FALSE]}

\* cancel_session: every context of the session is closed and its prompts
\* are cancelled.
CancelContexts ==
    /\ contexts # {}
    /\ contexts' = {}
    /\ staged' = [c \in Child |-> <<>>]
    /\ fate' = [c \in Child |->
                   [n \in Typed |-> IF n \in Lost(c) THEN Append(fate[c][n], "reported")
                                    ELSE fate[c][n]]]
    /\ worker' = [c \in Child |-> IF worker[c] = "prompt" THEN "cancelled" ELSE worker[c]]
    /\ UNCHANGED <<ssh, answer, remember, attempt, flags, store, offers, refused, prompts>>

AskpassNext ==
    \/ \E c \in Child :
           \/ Ask(c) \/ Reply(c) \/ Accept(c) \/ Reject(c) \/ Exit(c)
           \/ CheckDismissed(c) \/ BeginAttempt(c) \/ Autofill(c) \/ LookupMisses(c)
           \/ CreatePrompt(c) \/ Dismiss(c) \/ MarkCancelled(c) \/ Unanswered(c)
           \/ Stage(c) \/ TakeStaged(c)
           \/ \E keep \in BOOLEAN : Submit(c, keep)
    \/ MarkAuthenticated \/ StoreItem \/ CancelContexts

AskpassSpec == AskpassInit /\ [][AskpassNext]_askpassvars

-----------------------------------------------------------------------------
(* Properties.                                                              *)

\* A worker has the value in hand and has yet to stage it.
InHand(c, n) == worker[c] = "stage" /\ answer[c] = n

\* The context holds the value.
IsStaged(c, n) == \E k \in 1..Len(staged[c]) : staged[c][k].value = n

\* A value the person asked to remember is followed from the answer on.  While
\* its context is open it does not vanish: it is in the hand of the worker, or
\* staged, or it was taken for the backend, replaced by a later answer, or its
\* loss was logged.  Once staged that holds also after the session has ended,
\* and a loss is logged once (_clear_context_locked and the warning at the
\* commit point).
NothingVanishes ==
    \A c \in Child : \A n \in Typed :
        LET logged == {k \in 1..Len(fate[c][n]) : fate[c][n][k] = "reported"}
        IN  /\ Cardinality(logged) <= 1
            /\ fate[c][n] = <<"chosen">> => InHand(c, n) \/ c \notin contexts
            /\ fate[c][n] = <<"chosen", "staged">> => IsStaged(c, n)

\* A closed context holds no secret, and a password context never holds two:
\* a worker that was busy while the session ended stages nothing.
ClosedHoldsNothing ==
    \A c \in Child :
        /\ staged[c] # <<>> => c \in contexts
        /\ c \notin Passphrase => Len(staged[c]) <= 1

\* A stored value is offered to a child at most once, however often OpenSSH
\* asks: a value the server refused is not submitted repeatedly.
AutofillOnce == \A c \in Child : offers[c] <= 1

\* A child whose prompt a person cancelled never shows another one
\* (_mark_context_cancelled, issue #1236).
NoReprompt ==
    [][\A c \in Child : c \in refused => prompts'[c] = prompts[c]]_askpassvars

\* Secrets are accounted for: none vanishes while its context is open or once
\* it was staged, none outlives its context, none is offered twice.
SecretsAccounted == AskpassTypeOK /\ NothingVanishes /\ ClosedHoldsNothing /\ AutofillOnce

\* Only a value that its server accepted is remembered.  The code does not
\* keep this.
OnlyProvenStored ==
    \A c \in Child : vault[c] \in Typed /\ items = <<>> => accepted[c] = vault[c]

\* "otherwise a credential the user explicitly chose to save is discarded
\* without a trace" (comment in _clear_context_locked): whenever it was lost,
\* the loss was logged.  The code does not keep this for a value that is still
\* in the hand of its worker when the session ends.
RememberedLossLogged ==
    \A c \in Child : \A n \in Typed : fate[c][n] = <<"chosen">> => InHand(c, n)
=============================================================================
