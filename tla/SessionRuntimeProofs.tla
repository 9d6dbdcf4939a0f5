------------------------- MODULE SessionRuntimeProofs -------------------------
(***************************************************************************)
(* Proofs about SessionRuntime: the records stay sound and nothing is told *)
(* twice, no opened session is lost, no child is abandoned, the output of  *)
(* a RUNNING session is complete, events come in order and RUNNING means   *)
(* authenticated, for any set of sessions and any setting of the gates.    *)
(*                                                                         *)
(* The inductive invariant, IInv, is types, the retention limit and ten    *)
(* predicates of one session: six about its state, lane, startup, child,   *)
(* verdicts and shutdown (Control), and four about what is told and sent   *)
(* (FreshFits, KindFits, OrderFits, OutputFits).  A step about one session *)
(* is shown to keep them for that session; frame lemmas cover the others.  *)
(***************************************************************************)
EXTENDS SessionRuntime, FiniteSetTheorems, SequenceTheorems, SelectionTheorems, TLAPS

-----------------------------------------------------------------------------
(* The inductive invariant.                                                *)

\* The states a record rests in, and which records the table must hold.
StateFits(s) ==
    /\ state[s] \in {"none", "starting", "running", "closing", "failed", "closed"}
    /\ s \in known => state[s] # "none"
    /\ state[s] \notin {"none", "closed"} => s \in known

\* At most MaxRetained closed records stay in the table.
Retained == Cardinality({s \in known : state[s] = "closed"}) <= MaxRetained

\* Shorthands: the session has ended, a command in its lane, on its way there.
Over(s) == state[s] \in {"closing", "failed", "closed"}
InLane(s, kind) == \E i \in 1..Len(lane[s]) : lane[s][i] = <<s, kind>>
Submitting(s, pc) == step[Selector] = pc /\ target[Selector] = s
Unclaimed(s) == state[s] = "starting" /\ ~rec[s].started

\* The lane of a session: the start command is its first, a close command is
\* only submitted for a session that has left STARTING and RUNNING, and an
\* unclaimed start is on its way.
LaneFits(s) ==
    /\ lane[s] \in Seq({<<s, "start">>, <<s, "close">>})
    /\ \A i \in 1..Len(lane[s]) : lane[s][i] = <<s, "start">> => i = 1
    /\ s \in busy <=> step[Lane(s)] # "idle"
    /\ s \in busy => lane[s] # <<>>
    /\ InLane(s, "close") \/ Submitting(s, "submitClose") => Over(s)
    /\ Unclaimed(s) => /\ step[Lane(s)] \in {"idle", "start"}
                       /\ Submitting(s, "submitStart") \/ InLane(s, "start") \/ s \in toReject

\* The startup happens once: whatever it leaves behind shows that it was
\* claimed, and the child exists only from its spawn on.
StartFits(s) ==
    /\ \/ step[Lane(s)] \in {"launch", "build", "spawn", "spawned", "startFailed", "gate",
                             "attach", "reap", "reaping"}
       \/ proc[s] # "none" \/ grace[s] # "off" \/ todo[Timer(s)] # <<>>
       \/ inflight[s] # "none" \/ notified[s] # {} \/ chunks[s] # 0
       => rec[s].started
    /\ step[Lane(s)] \in {"launch", "build", "spawn"} => proc[s] = "none"
    /\ step[Lane(s)] \in {"launch", "build"} => grace[s] = "off" /\ todo[Timer(s)] = <<>>
    /\ todo[Timer(s)] # <<>> => grace[s] = "off"
    /\ rec[s].exit # "none" => proc[s] = "exited"
    /\ step[Lane(s)] = "bare" => ~rec[s].handle

\* A child that runs unsignalled is in somebody's hands (NoAbandonedProcess).
ChildFits(s) ==
    proc[s] = "alive" => \/ s \in known /\ state[s] # "closed" /\ rec[s].handle
                         \/ step[Lane(s)] \in {"spawned", "gate", "attach", "reap"}
                         \/ ~Serving

\* What the verdicts in transit and in the record were taken from.
VerdictFits(s) ==
    /\ inflight[s] # "none" => inflight[s] \in decisive[s]
    /\ rec[s].result # "none" => rec[s].result \in decisive[s]
    /\ state[s] = "starting" /\ rec[s].started => rec[s].capable = TerminalCapable

\* Shutdown: which sessions may still be STARTING or RUNNING.
ShutFits(s) ==
    /\ s \in toClose \/ target[Closer] = s => state[s] # "none"
    /\ Serving => s \notin toReject /\ s \notin toClose
    /\ state[s] \in {"starting", "running"} =>
          \/ step[Closer] \in {"serving", "stopped", "aborted"}
          \/ s \in toClose /\ step[Closer] \in {"done", "close", "bare", "terminate", "waiting"}
          \/ step[Closer] = "close" /\ target[Closer] = s

\* Effects that publish an event of s, and a thread that owes none about s.
Says(e, s, kind) == e.do = "publish" /\ e.session = s /\ e.what = kind
Owed(s, kind) == \E t \in Thread : \E i \in 1..Len(todo[t]) : Says(todo[t][i], s, kind)
Quiet(t, s) == \A i \in 1..Len(todo[t]) : todo[t][i].session # s

\* Before a session is opened nobody owes an effect about it; until its start is
\* submitted only the selector does, first session.created, then session.starting.
FreshFits(s) ==
    /\ state[s] = "none" =>
          /\ ~rec[s].started /\ lane[s] = <<>> /\ s \notin toReject
          /\ ~Submitting(s, "submitStart") /\ ~Submitting(s, "submitClose")
          /\ \A t \in Thread : Quiet(t, s)
    /\ Submitting(s, "submitStart") =>
          /\ Serving /\ Unclaimed(s) /\ lane[s] = <<>>
          /\ \A t \in Thread \ {Selector} : Quiet(t, s)
          /\ told[s]["created"] = 0 =>
                /\ told[s]["starting"] = 0 /\ Len(todo[Selector]) = 2
                /\ todo[Selector][1] = Effect("publish", s, "created", 0)
                /\ todo[Selector][2] = Effect("publish", s, "starting", 0)
          /\ told[s]["created"] # 0 /\ told[s]["starting"] = 0 =>
                /\ Len(todo[Selector]) = 1
                /\ todo[Selector][1] = Effect("publish", s, "starting", 0)
          /\ told[s]["created"] # 0 /\ told[s]["starting"] # 0 => Len(todo[Selector]) = 0
    /\ state[s] # "none" /\ ~Submitting(s, "submitStart") =>
          told[s]["created"] # 0 /\ told[s]["starting"] # 0

\* The session has been where the event says it is.
Past(s, kind) ==
    CASE kind \in {"created", "starting"} -> state[s] # "none"
      [] kind \in {"running", "authenticated"} -> state[s] \in {"running", "closing", "failed", "closed"}
      [] kind = "closing" -> Over(s)
      [] kind = "failed" -> state[s] \in {"failed", "closed"}
      [] kind \in {"exited", "closed"} -> state[s] = "closed"
      [] OTHER -> "eof" \in notified[s]

\* Every event is owed by at most one thread, once, and never again once told.
KindFits(s, kind) ==
    /\ \A t, u \in Thread : \A i \in 1..Len(todo[t]), j \in 1..Len(todo[u]) :
          Says(todo[t][i], s, kind) /\ Says(todo[u][j], s, kind) => t = u /\ i = j
    /\ told[s][kind] <= 1
    /\ told[s][kind] # 0 => ~Owed(s, kind)
    /\ told[s][kind] # 0 \/ Owed(s, kind) => Past(s, kind)

Returned == step[Closer] = "returned"

\* The authenticated callback comes after session.running and session.exited
\* before session.closed, in the queue of the same thread.
OrderFits(s) ==
    ~Returned => \A t \in Thread : \A i \in 1..Len(todo[t]) :
        /\ Says(todo[t][i], s, "authenticated") =>
              told[s]["running"] # 0 \/ \E j \in 1..(i-1) : Says(todo[t][j], s, "running")
        /\ Says(todo[t][i], s, "exited") =>
              \E j \in (i+1)..Len(todo[t]) : Says(todo[t][j], s, "closed")

\* Chunk n of session s is deferred, owed to the terminal callbacks or delivered.
Deferred(s, n) == \E i \in 1..Len(rec[s].deferred) : rec[s].deferred[i] = n
Sends(e, s, n) == e.do = "output" /\ e.session = s /\ e.chunk = n
Sending(s, n) == \E t \in Thread : \E i \in 1..Len(todo[t]) : Sends(todo[t][i], s, n)
Delivered(s, n) == \E i \in 1..Len(delivered[s]) : delivered[s][i] = n
Flushing(s) == \E t \in Thread : \E i \in 1..Len(todo[t]) :
                   todo[t][i].do = "flush" /\ todo[t][i].session = s

\* Each chunk is in at most one place, and while the session is STARTING or
\* RUNNING in exactly one; deferred output of a RUNNING session is about to be flushed.
OutputFits(s) ==
    /\ \A n \in Nat : Deferred(s, n) \/ Sending(s, n) \/ Delivered(s, n) => n \in 1..chunks[s]
    /\ \A n \in Nat : ~(Deferred(s, n) /\ Sending(s, n)) /\ ~(Deferred(s, n) /\ Delivered(s, n))
                      /\ ~(Sending(s, n) /\ Delivered(s, n))
    /\ \A i, j \in 1..Len(rec[s].deferred) : rec[s].deferred[i] = rec[s].deferred[j] => i = j
    /\ \A i, j \in 1..Len(delivered[s]) : delivered[s][i] = delivered[s][j] => i = j
    /\ \A n \in Nat : \A t, u \in Thread : \A i \in 1..Len(todo[t]), j \in 1..Len(todo[u]) :
          Sends(todo[t][i], s, n) /\ Sends(todo[u][j], s, n) => t = u /\ i = j
    /\ state[s] \in {"starting", "running"} =>
          \A n \in 1..chunks[s] : Deferred(s, n) \/ Sending(s, n) \/ Delivered(s, n)
    /\ state[s] = "running" /\ rec[s].deferred # <<>> => Flushing(s)

\* What a queued event may announce; the selector submits for a session.
EffectFits ==
    /\ \A t \in Thread : \A i \in 1..Len(todo[t]) :
          todo[t][i].do = "publish" => todo[t][i].what \in Kinds
    /\ step[Selector] \in {"submitStart", "submitClose"} => target[Selector] \in Session

-----------------------------------------------------------------------------
(* Threads.                                                                *)

\* The threads that serve all sessions.
Lone == {IO, Reaper, Monitor, Selector, Closer}

\* Every thread index of the model is a thread, and no two coincide.
LEMMA ThreadFacts ==
    /\ Lone \subseteq Thread
    /\ IO # Reaper /\ IO # Monitor /\ IO # Selector /\ IO # Closer
    /\ Reaper # Monitor /\ Reaper # Selector /\ Reaper # Closer
    /\ Monitor # Selector /\ Monitor # Closer /\ Selector # Closer
    /\ \A s \in Session : /\ Lane(s) \in Thread /\ Timer(s) \in Thread
                          /\ Lane(s) \notin Lone /\ Timer(s) \notin Lone
    /\ \A s, r \in Session : /\ Lane(s) # Timer(r)
                             /\ Lane(s) = Lane(r) => s = r
                             /\ Timer(s) = Timer(r) => s = r
  BY DEF Lone, Thread, Lane, Timer, IO, Reaper, Monitor, Selector, Closer

-----------------------------------------------------------------------------
(* Eviction and transitions.                                               *)

\* A nonempty set of naturals has a least member.
LEMMA LeastNatural ==
    ASSUME NEW B \in SUBSET Nat, B # {}
    PROVE  \E m \in B : \A x \in B : m <= x
<1>1. PICK b \in B : TRUE
  OBVIOUS
<1> DEFINE I == {i \in 1..(b+1) : i - 1 \in B}
<1>2. b \in Nat /\ b + 1 \in Nat /\ I \in SUBSET (1..(b+1))
  OBVIOUS
<1>3. b + 1 \in I
  BY <1>2
<1>4. IsFiniteSet(I) /\ Cardinality(I) \in Nat /\ Cardinality(I) # 0
  <2>1. IsFiniteSet(I) /\ Cardinality(I) \in Nat
    BY <1>2, RankProperties
  <2>2. I # {}
    BY <1>3
  <2> QED
    BY <2>1, <2>2, FS_EmptySet
<1>5. PICK i \in I : Rank(I, i) = 1
  <2>1. 1 \in 1..Cardinality(I)
    BY <1>4
  <2> HIDE DEF I
  <2> QED
    BY <1>2, <2>1, RankOnto
<1>6. \A j \in I : i <= j
  <2>1. /\ \A j \in I : Rank(I, j) \in 1..Cardinality(I)
        /\ \A j, k \in I : j < k => Rank(I, j) < Rank(I, k)
    BY <1>2, RankProperties
  <2>2. \A j \in I : j \in Nat
    BY <1>2
  <2>3. ASSUME NEW j \in I, j < i PROVE FALSE
    <3>1. Rank(I, j) < Rank(I, i)
      BY <2>1, <2>3
    <3>2. Rank(I, j) \in 1..Cardinality(I)
      BY <2>1
    <3> QED
      BY <3>1, <3>2, <1>5, <1>4
  <2> HIDE DEF I
  <2> QED
    BY <2>2, <2>3
<1>7. i - 1 \in B /\ i \in 1..(b+1)
  OBVIOUS
<1>8. ASSUME NEW x \in B PROVE i - 1 <= x
  <2>1. x \in Nat
    OBVIOUS
  <2>2. CASE x <= b
    <3>1. x + 1 \in I
      BY <2>1, <2>2, <1>2
    <3>2. i <= x + 1
      BY <3>1, <1>6
    <3> QED
      BY <3>2, <2>1, <1>7, <1>2
  <2>3. CASE x > b
    BY <2>1, <2>3, <1>7, <1>2
  <2> QED
    BY <2>1, <2>2, <2>3, <1>2
<1> QED
  BY <1>7, <1>8

\* What _evict_closed_locked leaves of the closed records is within the bound.
LEMMA EvictBound ==
    ASSUME TypeOK, NEW C \in SUBSET Session
    PROVE  Cardinality(C \ Evicted(C)) <= MaxRetained
<1> DEFINE K == C \ Evicted(C)
           B == {born[x] : x \in K}
<1>1. IsFiniteSet(C)
  BY RuntimeAssumption, FS_Subset
<1>2. K \in SUBSET C
  OBVIOUS
<1>3. IsFiniteSet(K)
  BY <1>1, <1>2, FS_Subset
<1>4. CASE K = {}
  BY <1>4, FS_EmptySet, RuntimeAssumption
<1>5. CASE K # {}
  <2>1. \A x \in Session : born[x] \in Nat
    BY DEF TypeOK
  <2>2. B \in SUBSET Nat /\ B # {}
    BY <2>1, <1>5, <1>2
  <2>3. PICK b \in B : \A x \in B : b <= x
    BY <2>2, LeastNatural
  <2>4. PICK m \in K : b = born[m]
    OBVIOUS
  <2> DEFINE N == {r \in C : born[r] >= born[m]}
  <2>5. m \in C /\ m \in Session /\ ~(Cardinality(N) > MaxRetained)
    BY <2>4 DEF Evicted
  <2>6. N \in SUBSET C
    OBVIOUS
  <2>7. IsFiniteSet(N)
    BY <2>6, <1>1, FS_Subset
  <2>8. Cardinality(N) \in Nat
    BY <2>7, FS_CardinalityType
  <2>9. K \in SUBSET N
    <3>1. ASSUME NEW x \in K PROVE born[x] >= born[m] /\ x \in C
      <4>1. born[x] \in B /\ born[x] \in Nat /\ born[m] \in Nat
        BY <2>1, <2>5
      <4>2. b <= born[x]
        BY <4>1, <2>3
      <4> QED
        BY <4>1, <4>2, <2>4
    <3> QED
      BY <3>1
  <2>10. Cardinality(K) <= Cardinality(N)
    BY <2>7, <2>9, FS_Subset
  <2>11. Cardinality(K) \in Nat
    BY <1>3, FS_CardinalityType
  <2> QED
    BY <2>5, <2>8, <2>10, <2>11, RuntimeAssumption
<1> QED
  BY <1>4, <1>5

\* What the transitions of a section rest on.
Kernel ==
    /\ TypeOK /\ ~fault /\ Retained
    /\ \A s \in Session : StateFits(s)

\* What a critical section of thread t leaves behind: session s in state x with
\* record r, the effects q to be done, and a table that lost closed records only.
Section(t, s, x, r, q) ==
    /\ state' = [state EXCEPT ![s] = x]
    /\ rec' = [rec EXCEPT ![s] = r]
    /\ todo' = [todo EXCEPT ![t] = q]
    /\ born' = born /\ fault' = FALSE
    /\ known' \subseteq known
    /\ \A y \in Session : y \in known /\ state'[y] # "closed" => y \in known'
    /\ Retained'

\* The state machine of record.state, from each state a record rests in.
LEMMA Allowed ==
    /\ AllowedTransitions["starting"] = {"running", "closing", "exited", "failed"}
    /\ AllowedTransitions["running"] = {"closing", "exited", "failed"}
    /\ AllowedTransitions["closing"] = {"exited", "failed", "closed"}
    /\ AllowedTransitions["exited"] = {"closed"}
    /\ AllowedTransitions["failed"] = {"closed"}
  BY DEF AllowedTransitions

\* A critical section that makes no transition.
LEMMA LockedStay ==
    ASSUME Kernel, NEW t \in Thread, NEW s \in Session, NEW r, NEW q \in Seq(EffectType),
           todo[t] = <<>>, Locked(t, s, <<>>, r, q)
    PROVE  Section(t, s, state[s], r, q)
<1>1. state' = [state EXCEPT ![s] = state[s]] /\ known' = known /\ born' = born
      /\ rec' = [rec EXCEPT ![s] = r] /\ todo' = [todo EXCEPT ![t] = q \o todo[t]]
  <2>1. Len(<<>>) = 0
    OBVIOUS
  <2> QED
    BY <2>1 DEF Locked, Transition
<1>2. fault' = fault
  BY DEF Locked, Transition, Kernel, TypeOK
<1>3. q \o todo[t] = q
  BY ConcatEmptySeq
<1>4. state' = state
  BY <1>1 DEF Kernel, TypeOK
<1>5. Retained'
  BY <1>1, <1>4 DEF Kernel, Retained
<1> QED
  BY <1>1, <1>2, <1>3, <1>5 DEF Section, Kernel

\* The closed records after a transition, and what of them is kept.
LEMMA CloseKeeps ==
    ASSUME Kernel, NEW s \in Session, s \in known,
           state' = [state EXCEPT ![s] = "closed"],
           known' = known \ Evicted({y \in known : state[y] = "closed"} \union {s})
    PROVE  /\ known' \subseteq known
           /\ \A y \in Session : y \in known /\ state'[y] # "closed" => y \in known'
           /\ Retained'
<1> DEFINE C == {y \in known : state[y] = "closed"} \union {s}
<1>1. Evicted(C) \subseteq C
  BY DEF Evicted
<1>2. \A y \in Session : state'[y] = IF y = s THEN "closed" ELSE state[y]
  BY DEF Kernel, TypeOK
<1>3. \A y \in Session : y \in known /\ state'[y] # "closed" => y \in known'
  BY <1>1, <1>2
<1>4. C \in SUBSET Session
  BY DEF Kernel, TypeOK
<1>5. {y \in known' : state'[y] = "closed"} = C \ Evicted(C)
  <2>1. known \subseteq Session
    BY DEF Kernel, TypeOK
  <2>2. ASSUME NEW y PROVE (y \in known' /\ state'[y] = "closed") <=> y \in C \ Evicted(C)
    <3> HIDE DEF C
    <3>1. y \in known' <=> y \in known /\ y \notin Evicted(C)
      BY DEF C
    <3>2. y \in known => (state'[y] = "closed" <=> y \in C)
      BY <2>1, <1>2 DEF C
    <3>3. y \in C => y \in known
      BY DEF C
    <3> QED
      BY <3>1, <3>2, <3>3
  <2> HIDE DEF C
  <2> QED
    BY <2>2
<1>6. Cardinality(C \ Evicted(C)) <= MaxRetained
  BY <1>4, EvictBound DEF Kernel
<1> QED
  BY <1>3, <1>5, <1>6 DEF Retained

\* A transition that neither enters nor leaves CLOSED evicts nothing.
LEMMA OpenKeeps ==
    ASSUME Kernel, NEW s \in Session, NEW x, x # "closed", state[s] # "closed",
           state' = [state EXCEPT ![s] = x], known' = known
    PROVE  Retained'
<1>1. \A y \in Session : state'[y] = IF y = s THEN x ELSE state[y]
  BY DEF Kernel, TypeOK
<1>2. known \subseteq Session
  BY DEF Kernel, TypeOK
<1>3. {y \in known' : state'[y] = "closed"} = {y \in known : state[y] = "closed"}
  BY <1>1, <1>2
<1> QED
  BY <1>3 DEF Retained, Kernel

\* A critical section that makes one allowed transition.
LEMMA LockedTo ==
    ASSUME Kernel, NEW t \in Thread, NEW s \in Session, NEW r, NEW q \in Seq(EffectType),
           todo[t] = <<>>, NEW x \in States, Locked(t, s, <<x>>, r, q),
           \/ state[s] = "starting" /\ x \in {"running", "closing", "failed"}
           \/ state[s] = "running" /\ x \in {"closing", "failed"}
           \/ state[s] = "closing" /\ x \in {"failed", "closed"}
           \/ state[s] = "failed" /\ x = "closed"
    PROVE  Section(t, s, x, r, q)
<1>0. Len(<<x>>) = 1 /\ <<x>>[1] = x /\ <<x>> # <<>>
  OBVIOUS
<1>1. /\ state' = [state EXCEPT ![s] = x] /\ born' = born
      /\ known' = IF x = "closed"
                  THEN known \ Evicted({y \in known : state[y] = "closed"} \union {s}) ELSE known
      /\ rec' = [rec EXCEPT ![s] = r] /\ todo' = [todo EXCEPT ![t] = q \o todo[t]]
  BY <1>0 DEF Locked, Transition
<1>2. fault' = FALSE
  <2>1. x \in AllowedTransitions[state[s]]
    BY Allowed
  <2>2. \A i \in 1..Len(<<x>>) : i = 1 /\ i - 1 = 0
    BY <1>0
  <2>3. ~\E i \in 1..Len(<<x>>) :
            <<x>>[i] \notin AllowedTransitions[IF i - 1 = 0 THEN state[s] ELSE <<x>>[i - 1]]
    BY <2>1, <2>2, <1>0
  <2> QED
    BY <2>3 DEF Locked, Transition, Kernel
<1>3. q \o todo[t] = q
  BY ConcatEmptySeq
<1>4. s \in known /\ state[s] # "closed"
  BY DEF Kernel, StateFits
<1>5. /\ known' \subseteq known
      /\ \A y \in Session : y \in known /\ state'[y] # "closed" => y \in known'
      /\ Retained'
  <2>1. CASE x = "closed"
    BY <1>1, <1>4, <2>1, CloseKeeps
  <2>2. CASE x # "closed"
    BY <1>1, <1>4, <2>2, OpenKeeps
  <2> QED
    BY <2>1, <2>2
<1> QED
  BY <1>1, <1>2, <1>3, <1>5 DEF Section

\* A critical section that passes through x to CLOSED.
LEMMA LockedVia ==
    ASSUME Kernel, NEW t \in Thread, NEW s \in Session, NEW r, NEW q \in Seq(EffectType),
           todo[t] = <<>>, NEW x \in {"failed", "exited"},
           Locked(t, s, <<x, "closed">>, r, q),
           state[s] \in {"starting", "running", "closing"}
    PROVE  Section(t, s, "closed", r, q)
<1>0. /\ Len(<<x, "closed">>) = 2 /\ <<x, "closed">>[1] = x /\ <<x, "closed">>[2] = "closed"
      /\ <<x, "closed">> # <<>>
  OBVIOUS
<1>1. /\ state' = [state EXCEPT ![s] = "closed"] /\ born' = born
      /\ known' = known \ Evicted({y \in known : state[y] = "closed"} \union {s})
      /\ rec' = [rec EXCEPT ![s] = r] /\ todo' = [todo EXCEPT ![t] = q \o todo[t]]
  BY <1>0 DEF Locked, Transition
<1>2. fault' = FALSE
  <2>1. x \in AllowedTransitions[state[s]] /\ "closed" \in AllowedTransitions[x]
    BY Allowed
  <2>2. \A i \in 1..Len(<<x, "closed">>) : (i = 1 /\ i - 1 = 0) \/ (i = 2 /\ i - 1 = 1)
    BY <1>0
  <2>3. ~\E i \in 1..Len(<<x, "closed">>) : <<x, "closed">>[i] \notin
            AllowedTransitions[IF i - 1 = 0 THEN state[s] ELSE <<x, "closed">>[i - 1]]
    BY <2>1, <2>2, <1>0
  <2> QED
    BY <2>3 DEF Locked, Transition, Kernel
<1>3. q \o todo[t] = q
  BY ConcatEmptySeq
<1>4. s \in known
  BY DEF Kernel, StateFits
<1>5. /\ known' \subseteq known
      /\ \A y \in Session : y \in known /\ state'[y] # "closed" => y \in known'
      /\ Retained'
  BY <1>1, <1>4, CloseKeeps
<1> QED
  BY <1>1, <1>2, <1>3, <1>5 DEF Section

-----------------------------------------------------------------------------
(* Lists of effects.                                                       *)

\* A list about session s that announces kinds of K, each at most once, the
\* authenticated callback after session.running and session.exited before
\* session.closed.
Tidy(q, s, K) ==
    /\ q \in Seq(EffectType) /\ K \subseteq Kinds
    /\ \A i \in 1..Len(q) : q[i].session = s /\ (q[i].do = "publish" => q[i].what \in K)
    /\ \A kind \in Kinds : \A i, j \in 1..Len(q) :
          Says(q[i], s, kind) /\ Says(q[j], s, kind) => i = j
    /\ \A i \in 1..Len(q) : Says(q[i], s, "authenticated") =>
          \E j \in 1..(i-1) : Says(q[j], s, "running")
    /\ \A i \in 1..Len(q) : Says(q[i], s, "exited") =>
          \E j \in (i+1)..Len(q) : Says(q[j], s, "closed")

\* The effects q send no output; they flush the deferred output of s.
Mute(q) == \A i \in 1..Len(q) : q[i].do # "output"
Flushes(q, s) == \E i \in 1..Len(q) : q[i].do = "flush" /\ q[i].session = s

\* Concatenation, position by position.
LEMMA CatFacts ==
    ASSUME NEW p \in Seq(EffectType), NEW q \in Seq(EffectType)
    PROVE  /\ p \o q \in Seq(EffectType)
           /\ Len(p) \in Nat /\ Len(q) \in Nat /\ Len(p \o q) = Len(p) + Len(q)
           /\ \A i \in 1..Len(p) : (p \o q)[i] = p[i]
           /\ \A i \in 1..Len(q) : (p \o q)[Len(p) + i] = q[i]
           /\ \A i \in 1..Len(p \o q) : \/ i \in 1..Len(p)
                                        \/ \E j \in 1..Len(q) : i = Len(p) + j
<1>1. Len(p) \in Nat /\ Len(q) \in Nat /\ p \o q \in Seq(EffectType)
      /\ Len(p \o q) = Len(p) + Len(q)
  BY LenProperties, ConcatProperties
<1>2. \A i \in 1 .. Len(p) + Len(q) : (p \o q)[i] = IF i <= Len(p) THEN p[i] ELSE q[i - Len(p)]
  BY ConcatProperties
<1>3. \A i \in 1..Len(p) : (p \o q)[i] = p[i]
  BY <1>1, <1>2
<1>4. ASSUME NEW i \in 1..Len(q) PROVE (p \o q)[Len(p) + i] = q[i]
  <2>1. Len(p) + i \in 1..Len(p) + Len(q) /\ ~(Len(p) + i <= Len(p)) /\ Len(p) + i - Len(p) = i
    BY <1>1
  <2> QED
    BY <1>2, <2>1
<1>5. ASSUME NEW i \in 1..Len(p \o q), i \notin 1..Len(p)
      PROVE  \E j \in 1..Len(q) : i = Len(p) + j
  <2>1. i - Len(p) \in 1..Len(q) /\ i = Len(p) + (i - Len(p))
    BY <1>1, <1>5
  <2> QED
    BY <2>1
<1> QED
  BY <1>1, <1>3, <1>4, <1>5

\* Lists that announce different kinds can be put together.
LEMMA TidyCat ==
    ASSUME NEW s \in Session, NEW p, NEW q, NEW K, NEW L,
           Tidy(p, s, K), Tidy(q, s, L), K \cap L = {}
    PROVE  Tidy(p \o q, s, K \union L)
<1> DEFINE c == p \o q
           m == Len(p)
           n == Len(q)
<1>1. p \in Seq(EffectType) /\ q \in Seq(EffectType) /\ K \union L \subseteq Kinds
  BY DEF Tidy
<1>2. /\ c \in Seq(EffectType) /\ m \in Nat /\ n \in Nat /\ Len(c) = m + n
      /\ \A i \in 1..m : c[i] = p[i]
      /\ \A i \in 1..n : c[m + i] = q[i]
      /\ \A i \in 1..Len(c) : i \in 1..m \/ \E j \in 1..n : i = m + j
  BY <1>1, CatFacts
<1> HIDE DEF c, m, n
<1>3. /\ \A i \in 1..m : p[i].session = s /\ (p[i].do = "publish" => p[i].what \in K)
      /\ \A i \in 1..n : q[i].session = s /\ (q[i].do = "publish" => q[i].what \in L)
  BY DEF Tidy, m, n
<1>4. ASSUME NEW i \in 1..Len(c)
      PROVE  c[i].session = s /\ (c[i].do = "publish" => c[i].what \in K \union L)
  <2>1. CASE i \in 1..m
    BY <2>1, <1>2, <1>3
  <2>2. CASE \E j \in 1..n : i = m + j
    BY <2>2, <1>2, <1>3
  <2> QED
    BY <2>1, <2>2, <1>2
<1>5. ASSUME NEW kind \in Kinds, NEW i \in 1..Len(c), NEW j \in 1..Len(c),
             Says(c[i], s, kind), Says(c[j], s, kind)
      PROVE  i = j
  <2>1. CASE i \in 1..m /\ j \in 1..m
    <3>1. Says(p[i], s, kind) /\ Says(p[j], s, kind)
      BY <2>1, <1>5, <1>2
    <3> QED
      BY <3>1, <2>1 DEF Tidy, m
  <2>2. ASSUME NEW k \in 1..n, NEW l \in 1..n, i = m + k, j = m + l PROVE i = j
    <3>1. Says(q[k], s, kind) /\ Says(q[l], s, kind)
      BY <2>2, <1>5, <1>2
    <3>2. k = l
      BY <3>1, <2>2 DEF Tidy, n
    <3> QED
      BY <3>2, <2>2
  <2>3. ASSUME NEW k \in 1..n, NEW l \in 1..m, Says(c[m + k], s, kind), Says(c[l], s, kind)
        PROVE  FALSE
    <3>1. Says(q[k], s, kind) /\ Says(p[l], s, kind)
      BY <2>3, <1>2
    <3>2. kind \in L /\ kind \in K
      BY <3>1, <1>3 DEF Says
    <3> QED
      BY <3>2
  <2> QED
    BY <2>1, <2>2, <2>3, <1>2, <1>5
<1>6. ASSUME NEW i \in 1..Len(c), Says(c[i], s, "authenticated")
      PROVE  \E j \in 1..(i-1) : Says(c[j], s, "running")
  <2>1. CASE i \in 1..m
    <3>1. Says(p[i], s, "authenticated")
      BY <2>1, <1>6, <1>2
    <3>2. PICK j \in 1..(i-1) : Says(p[j], s, "running")
      BY <3>1, <2>1 DEF Tidy, m
    <3>3. j \in 1..m
      BY <2>1, <1>2
    <3> QED
      BY <3>2, <3>3, <1>2
  <2>2. ASSUME NEW k \in 1..n, i = m + k PROVE \E j \in 1..(i-1) : Says(c[j], s, "running")
    <3>1. Says(q[k], s, "authenticated")
      BY <2>2, <1>6, <1>2
    <3>2. PICK j \in 1..(k-1) : Says(q[j], s, "running")
      BY <3>1, <2>2 DEF Tidy, n
    <3>3. j \in 1..n /\ m + j \in 1..(i-1)
      BY <2>2, <1>2
    <3>4. Says(c[m + j], s, "running")
      BY <3>2, <3>3, <1>2
    <3> QED
      BY <3>3, <3>4
  <2> QED
    BY <2>1, <2>2, <1>2
<1>7. ASSUME NEW i \in 1..Len(c), Says(c[i], s, "exited")
      PROVE  \E j \in (i+1)..Len(c) : Says(c[j], s, "closed")
  <2>1. CASE i \in 1..m
    <3>1. Says(p[i], s, "exited")
      BY <2>1, <1>7, <1>2
    <3>2. PICK j \in (i+1)..m : Says(p[j], s, "closed")
      BY <3>1, <2>1 DEF Tidy, m
    <3>3. j \in 1..m /\ j \in (i+1)..Len(c)
      BY <2>1, <1>2
    <3> QED
      BY <3>2, <3>3, <1>2
  <2>2. ASSUME NEW k \in 1..n, i = m + k PROVE \E j \in (i+1)..Len(c) : Says(c[j], s, "closed")
    <3>1. Says(q[k], s, "exited")
      BY <2>2, <1>7, <1>2
    <3>2. PICK j \in (k+1)..n : Says(q[j], s, "closed")
      BY <3>1, <2>2 DEF Tidy, n
    <3>3. j \in 1..n /\ m + j \in (i+1)..Len(c)
      BY <2>2, <1>2
    <3>4. Says(c[m + j], s, "closed")
      BY <3>2, <3>3, <1>2
    <3> QED
      BY <3>3, <3>4
  <2> QED
    BY <2>1, <2>2, <1>2
<1>8. Tidy(c, s, K \union L)
  BY <1>1, <1>2, <1>4, <1>5, <1>6, <1>7 DEF Tidy
<1> QED
  BY <1>8 DEF c

\* The effects a critical section can owe, one by one.
LEMMA TidyOne ==
    ASSUME NEW s \in Session, NEW n \in Nat
    PROVE  /\ Tidy(<<>>, s, {})
           /\ \A kind \in Kinds \ {"authenticated", "exited"} : Tidy(Publish(s, kind), s, {kind})
           /\ Tidy(FinishReadiness(s), s, {}) /\ Tidy(FlushDeferred(s), s, {})
           /\ Tidy(Dispatch(s, n), s, {}) /\ Tidy(DispatchEof(s), s, {"eof"})
<1>1. Tidy(<<>>, s, {})
  BY DEF Tidy
<1>2. ASSUME NEW e \in EffectType, e.session = s,
             e.do = "publish" => e.what \in Kinds \ {"authenticated", "exited"}
      PROVE  Tidy(<<e>>, s, IF e.do = "publish" THEN {e.what} ELSE {})
  <2>1. <<e>> \in Seq(EffectType) /\ Len(<<e>>) = 1 /\ <<e>>[1] = e
        /\ \A i \in 1..Len(<<e>>) : i = 1
    OBVIOUS
  <2> QED
    BY <2>1, <1>2 DEF Tidy, Says
<1>3. ASSUME NEW kind \in Kinds \ {"authenticated", "exited"} PROVE Tidy(Publish(s, kind), s, {kind})
  <2> DEFINE e == Effect("publish", s, kind, 0)
  <2>1. e \in EffectType /\ e.session = s /\ e.do = "publish" /\ e.what = kind
    BY DEF Effect, EffectType
  <2> HIDE DEF e
  <2>2. Tidy(<<e>>, s, {kind})
    BY <1>2, <2>1
  <2> QED
    BY <2>2 DEF Publish, e
<1>4. ASSUME NEW do \in {"finish", "flush", "output"}, NEW k \in Nat
      PROVE  Tidy(<<Effect(do, s, "", k)>>, s, {})
  <2> DEFINE e == Effect(do, s, "", k)
  <2>1. e \in EffectType /\ e.session = s /\ e.do # "publish"
    BY DEF Effect, EffectType
  <2> HIDE DEF e
  <2>2. Tidy(<<e>>, s, {})
    BY <1>2, <2>1
  <2> QED
    BY <2>2 DEF e
<1>5. Tidy(FinishReadiness(s), s, {}) /\ Tidy(FlushDeferred(s), s, {})
  BY <1>4 DEF FinishReadiness, FlushDeferred
<1>6. Tidy(Dispatch(s, n), s, {})
  BY <1>1, <1>4 DEF Dispatch
<1>7. Tidy(<<>>, s, {"eof"})
  BY DEF Tidy, Kinds
<1>8. "eof" \in Kinds \ {"authenticated", "exited"}
  BY DEF Kinds, States
<1>9. Tidy(DispatchEof(s), s, {"eof"})
  BY <1>3, <1>7, <1>8 DEF DispatchEof
<1> QED
  BY <1>1, <1>3, <1>5, <1>6, <1>9

\* A promotion announces RUNNING, then calls back.
LEMMA TidyRunning ==
    ASSUME NEW s \in Session
    PROVE  Tidy(Publish(s, "running") \o NotifyAuthenticated(s), s, {"running", "authenticated"})
<1> DEFINE a == Effect("publish", s, "running", 0)
           b == Effect("publish", s, "authenticated", 0)
           c == <<a>> \o <<b>>
<1>1. /\ a \in EffectType /\ a.session = s /\ a.do = "publish" /\ a.what = "running"
      /\ b \in EffectType /\ b.session = s /\ b.do = "publish" /\ b.what = "authenticated"
  BY DEF Effect, EffectType, Kinds, States
<1> HIDE DEF a, b
<1>2. <<a>> \in Seq(EffectType) /\ <<b>> \in Seq(EffectType) /\ Len(<<a>>) = 1 /\ Len(<<b>>) = 1
      /\ <<a>>[1] = a /\ <<b>>[1] = b
  BY <1>1
<1>3. c \in Seq(EffectType) /\ Len(c) = 2 /\ c[1] = a /\ c[2] = b
  BY <1>2, CatFacts
<1> HIDE DEF c
<1>4. \A i \in 1..Len(c) : i = 1 \/ i = 2
  BY <1>3
<1>5. {"running", "authenticated"} \subseteq Kinds
  BY DEF Kinds, States
<1>6. \A i \in 1..Len(c) : Says(c[i], s, "authenticated") => i = 2
  BY <1>1, <1>3, <1>4 DEF Says
<1>7. Says(c[1], s, "running") /\ \A i \in 1..Len(c) : ~Says(c[i], s, "exited")
  BY <1>1, <1>3, <1>4 DEF Says
<1>8. \A i \in 1..Len(c) : c[i].session = s /\ c[i].what \in {"running", "authenticated"}
  BY <1>1, <1>3, <1>4
<1>9. \A kind \in Kinds : \A i, j \in 1..Len(c) : Says(c[i], s, kind) /\ Says(c[j], s, kind) => i = j
  BY <1>1, <1>3, <1>4 DEF Says
<1>10. \A i \in 1..Len(c) : Says(c[i], s, "authenticated") =>
          \E j \in 1..(i-1) : Says(c[j], s, "running")
  BY <1>6, <1>7
<1>11. Tidy(c, s, {"running", "authenticated"})
  BY <1>3, <1>5, <1>7, <1>8, <1>9, <1>10 DEF Tidy
<1> QED
  BY <1>11 DEF c, a, b, Publish, NotifyAuthenticated

\* The final events announce EXITED, then CLOSED.
LEMMA TidyFinal ==
    ASSUME NEW s \in Session, NEW p, NEW K, Tidy(p, s, K), K \cap {"exited", "closed"} = {}
    PROVE  Tidy(p \o Publish(s, "exited") \o Publish(s, "closed"), s, K \union {"exited", "closed"})
<1> DEFINE x == Publish(s, "exited")
           z == Publish(s, "closed")
           c == x \o z
<1>1. /\ x \in Seq(EffectType) /\ z \in Seq(EffectType) /\ Len(x) = 1 /\ Len(z) = 1
      /\ x[1].session = s /\ x[1].do = "publish" /\ x[1].what = "exited"
      /\ z[1].session = s /\ z[1].do = "publish" /\ z[1].what = "closed"
  BY DEF Publish, Effect, EffectType, Kinds, States
<1> HIDE DEF x, z
<1>2. c \in Seq(EffectType) /\ Len(c) = 2 /\ c[1] = x[1] /\ c[2] = z[1]
  BY <1>1, CatFacts
<1>3. p \o x \o z = p \o c
  BY <1>1, ConcatAssociative DEF Tidy
<1> HIDE DEF c
<1>4. \A i \in 1..Len(c) : i = 1 \/ i = 2
  BY <1>2
<1>5. {"exited", "closed"} \subseteq Kinds
  BY DEF Kinds, States
<1>6. \A i \in 1..Len(c) : Says(c[i], s, "exited") => i = 1
  BY <1>1, <1>2, <1>4 DEF Says
<1>7. Says(c[2], s, "closed") /\ \A i \in 1..Len(c) : ~Says(c[i], s, "authenticated")
  BY <1>1, <1>2, <1>4 DEF Says
<1>8. \A i \in 1..Len(c) : c[i].session = s /\ c[i].what \in {"exited", "closed"}
  BY <1>1, <1>2, <1>4
<1>9. \A kind \in Kinds : \A i, j \in 1..Len(c) : Says(c[i], s, kind) /\ Says(c[j], s, kind) => i = j
  BY <1>1, <1>2, <1>4 DEF Says
<1>10. \A i \in 1..Len(c) : Says(c[i], s, "exited") =>
          \E j \in (i+1)..Len(c) : Says(c[j], s, "closed")
  BY <1>2, <1>6, <1>7
<1>11. Tidy(c, s, {"exited", "closed"})
  BY <1>2, <1>5, <1>7, <1>8, <1>9, <1>10 DEF Tidy
<1>12. Tidy(p \o c, s, K \union {"exited", "closed"})
  BY <1>11, TidyCat
<1> QED
  BY <1>3, <1>12 DEF x, z

\* No list but the output of a terminal calls the terminal back with a chunk.
LEMMA MuteOne ==
    ASSUME NEW s \in Session
    PROVE  /\ Mute(<<>>) /\ Mute(FinishReadiness(s)) /\ Mute(FlushDeferred(s))
           /\ Mute(NotifyAuthenticated(s)) /\ Mute(DispatchEof(s))
           /\ \A kind \in Kinds : Mute(Publish(s, kind))
<1>1. ASSUME NEW e, e.do # "output" PROVE Mute(<<e>>)
  <2>1. Len(<<e>>) = 1 /\ <<e>>[1] = e /\ \A i \in 1..Len(<<e>>) : i = 1
    OBVIOUS
  <2> QED
    BY <1>1, <2>1 DEF Mute
<1>2. Mute(<<>>)
  BY DEF Mute
<1>3. ASSUME NEW kind, NEW do \in {"publish", "finish", "flush"} PROVE Mute(<<Effect(do, s, kind, 0)>>)
  <2>1. Effect(do, s, kind, 0).do # "output"
    BY DEF Effect
  <2> QED
    BY <1>1, <2>1
<1> QED
  BY <1>2, <1>3 DEF FinishReadiness, FlushDeferred, NotifyAuthenticated, DispatchEof, Publish

\* Concatenation of lists without output, and of a list with a flush.
LEMMA MuteCat ==
    ASSUME NEW p \in Seq(EffectType), NEW q \in Seq(EffectType), NEW s
    PROVE  /\ Mute(p) /\ Mute(q) => Mute(p \o q)
           /\ Flushes(p, s) \/ Flushes(q, s) => Flushes(p \o q, s)
<1> DEFINE c == p \o q
<1>1. /\ Len(p) \in Nat /\ Len(q) \in Nat /\ Len(c) = Len(p) + Len(q)
      /\ \A i \in 1..Len(p) : c[i] = p[i]
      /\ \A i \in 1..Len(q) : c[Len(p) + i] = q[i]
      /\ \A i \in 1..Len(c) : i \in 1..Len(p) \/ \E j \in 1..Len(q) : i = Len(p) + j
  BY CatFacts
<1> HIDE DEF c
<1>2. Mute(p) /\ Mute(q) => Mute(c)
  BY <1>1 DEF Mute
<1>3. \A i \in 1..Len(p) : i \in 1..Len(c)
  BY <1>1
<1>4. \A i \in 1..Len(q) : Len(p) + i \in 1..Len(c)
  BY <1>1
<1>5. Flushes(p, s) => Flushes(c, s)
  BY <1>1, <1>3 DEF Flushes
<1>6. Flushes(q, s) => Flushes(c, s)
  BY <1>1, <1>4 DEF Flushes
<1> QED
  BY <1>2, <1>5, <1>6 DEF c

\* FlushDeferred is a flush.
LEMMA FlushOne ==
    ASSUME NEW s \in Session PROVE Flushes(FlushDeferred(s), s)
<1> DEFINE e == Effect("flush", s, "", 0)
<1>1. e.do = "flush" /\ e.session = s
  BY DEF Effect
<1> HIDE DEF e
<1>2. Flushes(<<e>>, s)
  BY <1>1 DEF Flushes
<1> QED
  BY <1>2 DEF FlushDeferred, e

\* The deferred chunks of a session, as calls of the terminal callbacks.
LEMMA DeferredList ==
    ASSUME NEW s \in Session, NEW d \in Seq(Nat)
    PROVE  LET q == DeferredOutputs(s, d) IN
           /\ q \in Seq(EffectType) /\ Len(q) = Len(d) /\ Len(d) \in Nat
           /\ \A i \in 1..Len(d) : q[i].do = "output" /\ q[i].session = s /\ q[i].chunk = d[i]
           /\ Tidy(q, s, {})
<1> DEFINE q == DeferredOutputs(s, d)
<1>1. Len(d) \in Nat /\ \A i \in 1..Len(d) : d[i] \in Nat
  BY LenProperties, ElementOfSeq
<1>2. \A i \in 1..Len(d) : Effect("output", s, "", d[i]) \in EffectType
  BY <1>1 DEF Effect, EffectType
<1>3. q = [i \in 1..Len(d) |-> Effect("output", s, "", d[i])]
  BY DEF DeferredOutputs
<1>4. q \in Seq(EffectType) /\ Len(q) = Len(d)
  <2>1. PICK n \in Nat : n = Len(d)
    BY <1>1
  <2>2. q \in [1..n -> EffectType]
    BY <1>2, <1>3, <2>1
  <2> HIDE DEF q
  <2>3. q \in Seq(EffectType) /\ Len(q) = n
    BY <2>1, <2>2
  <2> QED
    BY <2>1, <2>3
<1>5. \A i \in 1..Len(d) : q[i] = Effect("output", s, "", d[i])
  BY <1>3
<1> HIDE DEF q
<1>6. ASSUME NEW i \in 1..Len(d)
      PROVE  q[i].do = "output" /\ q[i].session = s /\ q[i].chunk = d[i]
  <2>1. q[i] = Effect("output", s, "", d[i])
    BY <1>5
  <2>2. PICK n \in Nat : n = d[i]
    BY <1>1
  <2>3. PICK e : e = q[i]
    OBVIOUS
  <2>4. e = [do |-> "output", session |-> s, what |-> "", chunk |-> n]
    BY <2>1, <2>2, <2>3 DEF Effect
  <2>5. e.do = "output" /\ e.session = s /\ e.chunk = n
    BY <2>4
  <2> QED
    BY <2>2, <2>3, <2>5
<1>7. Tidy(q, s, {})
  BY <1>4, <1>6 DEF Tidy, Says
<1> QED
  BY <1>1, <1>4, <1>6, <1>7 DEF q

-----------------------------------------------------------------------------
(* What a critical section does to the announcements.                      *)

\* The state only moves forward.
Advance(a, x) ==
    \/ x = a
    \/ a = "none" /\ x = "starting"
    \/ a = "starting" /\ x \in {"running", "closing", "failed", "closed"}
    \/ a = "running" /\ x \in {"closing", "failed", "closed"}
    \/ a = "closing" /\ x \in {"failed", "closed"}
    \/ a = "failed" /\ x = "closed"

\* What subscribers are told about session s.
Told(s) == OrderFits(s) /\ \A kind \in Kinds : KindFits(s, kind)

\* What was announced stays true.
LEMMA PastGrows ==
    ASSUME NEW s \in Session, NEW kind \in Kinds, Advance(state[s], state'[s]),
           notified[s] \subseteq notified'[s], Past(s, kind)
    PROVE  Past(s, kind)'
  BY DEF Advance, Past, Over, Kinds, States

\* Steps that touch neither the queues nor the histories.
LEMMA ToldFrame ==
    ASSUME NEW s \in Session, Told(s), todo' = todo, told' = told,
           Advance(state[s], state'[s]), notified[s] \subseteq notified'[s],
           Returned => Returned'
    PROVE  Told(s)'
<1>1. OrderFits(s)'
  BY DEF Told, OrderFits, Returned
<1>2. ASSUME NEW kind \in Kinds PROVE KindFits(s, kind)'
  <2>1. KindFits(s, kind)
    BY DEF Told
  <2>2. Owed(s, kind)' <=> Owed(s, kind)
    BY DEF Owed
  <2>3. Past(s, kind) => Past(s, kind)'
    BY PastGrows
  <2> QED
    BY <2>1, <2>2, <2>3 DEF KindFits
<1> QED
  BY <1>1, <1>2 DEF Told

\* A critical section that owes a tidy list of news about its session.
LEMMA ToldSection ==
    ASSUME TypeOK, NEW t \in Thread, NEW s \in Session, NEW q, NEW K,
           todo[t] = <<>>, Tidy(q, s, K), todo' = [todo EXCEPT ![t] = q], told' = told,
           \A r \in Session : Told(r) /\ Advance(state[r], state'[r])
                                      /\ notified[r] \subseteq notified'[r],
           \A kind \in K : ~Past(s, kind) /\ Past(s, kind)',
           Returned => Returned'
    PROVE  \A r \in Session : Told(r)'
<1>1. todo'[t] = q /\ \A u \in Thread \ {t} : todo'[u] = todo[u]
  BY DEF TypeOK
<1>2. Len(todo[t]) = 0
  OBVIOUS
<1>3. SUFFICES ASSUME NEW r \in Session PROVE Told(r)'
  OBVIOUS
<1>4. ASSUME NEW kind \in Kinds, NEW i \in 1..Len(q), Says(q[i], r, kind)
      PROVE  r = s /\ kind \in K
  BY <1>4 DEF Tidy, Says
<1>5. OrderFits(r)'
  <2>1. SUFFICES ASSUME ~Returned', NEW u \in Thread, NEW i \in 1..Len(todo'[u])
                 PROVE  /\ Says(todo'[u][i], r, "authenticated") =>
                              told'[r]["running"] # 0
                                \/ \E j \in 1..(i-1) : Says(todo'[u][j], r, "running")
                        /\ Says(todo'[u][i], r, "exited") =>
                              \E j \in (i+1)..Len(todo'[u]) : Says(todo'[u][j], r, "closed")
    BY DEF OrderFits
  <2>2. CASE u # t
    <3>1. todo'[u] = todo[u]
      BY <1>1, <2>2
    <3> QED
      BY <3>1, <2>1 DEF Told, OrderFits
  <2>3. CASE u = t
    <3>1. i \in 1..Len(q) /\ todo'[u] = q
      BY <1>1, <2>3
    <3>2. CASE r = s
      BY <3>1, <3>2 DEF Tidy
    <3>3. CASE r # s
      BY <3>1, <3>3 DEF Tidy, Says
    <3> QED
      BY <3>2, <3>3
  <2> QED
    BY <2>2, <2>3
<1>6. ASSUME NEW kind \in Kinds PROVE KindFits(r, kind)'
  <2>0. KindFits(r, kind)
    BY DEF Told
  <2>1. Past(r, kind) => Past(r, kind)'
    BY PastGrows
  <2>2. CASE r = s /\ kind \in K
    <3>1. ~Past(r, kind) /\ Past(r, kind)'
      BY <2>2
    <3>2. told[r][kind] = 0 /\ ~Owed(r, kind)
      BY <3>1, <2>0 DEF KindFits
    <3>3. \A u \in Thread \ {t} : \A i \in 1..Len(todo'[u]) : ~Says(todo'[u][i], r, kind)
      BY <3>2, <1>1 DEF Owed
    <3>4. \A i, j \in 1..Len(q) : Says(q[i], r, kind) /\ Says(q[j], r, kind) => i = j
      BY <2>2 DEF Tidy
    <3>5. ASSUME NEW u \in Thread, NEW v \in Thread, NEW i \in 1..Len(todo'[u]),
                 NEW j \in 1..Len(todo'[v]), Says(todo'[u][i], r, kind), Says(todo'[v][j], r, kind)
          PROVE  u = v /\ i = j
      <4>1. u = t /\ v = t
        BY <3>3, <3>5
      <4> QED
        BY <4>1, <3>4, <3>5, <1>1
    <3> QED
      BY <3>1, <3>2, <3>5 DEF KindFits
  <2>3. CASE ~(r = s /\ kind \in K)
    <3>1. \A i \in 1..Len(todo'[t]) : ~Says(todo'[t][i], r, kind)
      BY <1>1, <1>4, <2>3
    <3>2. Owed(r, kind)' => Owed(r, kind)
      <4>1. ASSUME NEW u \in Thread, NEW i \in 1..Len(todo'[u]), Says(todo'[u][i], r, kind)
            PROVE  Owed(r, kind)
        <5>1. u # t
          BY <3>1, <4>1
        <5>2. todo'[u] = todo[u]
          BY <5>1, <1>1
        <5> QED
          BY <5>2, <4>1 DEF Owed
      <4> QED
        BY <4>1 DEF Owed
    <3>3. ASSUME NEW u \in Thread, NEW v \in Thread, NEW i \in 1..Len(todo'[u]),
                 NEW j \in 1..Len(todo'[v]), Says(todo'[u][i], r, kind), Says(todo'[v][j], r, kind)
          PROVE  u = v /\ i = j
      <4>1. u # t /\ v # t
        BY <3>1, <3>3
      <4>2. todo'[u] = todo[u] /\ todo'[v] = todo[v]
        BY <4>1, <1>1
      <4> QED
        BY <4>2, <3>3, <2>0 DEF KindFits
    <3> QED
      BY <3>2, <3>3, <2>0, <2>1 DEF KindFits
  <2> QED
    BY <2>2, <2>3
<1> QED
  BY <1>5, <1>6 DEF Told

-----------------------------------------------------------------------------
(* What a critical section does to the newly opened session.               *)

\* Steps that touch neither the queues nor the records.
LEMMA FreshFrame ==
    ASSUME NEW s \in Session, FreshFits(s), todo' = todo, told' = told, state' = state, rec' = rec,
           state[s] = "none" \/ Submitting(s, "submitStart")' => lane'[s] = lane[s],
           state[s] = "none" /\ s \in toReject' => s \in toReject,
           state[s] = "none" /\ Submitting(s, "submitClose")' => Submitting(s, "submitClose"),
           Submitting(s, "submitStart")' => Submitting(s, "submitStart") /\ (Serving => Serving'),
           Submitting(s, "submitStart") /\ ~Submitting(s, "submitStart")' => todo[Selector] = <<>>
    PROVE  FreshFits(s)'
<1>1. \A t \in Thread : Quiet(t, s)' <=> Quiet(t, s)
  BY DEF Quiet
<1>2. Unclaimed(s)' <=> Unclaimed(s)
  BY DEF Unclaimed
<1>3. CASE Submitting(s, "submitStart")'
  BY <1>1, <1>2, <1>3 DEF FreshFits
<1>4. CASE ~Submitting(s, "submitStart")'
  <2>1. Submitting(s, "submitStart") => told[s]["created"] # 0 /\ told[s]["starting"] # 0
    <3>1. Submitting(s, "submitStart") => Len(todo[Selector]) = 0
      BY <1>4
    <3> QED
      BY <3>1 DEF FreshFits
  <2> QED
    BY <1>1, <1>4, <2>1 DEF FreshFits
<1> QED
  BY <1>3, <1>4

\* A critical section about a session that is not being submitted, or of the
\* selector that has done what it owed and goes on.
LEMMA FreshSection ==
    ASSUME TypeOK, NEW t \in Thread, NEW s \in Session, NEW q, NEW K,
           todo[t] = <<>>, Tidy(q, s, K), todo' = [todo EXCEPT ![t] = q], told' = told,
           \A r \in Session : FreshFits(r),
           state[s] # "none", state'[s] # "none", ~Submitting(s, "submitStart")',
           Submitting(s, "submitStart") => t = Selector,
           \A r \in Session \ {s} :
              /\ state'[r] = state[r] /\ rec'[r] = rec[r] /\ lane'[r] = lane[r]
              /\ r \in toReject' => r \in toReject
              /\ Submitting(r, "submitClose")' => Submitting(r, "submitClose")
              /\ Submitting(r, "submitStart")' <=> Submitting(r, "submitStart")
              /\ Submitting(r, "submitStart") => t # Selector /\ Serving'
    PROVE  \A r \in Session : FreshFits(r)'
<1>1. todo'[t] = q /\ \A u \in Thread \ {t} : todo'[u] = todo[u]
  BY DEF TypeOK
<1>2. FreshFits(s)'
  <2>1. Submitting(s, "submitStart") => Len(todo[Selector]) = 0
    OBVIOUS
  <2>2. told[s]["created"] # 0 /\ told[s]["starting"] # 0
    BY <2>1 DEF FreshFits
  <2> QED
    BY <2>2 DEF FreshFits
<1>3. ASSUME NEW r \in Session \ {s} PROVE FreshFits(r)'
  <2>1. \A u \in Thread : Quiet(u, r) => Quiet(u, r)'
    <3>1. Quiet(t, r)'
      BY <1>1 DEF Quiet, Tidy
    <3>2. \A u \in Thread \ {t} : Quiet(u, r) => Quiet(u, r)'
      BY <1>1 DEF Quiet
    <3> QED
      BY <3>1, <3>2
  <2>2. Unclaimed(r)' <=> Unclaimed(r)
    BY DEF Unclaimed
  <2>3. Submitting(r, "submitStart") => todo'[Selector] = todo[Selector]
    BY <1>1, ThreadFacts DEF Lone
  <2>4. FreshFits(r)
    OBVIOUS
  <2>5. CASE Submitting(r, "submitStart")
    <3>1. Submitting(r, "submitStart")' /\ Serving' /\ state'[r] = state[r] /\ lane'[r] = lane[r]
      BY <2>5
    <3>2. state[r] # "none"
      BY <2>4, <2>5 DEF FreshFits, Unclaimed
    <3>3. FreshFits(r)'
      BY <2>1, <2>2, <2>3, <2>4, <2>5, <3>1, <3>2 DEF FreshFits
    <3> QED
      BY <3>3
  <2>6. CASE ~Submitting(r, "submitStart")
    <3>1. ~Submitting(r, "submitStart")' /\ state'[r] = state[r] /\ lane'[r] = lane[r]
          /\ rec'[r] = rec[r]
      BY <2>6
    <3> QED
      BY <2>1, <2>4, <2>6, <3>1 DEF FreshFits
  <2> QED
    BY <2>5, <2>6
<1> QED
  BY <1>2, <1>3

-----------------------------------------------------------------------------
(* What a critical section does to the output.                             *)

\* Steps that touch neither the queues, the output nor the state.
LEMMA OutputFrame ==
    ASSUME NEW s \in Session, OutputFits(s), todo' = todo, delivered' = delivered,
           chunks'[s] = chunks[s], state'[s] = state[s], rec'[s].deferred = rec[s].deferred
    PROVE  OutputFits(s)'
<1>1. \A n \in Nat : /\ Deferred(s, n)' <=> Deferred(s, n)
                     /\ Sending(s, n)' <=> Sending(s, n)
                     /\ Delivered(s, n)' <=> Delivered(s, n)
  BY DEF Deferred, Sending, Delivered
<1>2. Flushing(s)' <=> Flushing(s)
  BY DEF Flushing
<1>3. PICK c : c = chunks[s] /\ c = chunks'[s]
  OBVIOUS
<1>4. \A n \in 1..c : n \in Nat
  OBVIOUS
<1> QED
  BY <1>1, <1>2, <1>3, <1>4 DEF OutputFits

\* A critical section that owes no output of the session and defers none.
LEMMA OutputSection ==
    ASSUME TypeOK, NEW t \in Thread, NEW q, NEW r \in Session, OutputFits(r),
           \A i \in 1..Len(q) : q[i].session = r => q[i].do # "output",
           todo[t] = <<>>, todo' = [todo EXCEPT ![t] = q], delivered'[r] = delivered[r],
           chunks'[r] = chunks[r],
           rec'[r].deferred = rec[r].deferred \/ rec'[r].deferred = <<>>,
           state'[r] \in {"starting", "running"} =>
              state[r] \in {"starting", "running"} /\ rec'[r].deferred = rec[r].deferred,
           state'[r] = "running" /\ rec'[r].deferred # <<>> =>
              Flushes(q, r) \/ state[r] = "running"
    PROVE  OutputFits(r)'
<1>1. todo'[t] = q /\ \A u \in Thread \ {t} : todo'[u] = todo[u]
  BY DEF TypeOK
<1>2. Len(todo[t]) = 0 /\ Len(<<>>) = 0
  OBVIOUS
<1>3. \A n \in Nat : \A i \in 1..Len(todo'[t]) : ~Sends(todo'[t][i], r, n)
  BY <1>1 DEF Sends
<1>4. ASSUME NEW n \in Nat PROVE Sending(r, n)' <=> Sending(r, n)
  <2>1. ASSUME NEW u \in Thread, NEW i \in 1..Len(todo'[u]), Sends(todo'[u][i], r, n)
        PROVE  Sending(r, n)
    <3>1. todo'[u] = todo[u]
      BY <1>1, <1>3, <2>1
    <3> QED
      BY <2>1, <3>1 DEF Sending
  <2>2. ASSUME NEW u \in Thread, NEW i \in 1..Len(todo[u]), Sends(todo[u][i], r, n)
        PROVE  Sending(r, n)'
    <3>1. todo'[u] = todo[u]
      BY <1>1, <1>2, <2>2
    <3> QED
      BY <2>2, <3>1 DEF Sending
  <2> QED
    BY <2>1, <2>2 DEF Sending
<1>5. ASSUME NEW n \in Nat PROVE Deferred(r, n)' => Deferred(r, n)
  BY <1>2 DEF Deferred
<1>6. \A n \in Nat : Delivered(r, n)' <=> Delivered(r, n)
  BY DEF Delivered
<1>7. ASSUME NEW n \in Nat, NEW u \in Thread, NEW v \in Thread, NEW i \in 1..Len(todo'[u]),
             NEW j \in 1..Len(todo'[v]), Sends(todo'[u][i], r, n), Sends(todo'[v][j], r, n)
      PROVE  u = v /\ i = j
  <2>1. todo'[u] = todo[u] /\ todo'[v] = todo[v]
    BY <1>1, <1>3, <1>7
  <2> QED
    BY <2>1, <1>7 DEF OutputFits
<1>8. \A i, j \in 1..Len(rec'[r].deferred) : rec'[r].deferred[i] = rec'[r].deferred[j] => i = j
  BY <1>2 DEF OutputFits
<1>9. ASSUME state'[r] \in {"starting", "running"}, NEW n \in 1..chunks'[r]
      PROVE  (Deferred(r, n) \/ Sending(r, n) \/ Delivered(r, n))'
  <2>1. n \in Nat /\ n \in 1..chunks[r]
    BY <1>9
  <2>2. Deferred(r, n) \/ Sending(r, n) \/ Delivered(r, n)
    BY <1>9, <2>1 DEF OutputFits
  <2>3. Deferred(r, n) => Deferred(r, n)'
    BY <1>9 DEF Deferred
  <2> QED
    BY <2>1, <2>2, <2>3, <1>4, <1>6
<1>10. ASSUME state'[r] = "running", rec'[r].deferred # <<>> PROVE Flushing(r)'
  <2>1. CASE Flushes(q, r)
    BY <2>1, <1>1 DEF Flushes, Flushing
  <2>2. CASE state[r] = "running"
    <3>1. PICK u \in Thread : \E i \in 1..Len(todo[u]) :
             todo[u][i].do = "flush" /\ todo[u][i].session = r
      BY <1>10, <2>2 DEF OutputFits, Flushing
    <3>2. todo'[u] = todo[u]
      BY <3>1, <1>1, <1>2
    <3> QED
      BY <3>1, <3>2 DEF Flushing
  <2> QED
    BY <1>10, <2>1, <2>2
<1>11. \A n \in Nat : Deferred(r, n)' \/ Sending(r, n)' \/ Delivered(r, n)' => n \in 1..chunks'[r]
  BY <1>4, <1>5, <1>6 DEF OutputFits
<1>12. \A n \in Nat : /\ ~(Deferred(r, n)' /\ Sending(r, n)') /\ ~(Deferred(r, n)' /\ Delivered(r, n)')
                      /\ ~(Sending(r, n)' /\ Delivered(r, n)')
  BY <1>4, <1>5, <1>6 DEF OutputFits
<1>13. \A i, j \in 1..Len(delivered'[r]) : delivered'[r][i] = delivered'[r][j] => i = j
  BY DEF OutputFits
<1> QED
  BY <1>7, <1>8, <1>9, <1>10, <1>11, <1>12, <1>13 DEF OutputFits

-----------------------------------------------------------------------------
(* The invariant, and how a step about one session keeps it.               *)

\* Where session s, its commands and its child are.
Control(s) ==
    StateFits(s) /\ LaneFits(s) /\ StartFits(s) /\ ChildFits(s) /\ VerdictFits(s) /\ ShutFits(s)

\* The lanes, which the type invariant leaves to the executor.
LaneTypes == lane \in [Session -> Seq(Session \X {"start", "close"})] /\ busy \subseteq Session

\* The inductive invariant.
IInv ==
    /\ TypeOK /\ LaneTypes /\ ~fault /\ Retained /\ EffectFits
    /\ \A s \in Session : Control(s) /\ FreshFits(s) /\ Told(s) /\ OutputFits(s)

\* The control points of TypeOK.
Pcs == {"idle", "submitStart", "submitClose", "start", "launch",
        "build", "spawn", "spawned", "startFailed", "gate", "attach", "reap", "reaping",
        "close", "bare", "terminate", "waiting", "done", "serving", "stopped",
        "aborted", "cleared", "runnerClosed", "returned"}

\* The types of the variables that are not part of a critical section.
OtherTypes ==
    /\ LaneTypes
    /\ step \in [Thread -> Pcs]
    /\ target \in [{Selector, Closer} -> Session \union {NoSession}]
    /\ toReject \subseteq Session /\ toClose \subseteq Session
    /\ proc \in [Session -> {"none", "alive", "signalled", "exited"}]
    /\ exitCode \in [Session -> {"none", "clean", "error", "fatal"}]
    /\ notified \in [Session -> SUBSET {"exit", "eof"}]
    /\ evidence \in [Session -> {"pending", "connected", "failed"}]
    /\ chunks \in [Session -> Nat]
    /\ lease \in [Session -> {"none", "subscribed", "engaged", "orphan"}]
    /\ decisive \in [Session -> SUBSET {"auth", "failed"}]
    /\ inflight \in [Session -> {"none", "auth", "failed"}]
    /\ grace \in [Session -> {"off", "armed", "fired"}]
    /\ told \in [Session -> [Kinds -> Nat]]
    /\ delivered \in [Session -> Seq(Nat)]
    /\ closes \in [Session -> Nat]

\* Session r is left alone by its lane, its child and its diagnostics, ...
SameSession(r) ==
    /\ lane'[r] = lane[r] /\ (r \in busy' <=> r \in busy) /\ step'[Lane(r)] = step[Lane(r)]
    /\ proc'[r] = proc[r] /\ grace'[r] = grace[r] /\ inflight'[r] = inflight[r]
    /\ notified'[r] = notified[r] /\ chunks'[r] = chunks[r] /\ decisive'[r] = decisive[r]

\* ... and by the selector and the closer, which at most goes on with another one.
SameServer(r) ==
    /\ Submitting(r, "submitStart")' <=> Submitting(r, "submitStart")
    /\ Submitting(r, "submitClose")' <=> Submitting(r, "submitClose")
    /\ (r \in toReject' <=> r \in toReject) /\ (r \in toClose' <=> r \in toClose)
    /\ target'[Closer] = target[Closer]
    /\ \/ step'[Closer] = step[Closer]
       \/ /\ step[Closer] \in {"close", "bare", "terminate", "waiting"}
          /\ step'[Closer] \in {"done", "bare", "terminate", "waiting", "aborted"}
          /\ step[Closer] = "close" => target[Closer] # r

\* Session r and its place in the table stay.
SameRecord(r) ==
    /\ state'[r] = state[r] /\ rec'[r] = rec[r]
    /\ r \in known' => r \in known
    /\ r \in known /\ state[r] # "closed" => r \in known'

\* What the invariant says of the control of a session survives a step about another.
LEMMA ControlFrame ==
    ASSUME NEW r \in Session, Control(r), SameRecord(r), SameSession(r), SameServer(r),
           todo'[Timer(r)] = todo[Timer(r)]
    PROVE  Control(r)'
<1>1. StateFits(r)'
  BY DEF Control, StateFits, SameRecord
<1>2. LaneFits(r)'
  BY DEF Control, LaneFits, SameRecord, SameSession, SameServer, Over, InLane, Unclaimed
<1>3. StartFits(r)'
  BY DEF Control, StartFits, SameRecord, SameSession
<1>4. ChildFits(r)'
  BY DEF Control, ChildFits, SameRecord, SameSession, SameServer, Serving
<1>5. VerdictFits(r)'
  BY DEF Control, VerdictFits, SameRecord, SameSession
<1>6. ShutFits(r)'
  BY DEF Control, ShutFits, SameRecord, SameServer, Serving
<1> QED
  BY <1>1, <1>2, <1>3, <1>4, <1>5, <1>6 DEF Control

\* A critical section of thread t about session s, whatever else it moves of s.
LEMMA SectionInvariant ==
    ASSUME IInv, NEW t \in Thread, NEW s \in Session, NEW q, NEW K,
           NEW x \in States \union {"none"}, NEW r \in RecordType,
           todo[t] = <<>>, Tidy(q, s, K), Section(t, s, x, r, q), told' = told,
           state[s] # "none", x # "none", Advance(state[s], x),
           OtherTypes', notified[s] \subseteq notified'[s], Returned => Returned',
           \A kind \in K : ~Past(s, kind) /\ Past(s, kind)',
           step'[Selector] \in {"submitStart", "submitClose"} => target'[Selector] \in Session,
           ~Submitting(s, "submitStart")', Submitting(s, "submitStart") => t = Selector,
           \A y \in Session \ {s} : /\ SameSession(y) /\ SameServer(y)
                                    /\ delivered'[y] = delivered[y] /\ t # Timer(y)
                                    /\ Submitting(y, "submitStart") => t # Selector,
           Control(s)', OutputFits(s)'
    PROVE  IInv'
<1>0. TypeOK /\ ~fault /\ EffectFits /\ q \in Seq(EffectType)
      /\ \A y \in Session : Control(y) /\ FreshFits(y) /\ Told(y) /\ OutputFits(y)
  BY DEF IInv, Tidy
<1>1. /\ state'[s] = x /\ rec'[s] = r /\ todo'[t] = q
      /\ \A y \in Session \ {s} : state'[y] = state[y] /\ rec'[y] = rec[y]
      /\ \A u \in Thread \ {t} : todo'[u] = todo[u]
      /\ todo' = [todo EXCEPT ![t] = q]
  BY <1>0 DEF Section, TypeOK
<1>2. \A y \in Session \ {s} : SameRecord(y)
  <2>1. \A y \in Session \ {s} : y \in known' => y \in known
    BY DEF Section
  <2>2. \A y \in Session \ {s} : y \in known /\ state[y] # "closed" => y \in known'
    BY <1>1 DEF Section
  <2> QED
    BY <1>1, <2>1, <2>2 DEF SameRecord
<1>3. TypeOK'
  <2>1. state' \in [Session -> States \union {"none"}] /\ rec' \in [Session -> RecordType]
    BY <1>0 DEF Section, TypeOK
  <2>2. known' \subseteq Session /\ born' \in [Session -> Nat] /\ fault' \in BOOLEAN
    BY <1>0 DEF Section, TypeOK
  <2>3. todo' \in [Thread -> Seq(EffectType)]
    BY <1>0, <1>1 DEF TypeOK
  <2> QED
    BY <2>1, <2>2, <2>3 DEF TypeOK, OtherTypes, Pcs
<1>4. ~fault' /\ Retained'
  BY DEF Section
<1>5. EffectFits'
  <2>1. ASSUME NEW u \in Thread, NEW i \in 1..Len(todo'[u]), todo'[u][i].do = "publish"
        PROVE  todo'[u][i].what \in Kinds
    <3>1. CASE u = t
      BY <3>1, <2>1, <1>1 DEF Tidy
    <3>2. CASE u # t
      BY <3>2, <2>1, <1>1, <1>0 DEF EffectFits
    <3> QED
      BY <3>1, <3>2
  <2> QED
    BY <2>1 DEF EffectFits
<1>6. \A y \in Session : Told(y)'
  <2>1. \A y \in Session : Told(y) /\ Advance(state[y], state'[y]) /\ notified[y] \subseteq notified'[y]
    BY <1>0, <1>1 DEF Advance, SameSession
  <2> QED
    BY <1>0, <1>1, <2>1, ToldSection
<1>7. \A y \in Session : FreshFits(y)'
  <2>1. ASSUME NEW y \in Session \ {s}
        PROVE  /\ state'[y] = state[y] /\ rec'[y] = rec[y] /\ lane'[y] = lane[y]
               /\ y \in toReject' => y \in toReject
               /\ Submitting(y, "submitClose")' => Submitting(y, "submitClose")
               /\ Submitting(y, "submitStart")' <=> Submitting(y, "submitStart")
               /\ Submitting(y, "submitStart") => t # Selector /\ Serving'
    <3>1. Submitting(y, "submitStart") => Serving
      BY <1>0 DEF FreshFits
    <3>2. Serving => Serving'
      BY DEF SameServer, Serving
    <3> QED
      BY <1>1, <3>1, <3>2 DEF SameSession, SameServer
  <2>2. state'[s] # "none" /\ \A y \in Session : FreshFits(y)
    BY <1>0, <1>1
  <2> QED
    BY <1>0, <1>1, <2>1, <2>2, FreshSection
<1>8. \A y \in Session \ {s} : Control(y)'
  <2>1. ASSUME NEW y \in Session \ {s} PROVE Control(y)'
    <3>1. todo'[Timer(y)] = todo[Timer(y)]
      BY <1>1, ThreadFacts
    <3> QED
      BY <3>1, <1>0, <1>2, ControlFrame
  <2> QED
    BY <2>1
<1>9. \A y \in Session \ {s} : OutputFits(y)'
  <2>1. ASSUME NEW y \in Session \ {s} PROVE OutputFits(y)'
    <3>1. \A i \in 1..Len(q) : q[i].session = y => q[i].do # "output"
      BY DEF Tidy
    <3>2. delivered'[y] = delivered[y] /\ chunks'[y] = chunks[y]
      BY DEF SameSession
    <3>3. OutputFits(y) /\ state'[y] = state[y] /\ rec'[y].deferred = rec[y].deferred
      BY <1>0, <1>1
    <3>4. TypeOK /\ q \in Seq(EffectType) /\ todo' = [todo EXCEPT ![t] = q] /\ todo[t] = <<>>
      BY <1>0, <1>1
    <3>5. state'[y] = "running" /\ rec'[y].deferred # <<>> => Flushes(q, y) \/ state[y] = "running"
      BY <3>3
    <3>6. state'[y] \in {"starting", "running"} =>
             state[y] \in {"starting", "running"} /\ rec'[y].deferred = rec[y].deferred
      BY <3>3
    <3> HIDE DEF OutputFits
    <3> QED
      BY <3>1, <3>2, <3>3, <3>4, <3>5, <3>6, OutputSection
  <2> QED
    BY <2>1
<1> QED
  BY <1>3, <1>4, <1>5, <1>6, <1>7, <1>8, <1>9 DEF IInv, OtherTypes

\* A step that touches neither the records nor the queues.
LEMMA PlainInvariant ==
    ASSUME IInv, UNCHANGED <<recordVars, todo, toldVars, notified, chunks>>,
           OtherTypes', Returned => Returned',
           step'[Selector] \in {"submitStart", "submitClose"} => target'[Selector] \in Session,
           \A y \in Session :
              /\ Control(y)'
              /\ state[y] = "none" \/ Submitting(y, "submitStart")' => lane'[y] = lane[y]
              /\ state[y] = "none" /\ y \in toReject' => y \in toReject
              /\ state[y] = "none" /\ Submitting(y, "submitClose")' => Submitting(y, "submitClose")
              /\ Submitting(y, "submitStart")' => Submitting(y, "submitStart") /\ (Serving => Serving')
              /\ Submitting(y, "submitStart") /\ ~Submitting(y, "submitStart")' => todo[Selector] = <<>>
    PROVE  IInv'
<1>0. TypeOK /\ ~fault /\ Retained /\ EffectFits
      /\ \A y \in Session : Control(y) /\ FreshFits(y) /\ Told(y) /\ OutputFits(y)
  BY DEF IInv
<1>1. state' = state /\ rec' = rec /\ known' = known /\ born' = born /\ fault' = fault
      /\ todo' = todo /\ told' = told /\ delivered' = delivered /\ notified' = notified
      /\ chunks' = chunks
  BY DEF recordVars, toldVars
<1>2. TypeOK'
  <2>1. /\ state' \in [Session -> States \union {"none"}] /\ rec' \in [Session -> RecordType]
        /\ known' \subseteq Session /\ born' \in [Session -> Nat] /\ fault' \in BOOLEAN
        /\ todo' \in [Thread -> Seq(EffectType)]
    BY <1>0, <1>1 DEF TypeOK
  <2> QED
    BY <2>1 DEF TypeOK, OtherTypes, Pcs
<1>3. ~fault' /\ Retained' /\ EffectFits'
  BY <1>0, <1>1 DEF Retained, EffectFits
<1>4. ASSUME NEW y \in Session PROVE FreshFits(y)' /\ Told(y)' /\ OutputFits(y)'
  <2>1. FreshFits(y)'
    BY <1>0, <1>1, FreshFrame
  <2>2. Told(y)'
    BY <1>0, <1>1, ToldFrame DEF Advance
  <2>3. OutputFits(y)'
    BY <1>0, <1>1, OutputFrame
  <2> QED
    BY <2>1, <2>2, <2>3
<1> QED
  BY <1>2, <1>3, <1>4 DEF IInv, OtherTypes

\* The invariant, taken apart for session s.
LEMMA InvariantFacts ==
    ASSUME IInv, NEW s \in Session
    PROVE  /\ TypeOK /\ OtherTypes /\ Kernel /\ EffectFits
           /\ Control(s) /\ FreshFits(s) /\ Told(s) /\ OutputFits(s)
           /\ rec[s] \in RecordType /\ state[s] \in States \union {"none"}
           /\ todo \in [Thread -> Seq(EffectType)]
           /\ rec[s].started \/ step[Lane(s)] # "idle" =>
                 state[s] # "none" /\ ~Submitting(s, "submitStart")
<1>1. TypeOK /\ LaneTypes /\ Control(s) /\ FreshFits(s)
  BY DEF IInv
<1>2. OtherTypes
  BY <1>1 DEF TypeOK, OtherTypes, Pcs
<1>3. Kernel
  BY DEF IInv, Kernel, Control
<1>4. rec[s] \in RecordType /\ state[s] \in States \union {"none"}
      /\ todo \in [Thread -> Seq(EffectType)]
  BY <1>1 DEF TypeOK
<1>5. rec[s].started \/ step[Lane(s)] # "idle" =>
         state[s] # "none" /\ ~Submitting(s, "submitStart")
  BY <1>1 DEF FreshFits, Control, LaneFits, Unclaimed
<1> QED
  BY <1>1, <1>2, <1>3, <1>4, <1>5 DEF IInv

\* A step of the lane, the child or the diagnostics of s that touches neither the
\* records nor the queues.
LEMMA LanePlain ==
    ASSUME IInv, NEW s \in Session,
           UNCHANGED <<recordVars, todo, toldVars, notified, chunks, target, toReject, toClose>>,
           OtherTypes',
           \A u \in Thread \ {Lane(s)} : step'[u] = step[u],
           \A y \in Session \ {s} :
              /\ lane'[y] = lane[y] /\ (y \in busy' <=> y \in busy) /\ proc'[y] = proc[y]
              /\ grace'[y] = grace[y] /\ inflight'[y] = inflight[y] /\ decisive'[y] = decisive[y],
           lane'[s] = lane[s] \/ step[Lane(s)] # "idle",
           Control(s)'
    PROVE  IInv'
<1>1. step'[Selector] = step[Selector] /\ step'[Closer] = step[Closer]
      /\ \A y \in Session \ {s} : step'[Lane(y)] = step[Lane(y)]
  BY ThreadFacts DEF Lone
<1>2. target' = target /\ toReject' = toReject /\ toClose' = toClose
      /\ state' = state /\ rec' = rec /\ known' = known /\ todo' = todo
      /\ notified' = notified /\ chunks' = chunks
  BY DEF recordVars
<1>3. \A y \in Session : /\ Submitting(y, "submitStart")' <=> Submitting(y, "submitStart")
                         /\ Submitting(y, "submitClose")' <=> Submitting(y, "submitClose")
  BY <1>1, <1>2 DEF Submitting
<1>4. ASSUME NEW y \in Session \ {s} PROVE Control(y)'
  <2>1. SameSession(y)
    BY <1>1, <1>2 DEF SameSession
  <2>2. SameServer(y)
    BY <1>1, <1>2, <1>3 DEF SameServer
  <2>3. SameRecord(y) /\ todo'[Timer(y)] = todo[Timer(y)]
    BY <1>2 DEF SameRecord
  <2>4. Control(y)
    BY DEF IInv
  <2> QED
    BY <2>1, <2>2, <2>3, <2>4, ControlFrame
<1>5. ASSUME NEW y \in Session, state[y] = "none" \/ Submitting(y, "submitStart")'
      PROVE  lane'[y] = lane[y]
  <2>1. CASE y = s
    BY <2>1, <1>3, <1>5, InvariantFacts
  <2>2. CASE y # s
    BY <2>2
  <2> QED
    BY <2>1, <2>2
<1>6. (Returned => Returned') /\ (Serving => Serving')
  BY <1>1 DEF Returned, Serving
<1>7. step'[Selector] \in {"submitStart", "submitClose"} => target'[Selector] \in Session
  BY <1>1, <1>2 DEF IInv, EffectFits
<1> QED
  BY <1>2, <1>3, <1>4, <1>5, <1>6, <1>7, PlainInvariant

\* The control part of the invariant for s when neither its record, the server nor
\* the queue of its timer changes.
LEMMA LaneControl ==
    ASSUME IInv, NEW s \in Session, OtherTypes',
           UNCHANGED <<recordVars, todo, notified, chunks, target, toReject, toClose>>,
           \A u \in Thread \ {Lane(s)} : step'[u] = step[u],
           lane'[s] \in Seq({<<s, "start">>, <<s, "close">>}),
           \A i \in 1..Len(lane'[s]) : lane'[s][i] = <<s, "start">> => i = 1,
           s \in busy' <=> step'[Lane(s)] # "idle",
           s \in busy' => lane'[s] # <<>>,
           InLane(s, "close")' => Over(s),
           Unclaimed(s) => /\ step'[Lane(s)] \in {"idle", "start"}
                           /\ InLane(s, "start") => InLane(s, "start")',
           StartFits(s)', ChildFits(s)', VerdictFits(s)'
    PROVE  Control(s)'
<1>1. step'[Selector] = step[Selector] /\ step'[Closer] = step[Closer]
  BY ThreadFacts DEF Lone
<1>2. target' = target /\ toReject' = toReject /\ toClose' = toClose
      /\ state' = state /\ rec' = rec /\ known' = known
  BY DEF recordVars
<1>3. StateFits(s) /\ LaneFits(s) /\ ShutFits(s)
  BY DEF IInv, Control
<1>4. StateFits(s)' /\ ShutFits(s)'
  BY <1>1, <1>2, <1>3 DEF StateFits, ShutFits, Serving
<1>5. /\ Over(s)' <=> Over(s)
      /\ Unclaimed(s)' <=> Unclaimed(s)
      /\ Submitting(s, "submitStart")' <=> Submitting(s, "submitStart")
      /\ Submitting(s, "submitClose")' <=> Submitting(s, "submitClose")
  BY <1>1, <1>2 DEF Over, Unclaimed, Submitting
<1>6. LaneFits(s)'
  BY <1>2, <1>3, <1>5 DEF LaneFits
<1> QED
  BY <1>4, <1>6 DEF Control

\* The same when the lane itself stays as it is.
LEMMA LaneInner ==
    ASSUME IInv, NEW s \in Session, OtherTypes',
           UNCHANGED <<recordVars, todo, toldVars, notified, chunks, target, toReject, toClose,
                       lane, busy>>,
           \A u \in Thread \ {Lane(s)} : step'[u] = step[u],
           \/ step'[Lane(s)] = step[Lane(s)]
           \/ step[Lane(s)] \notin {"idle", "start"} /\ step'[Lane(s)] # "idle",
           \A y \in Session \ {s} :
              /\ proc'[y] = proc[y] /\ grace'[y] = grace[y] /\ inflight'[y] = inflight[y]
              /\ decisive'[y] = decisive[y],
           StartFits(s)', ChildFits(s)', VerdictFits(s)'
    PROVE  IInv'
<1>1. lane' = lane /\ busy' = busy
  OBVIOUS
<1>2. LaneFits(s)
  BY DEF IInv, Control
<1>3. /\ lane'[s] \in Seq({<<s, "start">>, <<s, "close">>})
      /\ \A i \in 1..Len(lane'[s]) : lane'[s][i] = <<s, "start">> => i = 1
      /\ s \in busy' <=> step'[Lane(s)] # "idle"
      /\ s \in busy' => lane'[s] # <<>>
      /\ InLane(s, "close")' => Over(s)
      /\ Unclaimed(s) => /\ step'[Lane(s)] \in {"idle", "start"}
                         /\ InLane(s, "start") => InLane(s, "start")'
  BY <1>1, <1>2 DEF LaneFits, InLane
<1>4. Control(s)'
  BY <1>1, <1>3, LaneControl
<1> QED
  BY <1>1, <1>4, LanePlain

\* A worker takes the head of the lane.
LEMMA LaneBeginStep ==
    ASSUME IInv, NEW s \in Session, LaneBegin(s) PROVE IInv'
<1> DEFINE pc == Head(lane[s])[2]
<1>0. /\ TypeOK /\ Control(s) /\ OtherTypes
  BY InvariantFacts
<1>1. /\ step[Lane(s)] = "idle" /\ todo[Lane(s)] = <<>>
      /\ step' = [step EXCEPT ![Lane(s)] = pc]
      /\ s \notin busy /\ lane[s] # <<>> /\ busy' = busy \union {s} /\ lane' = lane
      /\ UNCHANGED <<recordVars, todo, toldVars, notified, chunks, target, toReject, toClose,
                     proc, exitCode, evidence, lease, grace, inflight, decisive, told, delivered,
                     closes>>
  BY DEF LaneBegin, At, Goto, Lanes!Begin, serverVars, procVars, ptyVars, diagVars, toldVars
<1>2. lane[s] \in Seq({<<s, "start">>, <<s, "close">>}) /\ Len(lane[s]) \in Nat \ {0}
      /\ Head(lane[s]) = lane[s][1] /\ 1 \in 1..Len(lane[s])
  <2>1. lane[s] \in Seq({<<s, "start">>, <<s, "close">>})
    BY <1>0 DEF Control, LaneFits
  <2> QED
    BY <2>1, <1>1
<1>3. lane[s][1] \in {<<s, "start">>, <<s, "close">>}
  BY <1>2, ElementOfSeq
<1>4. \/ lane[s][1] = <<s, "start">> /\ pc = "start"
      \/ lane[s][1] = <<s, "close">> /\ pc = "close"
  BY <1>2, <1>3
<1>5. InLane(s, "close") \/ (InLane(s, "start") /\ pc = "start")
  BY <1>2, <1>4 DEF InLane
<1> HIDE DEF pc
<1>6. pc \in {"start", "close"} /\ (Unclaimed(s) => pc = "start")
  <2>1. InLane(s, "close") => ~Unclaimed(s)
    BY <1>0 DEF Control, LaneFits, Over, Unclaimed
  <2> QED
    BY <1>4, <1>5, <2>1
<1>7. step'[Lane(s)] = pc /\ \A u \in Thread \ {Lane(s)} : step'[u] = step[u]
  BY <1>0, <1>1, ThreadFacts DEF OtherTypes
<1>8. OtherTypes'
  <2>1. step' \in [Thread -> Pcs]
    BY <1>0, <1>1, <1>6 DEF OtherTypes, Pcs
  <2> QED
    BY <2>1, <1>0, <1>1, SMTT(30) DEF OtherTypes, LaneTypes
<1>9. StartFits(s)' /\ ChildFits(s)' /\ VerdictFits(s)'
  <2>1. step'[Closer] = step[Closer]
    BY <1>7, ThreadFacts DEF Lone
  <2>2. state' = state /\ rec' = rec /\ known' = known /\ todo' = todo
    BY <1>1 DEF recordVars
  <2>3. StartFits(s)'
    BY <1>0, <1>1, <1>6, <1>7, <2>2 DEF Control, StartFits
  <2>4. ChildFits(s)'
    BY <1>0, <1>1, <1>7, <2>1, <2>2 DEF Control, ChildFits, Serving
  <2>5. VerdictFits(s)'
    BY <1>0, <1>1, <2>2 DEF Control, VerdictFits
  <2> QED
    BY <2>3, <2>4, <2>5
<1>10. Control(s)'
  <2>1. /\ lane'[s] \in Seq({<<s, "start">>, <<s, "close">>})
        /\ \A i \in 1..Len(lane'[s]) : lane'[s][i] = <<s, "start">> => i = 1
        /\ s \in busy' <=> step'[Lane(s)] # "idle"
        /\ s \in busy' => lane'[s] # <<>>
        /\ InLane(s, "close")' => Over(s)
        /\ Unclaimed(s) => /\ step'[Lane(s)] \in {"idle", "start"}
                           /\ InLane(s, "start") => InLane(s, "start")'
    BY <1>0, <1>1, <1>2, <1>6, <1>7 DEF Control, LaneFits, InLane
  <2> QED
    BY <1>1, <1>7, <1>8, <1>9, <2>1, LaneControl
<1>11. \A y \in Session \ {s} :
          /\ lane'[y] = lane[y] /\ (y \in busy' <=> y \in busy) /\ proc'[y] = proc[y]
          /\ grace'[y] = grace[y] /\ inflight'[y] = inflight[y] /\ decisive'[y] = decisive[y]
  BY <1>1
<1> QED
  BY <1>1, <1>7, <1>8, <1>10, <1>11, LanePlain

\* A worker is done with the head of the lane.
LEMMA LaneEndStep ==
    ASSUME IInv, NEW s \in Session, LaneEnd(s) PROVE IInv'
<1>0. /\ TypeOK /\ Control(s) /\ OtherTypes
  BY InvariantFacts
<1>1. /\ step[Lane(s)] = "done" /\ todo[Lane(s)] = <<>>
      /\ step' = [step EXCEPT ![Lane(s)] = "idle"]
      /\ s \in busy /\ lane' = [lane EXCEPT ![s] = Tail(@)] /\ busy' = busy \ {s}
      /\ UNCHANGED <<recordVars, todo, toldVars, notified, chunks, target, toReject, toClose,
                     proc, exitCode, evidence, lease, grace, inflight, decisive, told, delivered,
                     closes>>
  BY DEF LaneEnd, At, Goto, Lanes!Finish, serverVars, procVars, ptyVars, diagVars, toldVars
<1>2. /\ lane[s] \in Seq({<<s, "start">>, <<s, "close">>}) /\ lane[s] # <<>>
      /\ lane'[s] = Tail(lane[s])
      /\ \A y \in Session \ {s} : lane'[y] = lane[y]
  BY <1>0, <1>1 DEF Control, LaneFits, OtherTypes, LaneTypes
<1>3. /\ lane'[s] \in Seq({<<s, "start">>, <<s, "close">>}) /\ Len(lane[s]) \in Nat
      /\ Len(lane'[s]) = Len(lane[s]) - 1
      /\ \A i \in 1..Len(lane'[s]) : lane'[s][i] = lane[s][i+1] /\ i + 1 \in 1..Len(lane[s])
  BY <1>2, HeadTailProperties, LenProperties
<1>4. ASSUME NEW i \in 1..Len(lane'[s]) PROVE lane'[s][i] # <<s, "start">>
  <2>1. lane'[s][i] = lane[s][i+1] /\ i + 1 \in 1..Len(lane[s]) /\ i + 1 # 1
    BY <1>3
  <2>2. lane[s][i+1] # <<s, "start">>
    BY <1>0, <2>1 DEF Control, LaneFits
  <2> QED
    BY <2>1, <2>2
<1>5. InLane(s, "close")' => InLane(s, "close")
  BY <1>3 DEF InLane
<1>6. ~Unclaimed(s)
  BY <1>0, <1>1 DEF Control, LaneFits
<1>7. step'[Lane(s)] = "idle" /\ \A u \in Thread \ {Lane(s)} : step'[u] = step[u]
  BY <1>0, <1>1, ThreadFacts DEF OtherTypes
<1>8. OtherTypes'
  <2>1. step' \in [Thread -> Pcs]
    BY <1>0, <1>1 DEF OtherTypes, Pcs
  <2>2. LaneTypes'
    <3>1. lane[s] \in Seq(Session \X {"start", "close"}) /\ lane[s] # <<>>
      BY <1>0, <1>2 DEF OtherTypes, LaneTypes
    <3>2. Tail(lane[s]) \in Seq(Session \X {"start", "close"})
      BY <3>1, HeadTailProperties
    <3> QED
      BY <3>2, <1>0, <1>1 DEF OtherTypes, LaneTypes
  <2> QED
    BY <2>1, <2>2, <1>0, <1>1 DEF OtherTypes
<1>9. StartFits(s)' /\ ChildFits(s)' /\ VerdictFits(s)'
  <2>1. step'[Closer] = step[Closer]
    BY <1>7, ThreadFacts DEF Lone
  <2>2. state' = state /\ rec' = rec /\ known' = known /\ todo' = todo
    BY <1>1 DEF recordVars
  <2>3. StartFits(s)'
    BY <1>0, <1>1, <1>7, <2>2 DEF Control, StartFits
  <2>4. ChildFits(s)'
    BY <1>0, <1>1, <1>7, <2>1, <2>2 DEF Control, ChildFits, Serving
  <2>5. VerdictFits(s)'
    BY <1>0, <1>1, <2>2 DEF Control, VerdictFits
  <2> QED
    BY <2>3, <2>4, <2>5
<1>10. Control(s)'
  <2>1. InLane(s, "close")' => Over(s)
    BY <1>0, <1>5 DEF Control, LaneFits
  <2>2. s \notin busy'
    BY <1>1
  <2> QED
    BY <1>1, <1>3, <1>4, <1>6, <1>7, <1>8, <1>9, <2>1, <2>2, LaneControl
<1>11. \A y \in Session \ {s} :
          /\ lane'[y] = lane[y] /\ (y \in busy' <=> y \in busy) /\ proc'[y] = proc[y]
          /\ grace'[y] = grace[y] /\ inflight'[y] = inflight[y] /\ decisive'[y] = decisive[y]
  BY <1>1, <1>2
<1>12. step[Lane(s)] # "idle"
  BY <1>1
<1> QED
  BY <1>1, <1>7, <1>8, <1>10, <1>11, <1>12, LanePlain

\* A thread goes to another control point.
LEMMA GotoFacts ==
    ASSUME OtherTypes, NEW t \in Thread, NEW pc \in Pcs, Goto(t, pc)
    PROVE  /\ step'[t] = pc /\ step' \in [Thread -> Pcs]
           /\ \A u \in Thread \ {t} : step'[u] = step[u]
  BY DEF OtherTypes, Goto

\* The callbacks of the diagnostics are registered.
LEMMA StartSubscribeStep ==
    ASSUME IInv, NEW s \in Session, StartSubscribe(s) PROVE IInv'
<1>0. OtherTypes /\ Control(s) /\ Lane(s) \in Thread /\ Lane(s) # Closer
  BY InvariantFacts, ThreadFacts DEF Lone
<1>1. /\ step[Lane(s)] = "launch" /\ Goto(Lane(s), "build")
      /\ lease' = [lease EXCEPT ![s] = IF Diagnostics THEN "subscribed" ELSE @]
      /\ UNCHANGED <<state, rec, known, todo, lane, busy, toReject, toClose, target, closes,
                     proc, exitCode, notified, evidence, chunks, decisive, inflight, grace,
                     told, delivered>>
      /\ UNCHANGED <<recordVars, toldVars>>
  BY DEF StartSubscribe, At, recordVars, laneVars, serverVars, procVars, ptyVars, toldVars
<1>2. /\ step'[Lane(s)] = "build" /\ step' \in [Thread -> Pcs] /\ step'[Closer] = step[Closer]
      /\ \A u \in Thread \ {Lane(s)} : step'[u] = step[u]
  BY <1>0, <1>1, GotoFacts, ThreadFacts DEF Pcs, Lone
<1>3. OtherTypes'
  BY <1>0, <1>1, <1>2 DEF OtherTypes, LaneTypes
<1>4. StartFits(s)' /\ ChildFits(s)' /\ VerdictFits(s)'
  <2>1. StartFits(s)'
    BY <1>0, <1>1, <1>2 DEF Control, StartFits
  <2>2. ChildFits(s)'
    BY <1>0, <1>1, <1>2 DEF Control, ChildFits, Serving
  <2>3. VerdictFits(s)'
    BY <1>0, <1>1 DEF Control, VerdictFits
  <2> QED
    BY <2>1, <2>2, <2>3
<1> QED
  BY <1>1, <1>2, <1>3, <1>4, LaneInner

\* The launch is built, may be instrumented, or fails to be built.
LEMMA StartLaunchStep ==
    ASSUME IInv, NEW s \in Session, StartLaunch(s) PROVE IInv'
<1>0. OtherTypes /\ Control(s) /\ Lane(s) \in Thread /\ Lane(s) # Closer
  BY InvariantFacts, ThreadFacts DEF Lone
<1>1. PICK pc \in {"spawn", "startFailed"} :
        /\ step[Lane(s)] = "build" /\ Goto(Lane(s), pc)
        /\ \/ pc = "spawn" /\ grace' = [grace EXCEPT ![s] = "armed"]
              /\ lease' = [lease EXCEPT ![s] = IF @ = "subscribed" THEN "engaged" ELSE "orphan"]
           \/ grace' = grace /\ lease' = lease
        /\ UNCHANGED <<state, rec, known, todo, lane, busy, toReject, toClose, target, closes,
                       proc, exitCode, notified, evidence, chunks, decisive, inflight,
                       told, delivered>>
        /\ UNCHANGED <<recordVars, toldVars>>
  BY DEF StartLaunch, At, recordVars, laneVars, serverVars, procVars, ptyVars, toldVars
<1>2. /\ step'[Lane(s)] = pc /\ step' \in [Thread -> Pcs] /\ step'[Closer] = step[Closer]
      /\ \A u \in Thread \ {Lane(s)} : step'[u] = step[u]
  BY <1>0, <1>1, GotoFacts, ThreadFacts DEF Pcs, Lone
<1>3. OtherTypes' /\ \A y \in Session \ {s} : grace'[y] = grace[y]
  <2>0. \/ /\ grace' = [grace EXCEPT ![s] = "armed"]
           /\ lease' = [lease EXCEPT ![s] = IF @ = "subscribed" THEN "engaged" ELSE "orphan"]
        \/ grace' = grace /\ lease' = lease
    BY <1>1
  <2>1. /\ grace' \in [Session -> {"off", "armed", "fired"}]
        /\ \A y \in Session \ {s} : grace'[y] = grace[y]
    <3>1. grace \in [Session -> {"off", "armed", "fired"}]
      BY <1>0 DEF OtherTypes
    <3>2. grace' = [grace EXCEPT ![s] = "armed"] \/ grace' = grace
      BY <2>0
    <3> QED
      BY <3>1, <3>2
  <2>2. lease' \in [Session -> {"none", "subscribed", "engaged", "orphan"}]
    <3>1. lease \in [Session -> {"none", "subscribed", "engaged", "orphan"}]
      BY <1>0 DEF OtherTypes
    <3>2. \/ lease' = [lease EXCEPT ![s] = IF @ = "subscribed" THEN "engaged" ELSE "orphan"]
          \/ lease' = lease
      BY <2>0
    <3> QED
      BY <3>1, <3>2
  <2> QED
    BY <1>0, <1>1, <1>2, <2>1, <2>2 DEF OtherTypes, LaneTypes
<1>4. StartFits(s)' /\ ChildFits(s)' /\ VerdictFits(s)'
  <2>1. StartFits(s)'
    BY <1>0, <1>1, <1>2 DEF Control, StartFits
  <2>2. ChildFits(s)'
    BY <1>0, <1>1, <1>2 DEF Control, ChildFits, Serving
  <2>3. VerdictFits(s)'
    BY <1>0, <1>1 DEF Control, VerdictFits
  <2> QED
    BY <2>1, <2>2, <2>3
<1> QED
  BY <1>1, <1>2, <1>3, <1>4, LaneInner

\* The child is spawned, or the spawn fails.
LEMMA StartSpawnStep ==
    ASSUME IInv, NEW s \in Session, StartSpawn(s) PROVE IInv'
<1>0. OtherTypes /\ Control(s) /\ Lane(s) \in Thread /\ Lane(s) # Closer
  BY InvariantFacts, ThreadFacts DEF Lone
<1>1. PICK pc \in {"spawned", "startFailed"} :
        /\ step[Lane(s)] = "spawn" /\ Goto(Lane(s), pc)
        /\ \/ pc = "spawned" /\ proc' = [proc EXCEPT ![s] = "alive"]
           \/ proc' = proc
        /\ UNCHANGED <<state, rec, known, todo, lane, busy, toReject, toClose, target, closes,
                       exitCode, notified, evidence, chunks, lease, decisive, inflight, grace,
                       told, delivered>>
        /\ UNCHANGED <<recordVars, toldVars>>
  BY DEF StartSpawn, At, recordVars, laneVars, serverVars, ptyVars, diagVars, toldVars
<1>2. /\ step'[Lane(s)] = pc /\ step' \in [Thread -> Pcs] /\ step'[Closer] = step[Closer]
      /\ \A u \in Thread \ {Lane(s)} : step'[u] = step[u]
  BY <1>0, <1>1, GotoFacts, ThreadFacts DEF Pcs, Lone
<1>3. OtherTypes' /\ \A y \in Session \ {s} : proc'[y] = proc[y]
  BY <1>0, <1>1, <1>2, ZenonT(30) DEF OtherTypes, LaneTypes
<1>4. StartFits(s)' /\ ChildFits(s)' /\ VerdictFits(s)'
  <2>0. proc'[s] = proc[s] \/ (proc'[s] = "alive" /\ pc = "spawned")
    BY <1>0, <1>1 DEF OtherTypes
  <2>1. StartFits(s)'
    BY <1>0, <1>1, <1>2, <2>0 DEF Control, StartFits
  <2>2. ChildFits(s)'
    BY <1>0, <1>1, <1>2, <2>0 DEF Control, ChildFits, StartFits, Serving
  <2>3. VerdictFits(s)'
    BY <1>0, <1>1 DEF Control, VerdictFits
  <2> QED
    BY <2>1, <2>2, <2>3
<1> QED
  BY <1>1, <1>2, <1>3, <1>4, LaneInner

\* The worker signals a child nobody else will.
LEMMA StartReapStep ==
    ASSUME IInv, NEW s \in Session, StartReap(s) PROVE IInv'
<1>0. OtherTypes /\ Control(s) /\ Lane(s) \in Thread /\ Lane(s) # Closer
  BY InvariantFacts, ThreadFacts DEF Lone
<1>1. /\ step[Lane(s)] = "reap" /\ Goto(Lane(s), "reaping")
      /\ proc' = [proc EXCEPT ![s] = IF @ = "alive" THEN "signalled" ELSE @]
      /\ UNCHANGED <<state, rec, known, todo, lane, busy, toReject, toClose, target, closes,
                     exitCode, notified, evidence, chunks, lease, decisive, inflight, grace,
                     told, delivered>>
      /\ UNCHANGED <<recordVars, toldVars>>
  BY DEF StartReap, Signal, At, recordVars, laneVars, serverVars, ptyVars, diagVars, toldVars
<1>2. /\ step'[Lane(s)] = "reaping" /\ step' \in [Thread -> Pcs] /\ step'[Closer] = step[Closer]
      /\ \A u \in Thread \ {Lane(s)} : step'[u] = step[u]
  BY <1>0, <1>1, GotoFacts, ThreadFacts DEF Pcs, Lone
<1>3. OtherTypes' /\ \A y \in Session \ {s} : proc'[y] = proc[y]
  BY <1>0, <1>1, <1>2 DEF OtherTypes, LaneTypes
<1>4. StartFits(s)' /\ ChildFits(s)' /\ VerdictFits(s)'
  <2>0. proc'[s] = IF proc[s] = "alive" THEN "signalled" ELSE proc[s]
    BY <1>0, <1>1 DEF OtherTypes
  <2>1. StartFits(s)'
    BY <1>0, <1>1, <1>2, <2>0 DEF Control, StartFits
  <2>2. ChildFits(s)'
    BY <2>0 DEF ChildFits
  <2>3. VerdictFits(s)'
    BY <1>0, <1>1 DEF Control, VerdictFits
  <2> QED
    BY <2>1, <2>2, <2>3
<1> QED
  BY <1>1, <1>2, <1>3, <1>4, LaneInner

\* The child ends.
LEMMA ChildExitsStep ==
    ASSUME IInv, NEW s \in Session, NEW code \in ExitCodes, ChildExits(s, code) PROVE IInv'
<1>0. OtherTypes /\ Control(s) /\ code \in {"clean", "error", "fatal"}
  BY InvariantFacts, RuntimeAssumption
<1>1. /\ proc[s] \in {"alive", "signalled"} /\ proc' = [proc EXCEPT ![s] = "exited"]
      /\ exitCode' = [exitCode EXCEPT ![s] = code]
      /\ UNCHANGED <<state, rec, known, todo, lane, busy, toReject, toClose, target, closes, step,
                     notified, evidence, chunks, lease, decisive, inflight, grace,
                     told, delivered>>
      /\ UNCHANGED <<recordVars, toldVars>>
  BY DEF ChildExits, recordVars, laneVars, serverVars, ptyVars, diagVars, toldVars
<1>3. OtherTypes' /\ \A y \in Session \ {s} : proc'[y] = proc[y]
  BY <1>0, <1>1 DEF OtherTypes, LaneTypes
<1>4. StartFits(s)' /\ ChildFits(s)' /\ VerdictFits(s)'
  <2>0. proc'[s] = "exited"
    BY <1>0, <1>1 DEF OtherTypes
  <2>1. StartFits(s)'
    BY <1>0, <1>1, <2>0 DEF Control, StartFits
  <2>2. ChildFits(s)'
    BY <2>0 DEF ChildFits
  <2>3. VerdictFits(s)'
    BY <1>0, <1>1 DEF Control, VerdictFits
  <2> QED
    BY <2>1, <2>2, <2>3
<1> QED
  BY <1>1, <1>3, <1>4, LaneInner

\* The parser reaches a verdict.
LEMMA DiagnosticsParsedStep ==
    ASSUME IInv, NEW s \in Session, NEW verdict \in {"auth", "failed"},
           DiagnosticsParsed(s, verdict)
    PROVE  IInv'
<1>0. OtherTypes /\ Control(s)
  BY InvariantFacts
<1>1. /\ proc[s] # "none"
      /\ decisive' = [decisive EXCEPT ![s] = @ \union {verdict}]
      /\ inflight' = [inflight EXCEPT ![s] = verdict]
      /\ grace' = [grace EXCEPT ![s] = IF @ = "armed" THEN "off" ELSE @]
      /\ UNCHANGED <<state, rec, known, todo, lane, busy, toReject, toClose, target, closes, step,
                     notified, evidence, chunks, lease, proc, exitCode, told, delivered>>
      /\ UNCHANGED <<recordVars, toldVars>>
  BY DEF DiagnosticsParsed, recordVars, laneVars, serverVars, procVars, ptyVars, toldVars
<1>2. /\ decisive'[s] = decisive[s] \union {verdict} /\ inflight'[s] = verdict
      /\ grace'[s] = IF grace[s] = "armed" THEN "off" ELSE grace[s]
      /\ \A y \in Session \ {s} : /\ decisive'[y] = decisive[y] /\ inflight'[y] = inflight[y]
                                  /\ grace'[y] = grace[y]
  BY <1>0, <1>1 DEF OtherTypes
<1>3. OtherTypes'
  BY <1>0, <1>1 DEF OtherTypes, LaneTypes
<1>4. StartFits(s)' /\ ChildFits(s)' /\ VerdictFits(s)'
  <2>1. StartFits(s)'
    BY <1>0, <1>1, <1>2 DEF Control, StartFits
  <2>2. ChildFits(s)'
    BY <1>0, <1>1 DEF Control, ChildFits, Serving
  <2>3. VerdictFits(s)'
    BY <1>0, <1>1, <1>2 DEF Control, VerdictFits
  <2> QED
    BY <2>1, <2>2, <2>3
<1> QED
  BY <1>1, <1>2, <1>3, <1>4, LaneInner

\* The grace timer passes its checks.
LEMMA GraceFiresStep ==
    ASSUME IInv, NEW s \in Session, GraceFires(s) PROVE IInv'
<1>0. OtherTypes /\ Control(s)
  BY InvariantFacts
<1>1. /\ grace[s] = "armed" /\ grace' = [grace EXCEPT ![s] = "fired"]
      /\ UNCHANGED <<state, rec, known, todo, lane, busy, toReject, toClose, target, closes, step,
                     notified, evidence, chunks, lease, proc, exitCode, decisive, inflight,
                     told, delivered>>
      /\ UNCHANGED <<recordVars, toldVars>>
  BY DEF GraceFires, recordVars, laneVars, serverVars, procVars, ptyVars, toldVars
<1>2. grace'[s] = "fired" /\ \A y \in Session \ {s} : grace'[y] = grace[y]
  BY <1>0, <1>1 DEF OtherTypes
<1>3. OtherTypes'
  BY <1>0, <1>1 DEF OtherTypes, LaneTypes
<1>4. StartFits(s)' /\ ChildFits(s)' /\ VerdictFits(s)'
  <2>1. StartFits(s)'
    BY <1>0, <1>1, <1>2 DEF Control, StartFits
  <2>2. ChildFits(s)'
    BY <1>0, <1>1 DEF Control, ChildFits, Serving
  <2>3. VerdictFits(s)'
    BY <1>0, <1>1 DEF Control, VerdictFits
  <2> QED
    BY <2>1, <2>2, <2>3
<1> QED
  BY <1>1, <1>2, <1>3, <1>4, LaneInner

-----------------------------------------------------------------------------
(* Critical sections of the lane, the child and the diagnostics.           *)

\* The states in which an opened session is found.
Resting == {"starting", "running", "closing", "failed", "closed"}

\* The states of an opened session.
LEMMA RestingFacts ==
    ASSUME IInv, NEW s \in Session
    PROVE  state[s] \in Resting \union {"none"} /\ Resting \subseteq States
  BY DEF IInv, Control, StateFits, Resting, States

\* A section of one of the threads that serve session s.
LEMMA LaneSection ==
    ASSUME IInv, NEW s \in Session, NEW t \in {Lane(s), Timer(s), IO, Reaper, Monitor},
           NEW q, NEW K, NEW x \in Resting, NEW r \in RecordType,
           todo[t] = <<>>, Tidy(q, s, K), Section(t, s, x, r, q), Advance(state[s], x),
           rec[s].started \/ step[Lane(s)] # "idle", rec[s].started => r.started,
           \A kind \in K : ~Past(s, kind) /\ Past(s, kind)',
           UNCHANGED <<told, target, toReject, toClose, lane, busy>>,
           OtherTypes', notified[s] \subseteq notified'[s],
           \A y \in Session \ {s} :
              /\ proc'[y] = proc[y] /\ grace'[y] = grace[y] /\ inflight'[y] = inflight[y]
              /\ notified'[y] = notified[y] /\ chunks'[y] = chunks[y]
              /\ decisive'[y] = decisive[y] /\ delivered'[y] = delivered[y],
           \A u \in Thread \ {Lane(s)} : step'[u] = step[u],
           \/ step'[Lane(s)] = step[Lane(s)]
           \/ /\ step[Lane(s)] # "idle" /\ step'[Lane(s)] # "idle"
              /\ x = "starting" => r.started,
           StartFits(s)', ChildFits(s)', VerdictFits(s)', OutputFits(s)'
    PROVE  IInv'
<1>0. /\ Control(s) /\ TypeOK /\ state[s] \in Resting
      /\ ~Submitting(s, "submitStart") /\ x \in States
  BY InvariantFacts, RestingFacts
<1>1. /\ state'[s] = x /\ rec'[s] = r /\ (s \in known' => s \in known)
      /\ (s \in known /\ x # "closed" => s \in known')
  BY <1>0 DEF Section, TypeOK
<1>2. /\ step'[Selector] = step[Selector] /\ step'[Closer] = step[Closer]
      /\ \A y \in Session \ {s} : step'[Lane(y)] = step[Lane(y)] /\ t # Timer(y)
      /\ t \in Thread /\ t # Selector
  BY ThreadFacts DEF Lone
<1>3. \A y \in Session : /\ Submitting(y, "submitStart")' <=> Submitting(y, "submitStart")
                         /\ Submitting(y, "submitClose")' <=> Submitting(y, "submitClose")
  BY <1>2 DEF Submitting
<1>4. StateFits(s)'
  BY <1>0, <1>1 DEF Control, StateFits, Resting, Advance
<1>5. LaneFits(s)'
  <2>1. Over(s) => Over(s)'
    BY <1>1 DEF Over, Advance
  <2>2. Unclaimed(s)' => /\ Unclaimed(s) /\ x = "starting" /\ ~r.started
    BY <1>0, <1>1 DEF Unclaimed, Advance, Resting
  <2>3. \A kind : InLane(s, kind)' <=> InLane(s, kind)
    BY DEF InLane
  <2>4. LaneFits(s)
    BY <1>0 DEF Control
  <2>5. Unclaimed(s)' => step'[Lane(s)] \in {"idle", "start"}
    BY <2>2, <2>4 DEF LaneFits
  <2> QED
    BY <1>3, <2>1, <2>2, <2>3, <2>4, <2>5 DEF LaneFits
<1>6. ShutFits(s)'
  BY <1>0, <1>1, <1>2 DEF Control, ShutFits, Serving, Advance, Resting
<1>7. Control(s)'
  BY <1>4, <1>5, <1>6 DEF Control
<1>8. ASSUME NEW y \in Session \ {s}
      PROVE  /\ SameSession(y) /\ SameServer(y) /\ delivered'[y] = delivered[y] /\ t # Timer(y)
             /\ Submitting(y, "submitStart") => t # Selector
  BY <1>2, <1>3 DEF SameSession, SameServer
<1>9. step'[Selector] \in {"submitStart", "submitClose"} => target'[Selector] \in Session
  BY <1>2 DEF IInv, EffectFits
<1>10. Returned => Returned'
  BY <1>2 DEF Returned
<1>11. state[s] # "none" /\ x # "none" /\ x \in States \union {"none"} /\ t \in Thread
  BY <1>0, <1>2 DEF Resting
<1> QED
  BY <1>0, <1>2, <1>3, <1>7, <1>8, <1>9, <1>10, <1>11, SectionInvariant

\* What most sections have in common: they owe no output and lose none of a
\* STARTING or RUNNING session, and keep what the verdicts rest on.
Summary(t, s, x, r, q, K) ==
    /\ x \in Resting /\ r \in RecordType
    /\ Tidy(q, s, K) /\ Mute(q) /\ Section(t, s, x, r, q)
    /\ Advance(state[s], x)
    /\ rec[s].started => r.started
    /\ \A kind \in K : ~Past(s, kind) /\ Past(s, kind)'
    /\ r.deferred = rec[s].deferred \/ r.deferred = <<>>
    /\ x \in {"starting", "running"} => r.deferred = rec[s].deferred
    /\ x = "running" => state[s] = "running" \/ Flushes(q, s)
    /\ r.result # "none" => r.result \in decisive[s]
    /\ x = "starting" /\ r.started => r.capable = TerminalCapable

\* A summarised section keeps its own session and what is told and sent.
LEMMA SummaryFacts ==
    ASSUME IInv, NEW s \in Session, NEW t \in Thread, NEW x, NEW r, NEW q, NEW K,
           todo[t] = <<>>, Summary(t, s, x, r, q, K), state[s] # "none",
           chunks' = chunks, delivered' = delivered, decisive' = decisive,
           inflight'[s] = inflight[s] \/ inflight'[s] = "none"
    PROVE  /\ OutputFits(s)' /\ VerdictFits(s)'
           /\ state'[s] = x /\ rec'[s] = r
           /\ s \in known' => s \in known
           /\ s \in known /\ x # "closed" => s \in known'
           /\ todo'[t] = q /\ \A u \in Thread \ {t} : todo'[u] = todo[u]
<1>0. TypeOK /\ OutputFits(s) /\ Control(s) /\ state[s] \in Resting
  BY InvariantFacts, RestingFacts
<1>1. /\ state'[s] = x /\ rec'[s] = r /\ todo' = [todo EXCEPT ![t] = q] /\ q \in Seq(EffectType)
      /\ s \in known' => s \in known
      /\ s \in known /\ x # "closed" => s \in known'
  BY <1>0 DEF Summary, Section, TypeOK, Tidy
<1>2. todo'[t] = q /\ \A u \in Thread \ {t} : todo'[u] = todo[u]
  BY <1>0, <1>1 DEF TypeOK
<1>3. OutputFits(s)'
  <2>1. \A i \in 1..Len(q) : q[i].session = s => q[i].do # "output"
    BY DEF Summary, Mute
  <2>2. rec'[s].deferred = rec[s].deferred \/ rec'[s].deferred = <<>>
    BY <1>1 DEF Summary
  <2>3. state'[s] \in {"starting", "running"} =>
           state[s] \in {"starting", "running"} /\ rec'[s].deferred = rec[s].deferred
    BY <1>0, <1>1 DEF Summary, Advance, Resting
  <2>4. state'[s] = "running" /\ rec'[s].deferred # <<>> =>
           Flushes(q, s) \/ state[s] = "running"
    BY <1>1 DEF Summary
  <2> HIDE DEF OutputFits
  <2> QED
    BY <1>0, <1>1, <2>1, <2>2, <2>3, <2>4, OutputSection
<1>4. VerdictFits(s)'
  <2>1. VerdictFits(s)
    BY <1>0 DEF Control
  <2> QED
    BY <1>1, <2>1 DEF Summary, VerdictFits
<1> QED
  BY <1>1, <1>2, <1>3, <1>4

\* Such a section of the lane, the child or the diagnostics.
LEMMA LaneSummary ==
    ASSUME IInv, NEW s \in Session, NEW t \in {Lane(s), Timer(s), IO, Reaper, Monitor},
           NEW q, NEW K, NEW x, NEW r,
           todo[t] = <<>>, Summary(t, s, x, r, q, K),
           rec[s].started \/ step[Lane(s)] # "idle",
           UNCHANGED <<told, target, toReject, toClose, lane, busy, chunks, decisive, delivered>>,
           OtherTypes', notified[s] \subseteq notified'[s],
           \A y \in Session \ {s} :
              /\ proc'[y] = proc[y] /\ grace'[y] = grace[y] /\ inflight'[y] = inflight[y]
              /\ notified'[y] = notified[y],
           inflight'[s] = inflight[s] \/ inflight'[s] = "none",
           \A u \in Thread \ {Lane(s)} : step'[u] = step[u],
           \/ step'[Lane(s)] = step[Lane(s)]
           \/ /\ step[Lane(s)] # "idle" /\ step'[Lane(s)] # "idle"
              /\ x = "starting" => r.started,
           StartFits(s)', ChildFits(s)'
    PROVE  IInv'
<1>1. t \in Thread /\ state[s] # "none"
  BY ThreadFacts, InvariantFacts DEF Lone
<1>2. OutputFits(s)' /\ VerdictFits(s)'
  BY <1>1, SummaryFacts
<1>3. /\ Tidy(q, s, K) /\ Section(t, s, x, r, q) /\ Advance(state[s], x) /\ x \in Resting
      /\ r \in RecordType /\ (rec[s].started => r.started)
      /\ \A kind \in K : ~Past(s, kind) /\ Past(s, kind)'
  BY DEF Summary
<1>4. \A y \in Session \ {s} :
         /\ proc'[y] = proc[y] /\ grace'[y] = grace[y] /\ inflight'[y] = inflight[y]
         /\ notified'[y] = notified[y] /\ chunks'[y] = chunks[y]
         /\ decisive'[y] = decisive[y] /\ delivered'[y] = delivered[y]
  OBVIOUS
<1>5. UNCHANGED <<told, target, toReject, toClose, lane, busy>>
  OBVIOUS
<1> QED
  BY <1>2, <1>3, <1>4, <1>5, LaneSection

-----------------------------------------------------------------------------
(* The critical sections that several threads share.                       *)

\* The step brings session s where the event says it is.
News(s, kind) == ~Past(s, kind) /\ Past(s, kind)'

\* What a transition announces was not announced before.
LEMMA NewsFacts ==
    ASSUME IInv, NEW s \in Session, NEW x \in Resting, state'[s] = x
    PROVE  /\ state[s] \in {"starting", "running"} /\ x = "closing" => News(s, "closing")
           /\ state[s] \in {"starting", "running", "closing"} /\ x \in {"failed", "closed"} =>
                 News(s, "failed")
           /\ state[s] \notin {"none", "closed"} /\ x = "closed" =>
                 News(s, "exited") /\ News(s, "closed")
           /\ state[s] = "starting" /\ x = "running" =>
                 News(s, "running") /\ News(s, "authenticated")
  BY RestingFacts DEF News, Past, Over, Resting

\* What a critical section may do to the record.
RecordFits(s, r, x) ==
    /\ r \in RecordType /\ (rec[s].started => r.started)
    /\ r.deferred = rec[s].deferred \/ r.deferred = <<>>
    /\ x \in {"starting", "running"} => r.deferred = rec[s].deferred
    /\ r.result # "none" => r.result \in decisive[s]
    /\ x = "starting" /\ r.started => r.capable = TerminalCapable

\* Fields that the invariant ties to nothing but their type.
LEMMA RecordKept ==
    ASSUME IInv, NEW s \in Session, NEW r \in RecordType, NEW x \in Resting,
           r.started = rec[s].started, r.result = rec[s].result, r.deferred = rec[s].deferred,
           r.capable = rec[s].capable \/ x # "starting",
           x = "starting" => state[s] = "starting"
    PROVE  RecordFits(s, r, x)
  BY DEF IInv, Control, VerdictFits, RecordFits, RecordType

\* A section without a transition.
LEMMA StaySummary ==
    ASSUME IInv, NEW t \in Thread, NEW s \in Session, todo[t] = <<>>, state[s] # "none",
           NEW r, NEW q, RecordFits(s, r, state[s]), Tidy(q, s, {}), Mute(q),
           Locked(t, s, <<>>, r, q)
    PROVE  Summary(t, s, state[s], r, q, {})
<1>1. Section(t, s, state[s], r, q)
  BY InvariantFacts, LockedStay DEF Tidy
<1>2. state[s] \in Resting
  BY RestingFacts
<1> QED
  BY <1>1, <1>2 DEF Summary, RecordFits, Advance

\* A section that makes one transition towards CLOSED.
LEMMA MoveSummary ==
    ASSUME IInv, NEW t \in Thread, NEW s \in Session, todo[t] = <<>>,
           NEW x \in {"closing", "failed", "closed"}, NEW r, NEW q,
           \/ state[s] \in {"starting", "running"} /\ x \in {"closing", "failed"}
           \/ state[s] = "closing" /\ x \in {"failed", "closed"}
           \/ state[s] = "failed" /\ x = "closed",
           RecordFits(s, r, x), Tidy(q, s, {x}), Mute(q), Locked(t, s, <<x>>, r, q)
    PROVE  Summary(t, s, x, r, q, {x})
<1>0. x \in Resting /\ x \in States /\ Kernel /\ TypeOK
  BY InvariantFacts DEF Resting, States
<1>1. Section(t, s, x, r, q)
  <2>1. q \in Seq(EffectType)
    BY DEF Tidy
  <2>2. \/ state[s] = "starting" /\ x \in {"running", "closing", "failed"}
        \/ state[s] = "running" /\ x \in {"closing", "failed"}
        \/ state[s] = "closing" /\ x \in {"failed", "closed"}
        \/ state[s] = "failed" /\ x = "closed"
    OBVIOUS
  <2> QED
    BY <1>0, <2>1, <2>2, LockedTo
<1>2. state'[s] = x
  BY <1>0, <1>1 DEF Section, TypeOK
<1>3. News(s, x)
  BY <1>0, <1>2, NewsFacts
<1> QED
  BY <1>0, <1>1, <1>3 DEF Summary, RecordFits, Advance, News

\* A promotion that leaves the deferred output to a flush.
LEMMA RunSummary ==
    ASSUME IInv, NEW t \in Thread, NEW s \in Session, todo[t] = <<>>,
           NEW r, NEW q, state[s] = "starting", RecordFits(s, r, "running"),
           q = Publish(s, "running") \o NotifyAuthenticated(s) \o FlushDeferred(s),
           Locked(t, s, <<"running">>, r, q)
    PROVE  Summary(t, s, "running", r, q, {"running", "authenticated"})
<1> DEFINE p == Publish(s, "running") \o NotifyAuthenticated(s)
           K == {"running", "authenticated"}
<1>0. "running" \in Resting /\ "running" \in States /\ Kernel /\ TypeOK /\ 0 \in Nat
  BY InvariantFacts DEF Resting, States
<1>1. Tidy(p, s, K) /\ Tidy(FlushDeferred(s), s, {})
  BY <1>0, TidyRunning, TidyOne
<1>2. p \in Seq(EffectType) /\ FlushDeferred(s) \in Seq(EffectType)
  BY <1>1 DEF Tidy
<1>3. Mute(p)
  <2>1. Publish(s, "running") \in Seq(EffectType) /\ NotifyAuthenticated(s) \in Seq(EffectType)
    BY DEF Publish, NotifyAuthenticated, Effect, EffectType, Kinds, States
  <2>2. Mute(Publish(s, "running")) /\ Mute(NotifyAuthenticated(s))
    BY MuteOne DEF Kinds, States
  <2> QED
    BY <2>1, <2>2, MuteCat
<1>4. q = p \o FlushDeferred(s)
  OBVIOUS
<1> HIDE DEF p
<1>5. Tidy(q, s, K \union {})
  BY <1>1, <1>4, TidyCat, ZenonT(30)
<1>6. Mute(q) /\ Flushes(q, s)
  <2>1. Mute(FlushDeferred(s)) /\ Flushes(FlushDeferred(s), s)
    BY MuteOne, FlushOne
  <2>2. Mute(p \o FlushDeferred(s)) /\ Flushes(p \o FlushDeferred(s), s)
    BY <1>2, <1>3, <2>1, MuteCat
  <2> QED
    BY <1>4, <2>2
<1>7. Section(t, s, "running", r, q)
  <2>1. q \in Seq(EffectType)
    BY <1>5 DEF Tidy
  <2> QED
    BY <1>0, <2>1, LockedTo
<1>8. state'[s] = "running"
  BY <1>0, <1>7 DEF Section, TypeOK
<1>9. News(s, "running") /\ News(s, "authenticated")
  BY <1>0, <1>8, NewsFacts
<1>10. K \union {} = K
  OBVIOUS
<1> QED
  BY <1>0, <1>5, <1>6, <1>7, <1>9, <1>10 DEF Summary, RecordFits, Advance, News

\* The exit of a session.
LEMMA FinalSummary ==
    ASSUME IInv, NEW t \in Thread, NEW s \in Session, todo[t] = <<>>,
           state[s] \notin {"none", "closed"},
           NEW a \in RecordType, NEW hint \in BOOLEAN, NEW p, NEW z, NEW L,
           a.started = rec[s].started, a.result = rec[s].result, a.deferred = rec[s].deferred,
           Tidy(p, s, L), Mute(p), Tidy(z, s, {}), Mute(z),
           L \subseteq {"eof"}, \A kind \in L : News(s, kind),
           FinalExit(t, s, a, hint, p, z)
    PROVE  \E r, q, K : Summary(t, s, "closed", r, q, K) /\ ~r.handle /\ r.exit = a.exit
<1>0. /\ Kernel /\ TypeOK /\ state[s] \in {"starting", "running", "closing", "failed"}
      /\ "closed" \in Resting /\ "closed" \in States /\ 0 \in Nat
  BY InvariantFacts, RestingFacts DEF Resting, States
<1>1. PICK fails \in BOOLEAN : fails = ExitFails(s, a.exit, hint)
  BY DEF ExitFails
<1> DEFINE r == [a EXCEPT !.handle = FALSE, !.failure = @ \/ fails]
           m == IF fails THEN Publish(s, "failed") ELSE <<>>
           q == p \o m \o Publish(s, "exited") \o Publish(s, "closed") \o z
           path == IF state[s] = "failed" THEN <<"closed">>
                   ELSE IF fails THEN <<"failed", "closed">> ELSE <<"exited", "closed">>
           M == IF fails THEN {"failed"} ELSE {}
           K == L \union M \union {"exited", "closed"}
<1>2. Locked(t, s, path, r, q)
  BY <1>1 DEF FinalExit
<1>3. RecordFits(s, r, "closed") /\ ~r.handle /\ r.exit = a.exit
  <2>1. PICK b \in BOOLEAN : b = (a.failure \/ fails)
    BY <1>1
  <2>2. r = [a EXCEPT !.handle = FALSE, !.failure = b]
    BY <2>1
  <2> HIDE DEF r
  <2>3. /\ r \in RecordType /\ r.started = a.started /\ r.result = a.result
        /\ r.deferred = a.deferred /\ ~r.handle /\ r.exit = a.exit
    BY <2>2 DEF RecordType
  <2> QED
    BY <1>0, <2>3, RecordKept
<1>4. Tidy(m, s, M) /\ Mute(m)
  <2>1. Tidy(Publish(s, "failed"), s, {"failed"}) /\ Mute(Publish(s, "failed"))
    BY <1>0, TidyOne, MuteOne DEF Kinds, States
  <2>2. Tidy(<<>>, s, {}) /\ Mute(<<>>)
    BY <1>0, TidyOne, MuteOne
  <2> QED
    BY <2>1, <2>2
<1>5. m \in Seq(EffectType) /\ p \in Seq(EffectType) /\ z \in Seq(EffectType)
  BY <1>4 DEF Tidy
<1> DEFINE e == Publish(s, "exited")
           c == Publish(s, "closed")
<1>6. e \in Seq(EffectType) /\ c \in Seq(EffectType) /\ Mute(e) /\ Mute(c)
  <2>1. e \in Seq(EffectType) /\ c \in Seq(EffectType)
    BY DEF Publish, Effect, EffectType, Kinds, States
  <2> QED
    BY <2>1, MuteOne DEF Kinds, States
<1>7. q = (p \o m \o e \o c) \o z
  OBVIOUS
<1> HIDE DEF m, e, c, r, q
<1>8. Tidy(p \o m, s, L \union M)
  <2>1. L \cap M = {}
    OBVIOUS
  <2> QED
    BY <1>4, <2>1, TidyCat
<1>9. Tidy(p \o m \o e \o c, s, K)
  <2>1. (L \union M) \cap {"exited", "closed"} = {}
    OBVIOUS
  <2>2. Tidy((p \o m) \o Publish(s, "exited") \o Publish(s, "closed"), s, K)
    BY <1>8, <2>1, TidyFinal
  <2> QED
    BY <2>2 DEF e, c
<1>10. Tidy(q, s, K)
  <2>1. Tidy((p \o m \o e \o c) \o z, s, K \union {}) /\ K \union {} = K
    BY <1>9, TidyCat
  <2> QED
    BY <1>7, <2>1
<1>11. Mute(q)
  <2>1. p \o m \in Seq(EffectType) /\ Mute(p \o m)
    BY <1>4, <1>5, MuteCat, CatFacts
  <2>2. p \o m \o e \in Seq(EffectType) /\ Mute(p \o m \o e)
    BY <1>6, <2>1, MuteCat, CatFacts
  <2>3. p \o m \o e \o c \in Seq(EffectType) /\ Mute(p \o m \o e \o c)
    BY <1>6, <2>2, MuteCat, CatFacts
  <2> QED
    BY <1>5, <1>7, <2>3, MuteCat
<1>12. Section(t, s, "closed", r, q)
  <2>1. q \in Seq(EffectType)
    BY <1>10 DEF Tidy
  <2>2. CASE state[s] = "failed"
    <3>1. Locked(t, s, <<"closed">>, r, q)
      BY <1>2, <2>2
    <3> QED
      BY <1>0, <2>1, <2>2, <3>1, LockedTo
  <2>3. CASE state[s] # "failed"
    <3>1. PICK x \in {"failed", "exited"} : path = <<x, "closed">>
      BY <1>1, <2>3
    <3>2. Locked(t, s, <<x, "closed">>, r, q)
      BY <1>2, <3>1
    <3>3. state[s] \in {"starting", "running", "closing"}
      BY <1>0, <2>3
    <3> QED
      BY <1>0, <2>1, <3>2, <3>3, LockedVia
  <2> QED
    BY <2>2, <2>3
<1>13. state'[s] = "closed"
  BY <1>0, <1>12 DEF Section, TypeOK
<1>14. \A kind \in K : News(s, kind)
  <2>1. News(s, "exited") /\ News(s, "closed")
    BY <1>0, <1>13, NewsFacts
  <2>2. fails => News(s, "failed")
    <3>1. fails => state[s] \in {"starting", "running"}
      BY <1>1 DEF ExitFails
    <3> QED
      BY <1>0, <1>13, <3>1, NewsFacts
  <2> QED
    BY <2>1, <2>2
<1>15. Advance(state[s], "closed")
  BY <1>0 DEF Advance
<1>16. Summary(t, s, "closed", r, q, K)
  <2> HIDE DEF K
  <2> QED
    BY <1>0, <1>3, <1>10, <1>11, <1>12, <1>14, <1>15 DEF Summary, RecordFits, News
<1> QED
  BY <1>3, <1>16

\* _process_exited, by whichever thread has taken the exit.
LEMMA ExitSummary ==
    ASSUME IInv, NEW t \in Thread, NEW s \in Session, todo[t] = <<>>, state[s] # "none",
           NEW z, Tidy(z, s, {}), Mute(z), ProcessExited(t, s, z)
    PROVE  \E x, r, q, K : /\ Summary(t, s, x, r, q, K)
                           /\ r.exit \in {rec[s].exit, exitCode[s]}
                           /\ r.handle => rec[s].handle
                           /\ x # "closed" => x = state[s] /\ r.handle = rec[s].handle
<1>0. /\ Kernel /\ TypeOK /\ state[s] \in Resting /\ rec[s] \in RecordType /\ 0 \in Nat
      /\ exitCode[s] \in {"none", "clean", "error", "fatal"}
  BY InvariantFacts, RestingFacts DEF OtherTypes
<1> DEFINE a == [rec[s] EXCEPT !.exit = exitCode[s]]
<1>1. /\ a \in RecordType /\ a.exit = exitCode[s] /\ a.handle = rec[s].handle
      /\ a.started = rec[s].started /\ a.result = rec[s].result
      /\ a.deferred = rec[s].deferred /\ a.capable = rec[s].capable
  BY <1>0 DEF RecordType
<1>2. \/ Locked(t, s, <<>>, rec[s], z)
      \/ Locked(t, s, <<>>, a, z)
      \/ /\ state[s] \notin {"exited", "closed"}
         /\ \E hint \in BOOLEAN : FinalExit(t, s, a, hint, FinishReadiness(s), z)
  BY DEF ProcessExited, LeavesRecord
<1> HIDE DEF a
<1>3. CASE Locked(t, s, <<>>, rec[s], z)
  <2>1. RecordFits(s, rec[s], state[s])
    BY <1>0, RecordKept
  <2>2. Summary(t, s, state[s], rec[s], z, {})
    BY <1>3, <2>1, StaySummary
  <2> QED
    BY <2>2
<1>4. CASE Locked(t, s, <<>>, a, z)
  <2>1. RecordFits(s, a, state[s])
    BY <1>0, <1>1, RecordKept
  <2>2. Summary(t, s, state[s], a, z, {})
    BY <1>4, <2>1, StaySummary
  <2> QED
    BY <1>1, <2>2
<1>5. ASSUME NEW hint \in BOOLEAN, FinalExit(t, s, a, hint, FinishReadiness(s), z),
             state[s] \notin {"exited", "closed"}
      PROVE  \E r, q, K : Summary(t, s, "closed", r, q, K) /\ ~r.handle /\ r.exit = a.exit
  <2>1. Tidy(FinishReadiness(s), s, {}) /\ Mute(FinishReadiness(s))
    BY <1>0, TidyOne, MuteOne
  <2>2. state[s] \notin {"none", "closed"} /\ {} \subseteq {"eof"} /\ \A kind \in {} : News(s, kind)
    BY <1>5
  <2> QED
    BY <1>1, <1>5, <2>1, <2>2, FinalSummary
<1> QED
  BY <1>1, <1>2, <1>3, <1>4, <1>5

\* fail_pending_start; r differs from the record of a session that was claimed in nothing.
LEMMA FailSummary ==
    ASSUME IInv, NEW t \in Thread, NEW s \in Session, todo[t] = <<>>, state[s] # "none",
           FailPendingStart(t, s)
    PROVE  \E x, r, q, K : /\ Summary(t, s, x, r, q, K)
                           /\ x \in {state[s], "failed"}
                           /\ x = "starting" => r.started
                           /\ r.exit = rec[s].exit /\ r.handle = rec[s].handle
                           /\ r.started = rec[s].started
                           /\ x = state[s] \/ ~rec[s].started
<1>0. /\ Kernel /\ TypeOK /\ state[s] \in Resting /\ rec[s] \in RecordType /\ 0 \in Nat
      /\ state[s] = "starting" => s \in known
  BY InvariantFacts, RestingFacts DEF Control, StateFits
<1> DEFINE a == [rec[s] EXCEPT !.scheduled = FALSE, !.capable = FALSE, !.failure = TRUE]
           q == FinishReadiness(s) \o Publish(s, "failed")
<1>1. /\ a \in RecordType /\ a.exit = rec[s].exit /\ a.handle = rec[s].handle
      /\ a.started = rec[s].started /\ a.result = rec[s].result
      /\ a.deferred = rec[s].deferred
  BY <1>0 DEF RecordType
<1>2. \/ Locked(t, s, <<>>, rec[s], <<>>) /\ (rec[s].started \/ state[s] # "starting")
      \/ Locked(t, s, <<"failed">>, a, q) /\ ~rec[s].started /\ state[s] = "starting"
  BY <1>0 DEF FailPendingStart, LeavesRecord
<1>3. Tidy(q, s, {"failed"}) /\ Mute(q)
  <2>1. /\ Tidy(FinishReadiness(s), s, {}) /\ Tidy(Publish(s, "failed"), s, {"failed"})
        /\ Mute(FinishReadiness(s)) /\ Mute(Publish(s, "failed"))
    BY <1>0, TidyOne, MuteOne DEF Kinds, States
  <2>2. Tidy(q, s, {} \union {"failed"}) /\ {} \union {"failed"} = {"failed"}
    BY <2>1, TidyCat
  <2> QED
    BY <2>1, <2>2, MuteCat DEF Tidy
<1> HIDE DEF a, q
<1>4. CASE Locked(t, s, <<>>, rec[s], <<>>) /\ (rec[s].started \/ state[s] # "starting")
  <2>1. RecordFits(s, rec[s], state[s])
    BY <1>0, RecordKept
  <2>2. Tidy(<<>>, s, {}) /\ Mute(<<>>)
    BY <1>0, TidyOne, MuteOne
  <2>3. Summary(t, s, state[s], rec[s], <<>>, {})
    BY <1>4, <2>1, <2>2, StaySummary
  <2> QED
    BY <1>4, <2>3
<1>5. CASE Locked(t, s, <<"failed">>, a, q) /\ ~rec[s].started /\ state[s] = "starting"
  <2>1. RecordFits(s, a, "failed")
    BY <1>0, <1>1, RecordKept DEF Resting
  <2>2. Summary(t, s, "failed", a, q, {"failed"})
    BY <1>3, <1>5, <2>1, MoveSummary
  <2> QED
    BY <1>1, <1>5, <2>2
<1> QED
  BY <1>2, <1>4, <1>5

\* _startup_failed.
LEMMA StartupSummary ==
    ASSUME IInv, NEW s \in Session, todo[Lane(s)] = <<>>, state[s] # "none", StartupFailed(s)
    PROVE  \E x, r, q, K : /\ Summary(Lane(s), s, x, r, q, K)
                           /\ x # "starting" /\ (x = "closed" => state[s] = "closed")
                           /\ r.exit = rec[s].exit /\ r.handle = rec[s].handle
                           /\ r.started = rec[s].started
<1>0. /\ Kernel /\ TypeOK /\ state[s] \in Resting /\ rec[s] \in RecordType /\ 0 \in Nat
      /\ Lane(s) \in Thread /\ <<>> \in Seq(Nat)
  BY InvariantFacts, RestingFacts, ThreadFacts
<1> DEFINE a == [rec[s] EXCEPT !.scheduled = FALSE, !.capable = FALSE, !.deferred = <<>>,
                               !.failure = TRUE]
           q == FinishReadiness(s) \o Publish(s, "failed")
<1>1. /\ a \in RecordType /\ a.exit = rec[s].exit /\ a.handle = rec[s].handle
      /\ a.started = rec[s].started /\ a.result = rec[s].result
      /\ a.deferred = <<>>
  BY <1>0 DEF RecordType
<1>2. \/ Locked(Lane(s), s, <<>>, rec[s], <<>>) /\ state[s] # "starting"
      \/ Locked(Lane(s), s, <<"failed">>, a, q) /\ state[s] = "starting"
  BY DEF StartupFailed, LeavesRecord
<1>3. Tidy(q, s, {"failed"}) /\ Mute(q)
  <2>1. /\ Tidy(FinishReadiness(s), s, {}) /\ Tidy(Publish(s, "failed"), s, {"failed"})
        /\ Mute(FinishReadiness(s)) /\ Mute(Publish(s, "failed"))
    BY <1>0, TidyOne, MuteOne DEF Kinds, States
  <2>2. Tidy(q, s, {} \union {"failed"}) /\ {} \union {"failed"} = {"failed"}
    BY <2>1, TidyCat
  <2> QED
    BY <2>1, <2>2, MuteCat DEF Tidy
<1> HIDE DEF a, q
<1>4. CASE Locked(Lane(s), s, <<>>, rec[s], <<>>) /\ state[s] # "starting"
  <2>1. RecordFits(s, rec[s], state[s])
    BY <1>0, RecordKept
  <2>2. Tidy(<<>>, s, {}) /\ Mute(<<>>)
    BY <1>0, TidyOne, MuteOne
  <2>3. Summary(Lane(s), s, state[s], rec[s], <<>>, {})
    BY <1>0, <1>4, <2>1, <2>2, StaySummary
  <2> QED
    BY <1>4, <2>3
<1>5. CASE Locked(Lane(s), s, <<"failed">>, a, q) /\ state[s] = "starting"
  <2>1. RecordFits(s, a, "failed")
    BY <1>1, InvariantFacts DEF RecordFits, Control, VerdictFits
  <2>2. Summary(Lane(s), s, "failed", a, q, {"failed"})
    BY <1>0, <1>3, <1>5, <2>1, MoveSummary
  <2> QED
    BY <1>1, <2>2
<1> QED
  BY <1>2, <1>4, <1>5

-----------------------------------------------------------------------------
(* The actions of a worker.                                                *)

\* The control points of a worker between its claim and the end of its start.
Working == {"launch", "build", "spawn", "spawned", "startFailed", "gate", "attach", "reap",
            "reaping"}
Holding == {"spawned", "gate", "attach", "reap"}

\* A critical section of the worker on the lane of s, which goes on to pc.
LEMMA WorkerSection ==
    ASSUME IInv, NEW s \in Session, NEW x, NEW r, NEW q, NEW K, NEW pc \in Pcs \ {"idle"},
           todo[Lane(s)] = <<>>, Summary(Lane(s), s, x, r, q, K),
           step[Lane(s)] # "idle", Goto(Lane(s), pc),
           UNCHANGED <<laneVars, serverVars, proc, exitCode, ptyVars, diagVars, toldVars>>,
           \/ notified' = notified
           \/ proc[s] = "exited" /\ notified' = [notified EXCEPT ![s] = @ \union {"exit"}],
           x = "starting" => r.started,
           r.exit # "none" => proc[s] = "exited",
           pc = "bare" => ~r.handle,
           pc \in Working => r.started,
           pc = "launch" => proc[s] = "none" /\ grace[s] = "off" /\ todo[Timer(s)] = <<>>,
           pc \notin {"build", "spawn"},
           proc[s] = "alive" => \/ s \in known /\ x # "closed" /\ r.handle
                                \/ pc \in Holding \/ ~Serving
    PROVE  IInv'
<1>0. /\ OtherTypes /\ Control(s) /\ state[s] # "none" /\ Lane(s) \in Thread /\ Lane(s) # Closer
      /\ Lane(s) # Timer(s) /\ Timer(s) \in Thread /\ Lane(s) # Selector
  BY InvariantFacts, ThreadFacts DEF Lone
<1>1. /\ step'[Lane(s)] = pc /\ step' \in [Thread -> Pcs] /\ step'[Closer] = step[Closer]
      /\ \A u \in Thread \ {Lane(s)} : step'[u] = step[u]
  BY <1>0, GotoFacts, ThreadFacts DEF Lone
<1>2. UNCHANGED <<lane, busy, target, toReject, toClose, closes, proc, exitCode, evidence, chunks,
                  lease, decisive, inflight, grace, told, delivered>>
  BY DEF laneVars, serverVars, ptyVars, diagVars, toldVars
<1>3. notified' \in [Session -> SUBSET {"exit", "eof"}]
      /\ \A y \in Session \ {s} : notified'[y] = notified[y]
  <2>1. notified \in [Session -> SUBSET {"exit", "eof"}]
    BY <1>0 DEF OtherTypes
  <2>2. notified' = notified \/ notified' = [notified EXCEPT ![s] = @ \union {"exit"}]
    OBVIOUS
  <2> QED
    BY <2>1, <2>2
<1>4. notified[s] \subseteq notified'[s] /\ (notified'[s] # {} => notified[s] # {} \/ proc[s] = "exited")
  BY <1>0 DEF OtherTypes
<1>5. OtherTypes'
  BY <1>0, <1>1, <1>2, <1>3 DEF OtherTypes, LaneTypes
<1>6. /\ state'[s] = x /\ rec'[s] = r
      /\ s \in known /\ x # "closed" => s \in known'
      /\ todo'[Timer(s)] = todo[Timer(s)]
  BY <1>0, <1>2, SummaryFacts
<1>7. rec[s].started => r.started
  BY DEF Summary
<1>8. StartFits(s)'
  <2>1. StartFits(s)
    BY <1>0 DEF Control
  <2> QED
    BY <1>1, <1>2, <1>4, <1>6, <1>7, <2>1 DEF StartFits, Working
<1>9. ChildFits(s)'
  BY <1>1, <1>2, <1>6 DEF ChildFits, Serving, Holding
<1>10. /\ UNCHANGED <<told, target, toReject, toClose, lane, busy, chunks, decisive, delivered>>
       /\ \A y \in Session \ {s} :
             /\ proc'[y] = proc[y] /\ grace'[y] = grace[y] /\ inflight'[y] = inflight[y]
             /\ notified'[y] = notified[y]
       /\ inflight'[s] = inflight[s] \/ inflight'[s] = "none"
  BY <1>2, <1>3
<1>11. step'[Lane(s)] # "idle"
  BY <1>1
<1> QED
  BY <1>1, <1>4, <1>5, <1>8, <1>9, <1>10, <1>11, LaneSummary

\* The worker reports the startup as rejected, finds it over, or claims it.
LEMMA StartClaimStep ==
    ASSUME IInv, NEW s \in Session, StartClaim(s) PROVE IInv'
<1>0. /\ OtherTypes /\ Control(s) /\ rec[s] \in RecordType /\ state[s] \in Resting \union {"none"}
      /\ Lane(s) \in Thread /\ 0 \in Nat /\ TerminalCapable \in BOOLEAN
      /\ step[Lane(s)] = "start" /\ todo[Lane(s)] = <<>>
  BY InvariantFacts, RestingFacts, ThreadFacts, RuntimeAssumption DEF StartClaim, At
<1>1. state[s] # "none" /\ StartFits(s) /\ ChildFits(s)
  BY <1>0, InvariantFacts DEF Control
<1>2. UNCHANGED <<laneVars, serverVars, procVars, ptyVars, diagVars, toldVars>>
  BY DEF StartClaim
<1>3. UNCHANGED <<laneVars, serverVars, proc, exitCode, ptyVars, diagVars, toldVars, notified>>
  BY <1>2 DEF procVars
<1>4. Tidy(<<>>, s, {}) /\ Mute(<<>>)
  BY <1>0, TidyOne, MuteOne
<1>5. CASE FailPendingStart(Lane(s), s) /\ Goto(Lane(s), "done")
  <2>1. PICK x, r, q, K : /\ Summary(Lane(s), s, x, r, q, K)
                          /\ x \in {state[s], "failed"}
                          /\ x = "starting" => r.started
                          /\ r.exit = rec[s].exit /\ r.handle = rec[s].handle
                          /\ r.started = rec[s].started
                          /\ x = state[s] \/ ~rec[s].started
    BY <1>0, <1>1, <1>5, FailSummary
  <2>2. "done" \in Pcs \ {"idle"} /\ "done" \notin Working
    BY DEF Pcs, Working
  <2>3. r.exit # "none" => proc[s] = "exited"
    BY <1>1, <2>1 DEF StartFits
  <2>4. proc[s] = "alive" => (s \in known /\ x # "closed" /\ r.handle) \/ ~Serving
    BY <1>0, <1>1, <2>1 DEF ChildFits
  <2> QED
    BY <1>0, <1>3, <1>5, <2>1, <2>2, <2>3, <2>4, WorkerSection
<1>6. CASE /\ s \in known /\ rec[s].scheduled /\ ~rec[s].started
           /\ ~(state[s] \in {"starting", "closing"})
           /\ Locked(Lane(s), s, <<>>, [rec[s] EXCEPT !.scheduled = FALSE], <<>>)
           /\ Goto(Lane(s), "done")
  <2> DEFINE r == [rec[s] EXCEPT !.scheduled = FALSE]
  <2>1. /\ r \in RecordType /\ r.exit = rec[s].exit /\ r.handle = rec[s].handle
        /\ r.started = rec[s].started /\ r.result = rec[s].result
        /\ r.deferred = rec[s].deferred /\ r.capable = rec[s].capable
    BY <1>0 DEF RecordType
  <2>2. Locked(Lane(s), s, <<>>, r, <<>>) /\ state[s] # "starting" /\ Goto(Lane(s), "done")
    BY <1>6
  <2> HIDE DEF r
  <2>3. RecordFits(s, r, state[s])
    BY <1>0, <1>1, <2>1, RecordKept
  <2>4. Summary(Lane(s), s, state[s], r, <<>>, {})
    BY <1>0, <1>1, <1>4, <2>2, <2>3, StaySummary
  <2>5. "done" \in Pcs \ {"idle"} /\ "done" \notin Working
    BY DEF Pcs, Working
  <2>6. r.exit # "none" => proc[s] = "exited"
    BY <1>1, <2>1 DEF StartFits
  <2>7. proc[s] = "alive" => (s \in known /\ state[s] # "closed" /\ r.handle) \/ ~Serving
    BY <1>0, <1>1, <2>1 DEF ChildFits
  <2> QED
    BY <1>0, <1>3, <2>2, <2>4, <2>5, <2>6, <2>7, WorkerSection
<1>7. CASE /\ s \in known /\ rec[s].scheduled /\ ~rec[s].started
           /\ state[s] \in {"starting", "closing"}
           /\ Locked(Lane(s), s, <<>>,
                     [rec[s] EXCEPT !.scheduled = FALSE, !.started = TRUE,
                                    !.capable = TerminalCapable], <<>>)
           /\ Goto(Lane(s), "launch")
  <2> DEFINE r == [rec[s] EXCEPT !.scheduled = FALSE, !.started = TRUE,
                                 !.capable = TerminalCapable]
  <2>1. /\ r \in RecordType /\ r.exit = rec[s].exit /\ r.handle = rec[s].handle
        /\ r.started /\ r.result = rec[s].result
        /\ r.deferred = rec[s].deferred /\ r.capable = TerminalCapable
    BY <1>0 DEF RecordType
  <2>2. Locked(Lane(s), s, <<>>, r, <<>>) /\ Goto(Lane(s), "launch")
    BY <1>7
  <2> HIDE DEF r
  <2>3. RecordFits(s, r, state[s])
    BY <1>0, <2>1 DEF RecordFits, Control, VerdictFits
  <2>4. Summary(Lane(s), s, state[s], r, <<>>, {})
    BY <1>0, <1>1, <1>4, <2>2, <2>3, StaySummary
  <2>5. "launch" \in Pcs \ {"idle"} /\ "launch" \notin {"build", "spawn"}
    BY DEF Pcs
  <2>6. r.exit # "none" => proc[s] = "exited"
    BY <1>1, <2>1 DEF StartFits
  <2>7. proc[s] = "none" /\ grace[s] = "off" /\ todo[Timer(s)] = <<>>
    BY <1>1, <1>7 DEF StartFits
  <2> QED
    BY <1>0, <1>3, <2>1, <2>2, <2>4, <2>5, <2>6, <2>7, WorkerSection
<1> QED
  BY <1>5, <1>6, <1>7 DEF StartClaim

\* The launch builder raised.
LEMMA StartFailedStep ==
    ASSUME IInv, NEW s \in Session, StartFailed(s) PROVE IInv'
<1>0. /\ step[Lane(s)] = "startFailed" /\ todo[Lane(s)] = <<>> /\ StartupFailed(s)
      /\ Goto(Lane(s), "done")
      /\ UNCHANGED <<laneVars, serverVars, proc, exitCode, ptyVars, diagVars, toldVars, notified>>
  BY DEF StartFailed, At, procVars
<1>1. state[s] # "none" /\ StartFits(s) /\ ChildFits(s)
  BY <1>0, InvariantFacts DEF Control
<1>2. PICK x, r, q, K : /\ Summary(Lane(s), s, x, r, q, K)
                        /\ x # "starting" /\ (x = "closed" => state[s] = "closed")
                        /\ r.exit = rec[s].exit /\ r.handle = rec[s].handle
                        /\ r.started = rec[s].started
  BY <1>0, <1>1, StartupSummary
<1>3. "done" \in Pcs \ {"idle"} /\ "done" \notin Working
  BY DEF Pcs, Working
<1>4. r.exit # "none" => proc[s] = "exited"
  BY <1>1, <1>2 DEF StartFits
<1>5. proc[s] = "alive" => (s \in known /\ x # "closed" /\ r.handle) \/ ~Serving
  BY <1>0, <1>1, <1>2 DEF ChildFits
<1> QED
  BY <1>0, <1>2, <1>3, <1>4, <1>5, WorkerSection

\* The worker learns whether the launch is instrumented.
LEMMA StartEngageStep ==
    ASSUME IInv, NEW s \in Session, StartEngage(s) PROVE IInv'
<1> DEFINE primary == rec[s].diagPrimary \/ lease[s] \in {"engaged", "orphan"}
           r == [rec[s] EXCEPT !.diagPrimary = primary]
<1>0. /\ step[Lane(s)] = "spawned" /\ todo[Lane(s)] = <<>> /\ Locked(Lane(s), s, <<>>, r, <<>>)
      /\ Lane(s) \in Thread /\ rec[s] \in RecordType /\ 0 \in Nat /\ primary \in BOOLEAN
      /\ UNCHANGED <<laneVars, serverVars, proc, exitCode, ptyVars, diagVars, toldVars, notified>>
  BY InvariantFacts, ThreadFacts DEF StartEngage, At, procVars
<1>1. PICK pc \in {"gate", "attach"} : Goto(Lane(s), pc)
  BY DEF StartEngage
<1>2. state[s] # "none" /\ StartFits(s) /\ ChildFits(s) /\ state[s] \in Resting
  BY <1>0, InvariantFacts, RestingFacts DEF Control
<1>3. rec[s].started
  BY <1>0, <1>2 DEF StartFits
<1>4. /\ r \in RecordType /\ r.exit = rec[s].exit /\ r.handle = rec[s].handle
      /\ r.started = rec[s].started /\ r.result = rec[s].result
      /\ r.deferred = rec[s].deferred /\ r.capable = rec[s].capable
  BY <1>0 DEF RecordType
<1> HIDE DEF r, primary
<1>5. RecordFits(s, r, state[s])
  BY <1>2, <1>4, RecordKept
<1>6. Tidy(<<>>, s, {}) /\ Mute(<<>>)
  BY <1>0, TidyOne, MuteOne
<1>7. Summary(Lane(s), s, state[s], r, <<>>, {})
  BY <1>0, <1>2, <1>5, <1>6, StaySummary
<1>8. pc \in Pcs \ {"idle"} /\ pc \notin {"build", "spawn", "launch", "bare"} /\ pc \in Holding
  BY DEF Pcs, Holding
<1>9. r.exit # "none" => proc[s] = "exited"
  BY <1>2, <1>4 DEF StartFits
<1> QED
  BY <1>0, <1>1, <1>3, <1>4, <1>7, <1>8, <1>9, WorkerSection

\* The auth gate lets the startup go on, or refuses it.
LEMMA StartGateStep ==
    ASSUME IInv, NEW s \in Session, StartGate(s) PROVE IInv'
<1>0. /\ step[Lane(s)] = "gate" /\ todo[Lane(s)] = <<>>
      /\ Lane(s) \in Thread /\ Lane(s) # Closer /\ OtherTypes /\ Control(s)
      /\ UNCHANGED <<laneVars, serverVars, proc, exitCode, ptyVars, diagVars, toldVars, notified>>
  BY InvariantFacts, ThreadFacts DEF StartGate, At, procVars, Lone
<1>1. state[s] # "none" /\ StartFits(s) /\ ChildFits(s) /\ rec[s].started
  BY <1>0, InvariantFacts DEF Control, StartFits
<1>2. CASE Goto(Lane(s), "reap") /\ StartupFailed(s)
  <2>1. PICK x, r, q, K : /\ Summary(Lane(s), s, x, r, q, K)
                          /\ x # "starting" /\ (x = "closed" => state[s] = "closed")
                          /\ r.exit = rec[s].exit /\ r.handle = rec[s].handle
                          /\ r.started = rec[s].started
    BY <1>0, <1>1, <1>2, StartupSummary
  <2>2. "reap" \in Pcs \ {"idle"} /\ "reap" \in Holding
    BY DEF Pcs, Holding
  <2>3. r.exit # "none" => proc[s] = "exited"
    BY <1>1, <2>1 DEF StartFits
  <2> QED
    BY <1>0, <1>1, <1>2, <2>1, <2>2, <2>3, WorkerSection
<1>3. CASE Goto(Lane(s), "attach") /\ UNCHANGED <<recordVars, todo>>
  <2>1. /\ step'[Lane(s)] = "attach" /\ step' \in [Thread -> Pcs] /\ step'[Closer] = step[Closer]
        /\ \A u \in Thread \ {Lane(s)} : step'[u] = step[u]
    BY <1>0, <1>3, GotoFacts, ThreadFacts DEF Pcs, Lone
  <2>2. /\ UNCHANGED <<state, rec, known, todo, lane, busy, toReject, toClose, target, closes,
                       proc, exitCode, notified, evidence, chunks, lease, decisive, inflight, grace,
                       told, delivered>>
        /\ UNCHANGED <<recordVars, toldVars>>
    BY <1>0, <1>3 DEF recordVars, laneVars, serverVars, ptyVars, diagVars, toldVars
  <2>3. OtherTypes'
    BY <1>0, <2>1, <2>2, SMTT(30) DEF OtherTypes, LaneTypes
  <2>4. StartFits(s)' /\ ChildFits(s)' /\ VerdictFits(s)'
    <3>1. StartFits(s)'
      BY <1>0, <2>1, <2>2 DEF Control, StartFits
    <3>2. ChildFits(s)'
      BY <1>0, <2>1, <2>2 DEF Control, ChildFits, Serving
    <3>3. VerdictFits(s)'
      BY <1>0, <2>2 DEF Control, VerdictFits
    <3> QED
      BY <3>1, <3>2, <3>3
  <2> QED
    BY <1>0, <2>1, <2>2, <2>3, <2>4, LaneInner
<1> QED
  BY <1>2, <1>3 DEF StartGate

\* A failed verdict was parked; a verdict is awaited; a close or the end of the
\* session overtook the startup.
LEMMA AttachStep ==
    ASSUME IInv, NEW s \in Session, step[Lane(s)] = "attach", todo[Lane(s)] = <<>>,
           AttachFailed(s) \/ AttachWaiting(s) \/ AttachClosing(s) \/ AttachLate(s),
           UNCHANGED <<laneVars, serverVars, procVars, ptyVars, diagVars, toldVars>>
    PROVE  IInv'
<1>0. /\ Lane(s) \in Thread /\ rec[s] \in RecordType /\ 0 \in Nat /\ <<>> \in Seq(Nat) /\ TypeOK
      /\ UNCHANGED <<laneVars, serverVars, proc, exitCode, ptyVars, diagVars, toldVars, notified>>
  BY InvariantFacts, ThreadFacts DEF procVars
<1>1. /\ state[s] # "none" /\ StateFits(s) /\ StartFits(s) /\ ChildFits(s) /\ VerdictFits(s)
      /\ state[s] \in Resting /\ rec[s].started
  BY InvariantFacts, RestingFacts DEF Control, StartFits
<1>2. Tidy(<<>>, s, {}) /\ Mute(<<>>)
  BY <1>0, TidyOne, MuteOne
<1>3. /\ "done" \in Pcs \ {"idle"} /\ "done" \notin Working
      /\ "reap" \in Pcs \ {"idle"} /\ "reap" \in Holding
  BY DEF Pcs, Working, Holding
<1>4. rec[s].exit # "none" => proc[s] = "exited"
  BY <1>1 DEF StartFits
<1>5. CASE AttachFailed(s)
  <2> DEFINE r == [rec[s] EXCEPT !.handle = TRUE, !.detail = TRUE, !.failure = TRUE]
             q == Publish(s, "failed") \o FinishReadiness(s)
  <2>1. /\ r \in RecordType /\ r.exit = rec[s].exit
        /\ r.started = rec[s].started /\ r.result = rec[s].result
        /\ r.deferred = rec[s].deferred /\ r.capable = rec[s].capable
    BY <1>0 DEF RecordType
  <2>2. Locked(Lane(s), s, <<"failed">>, r, q) /\ Goto(Lane(s), "reap") /\ state[s] = "starting"
    BY <1>5 DEF AttachFailed
  <2>3. Tidy(q, s, {"failed"}) /\ Mute(q)
    <3>1. /\ Tidy(FinishReadiness(s), s, {}) /\ Tidy(Publish(s, "failed"), s, {"failed"})
          /\ Mute(FinishReadiness(s)) /\ Mute(Publish(s, "failed"))
      BY <1>0, TidyOne, MuteOne DEF Kinds, States
    <3>2. Tidy(q, s, {"failed"} \union {}) /\ {"failed"} \union {} = {"failed"}
      BY <3>1, TidyCat
    <3> QED
      BY <3>1, <3>2, MuteCat DEF Tidy
  <2> HIDE DEF r, q
  <2>4. RecordFits(s, r, "failed")
    BY <2>1, RecordKept DEF Resting
  <2>5. Summary(Lane(s), s, "failed", r, q, {"failed"})
    BY <1>0, <2>2, <2>3, <2>4, MoveSummary
  <2> QED
    BY <1>0, <1>1, <1>3, <1>4, <2>1, <2>2, <2>5, WorkerSection
<1>6. CASE AttachWaiting(s)
  <2> DEFINE r == [rec[s] EXCEPT !.handle = TRUE]
  <2>1. /\ r \in RecordType /\ r.exit = rec[s].exit /\ r.handle
        /\ r.started = rec[s].started /\ r.result = rec[s].result
        /\ r.deferred = rec[s].deferred /\ r.capable = rec[s].capable
    BY <1>0 DEF RecordType
  <2>2. Locked(Lane(s), s, <<>>, r, <<>>) /\ Goto(Lane(s), "done") /\ state[s] = "starting"
    BY <1>6 DEF AttachWaiting
  <2> HIDE DEF r
  <2>3. RecordFits(s, r, state[s])
    BY <1>1, <2>1, RecordKept
  <2>4. Summary(Lane(s), s, state[s], r, <<>>, {})
    BY <1>0, <1>1, <1>2, <2>2, <2>3, StaySummary
  <2>5. s \in known
    BY <1>1, <2>2 DEF StateFits
  <2> QED
    BY <1>0, <1>1, <1>3, <1>4, <2>1, <2>2, <2>4, <2>5, WorkerSection
<1>7. CASE AttachClosing(s)
  <2> DEFINE r == [rec[s] EXCEPT !.handle = TRUE, !.deferred = <<>>]
  <2>1. /\ r \in RecordType /\ r.exit = rec[s].exit /\ r.handle
        /\ r.started = rec[s].started /\ r.result = rec[s].result
        /\ r.deferred = <<>> /\ r.capable = rec[s].capable
    BY <1>0 DEF RecordType
  <2>2. Locked(Lane(s), s, <<>>, r, <<>>) /\ Goto(Lane(s), "done") /\ state[s] = "closing"
    BY <1>7 DEF AttachClosing
  <2> HIDE DEF r
  <2>3. RecordFits(s, r, state[s])
    BY <1>1, <2>1, <2>2 DEF RecordFits, VerdictFits
  <2>4. Summary(Lane(s), s, state[s], r, <<>>, {})
    BY <1>0, <1>1, <1>2, <2>2, <2>3, StaySummary
  <2>5. s \in known /\ state[s] # "closed"
    BY <1>1, <2>2 DEF StateFits
  <2> QED
    BY <1>0, <1>1, <1>3, <1>4, <2>1, <2>2, <2>4, <2>5, WorkerSection
<1>8. CASE AttachLate(s)
  <2>1. Locked(Lane(s), s, <<>>, rec[s], <<>>) /\ Goto(Lane(s), "reap")
    BY <1>8 DEF AttachLate, LeavesRecord
  <2>2. RecordFits(s, rec[s], state[s])
    BY <1>0, <1>1, RecordKept
  <2>3. Summary(Lane(s), s, state[s], rec[s], <<>>, {})
    BY <1>0, <1>1, <1>2, <2>1, <2>2, StaySummary
  <2> QED
    BY <1>0, <1>1, <1>3, <1>4, <2>1, <2>3, WorkerSection
<1> QED
  BY <1>5, <1>6, <1>7, <1>8

\* The worker's wait for the child it reaps is over.
LEMMA StartReapedStep ==
    ASSUME IInv, NEW s \in Session, StartReaped(s) PROVE IInv'
<1>0. /\ step[Lane(s)] = "reaping" /\ todo[Lane(s)] = <<>> /\ Goto(Lane(s), "done")
      /\ Lane(s) \in Thread /\ Lane(s) # Closer /\ OtherTypes /\ Control(s) /\ 0 \in Nat
      /\ UNCHANGED <<laneVars, serverVars, proc, exitCode, ptyVars, diagVars, toldVars>>
  BY InvariantFacts, ThreadFacts DEF StartReaped, At, Lone
<1>1. state[s] # "none" /\ StartFits(s) /\ ChildFits(s) /\ rec[s].started
  BY <1>0, InvariantFacts DEF Control, StartFits
<1>2. "done" \in Pcs \ {"idle"} /\ "done" \notin Working
  BY DEF Pcs, Working
<1>3. CASE /\ proc[s] = "exited" /\ notified' = [notified EXCEPT ![s] = @ \union {"exit"}]
           /\ ProcessExited(Lane(s), s, <<>>)
  <2>1. Tidy(<<>>, s, {}) /\ Mute(<<>>)
    BY <1>0, TidyOne, MuteOne
  <2>2. PICK x, r, q, K : /\ Summary(Lane(s), s, x, r, q, K)
                          /\ r.exit \in {rec[s].exit, exitCode[s]}
                          /\ r.handle => rec[s].handle
                          /\ x # "closed" => x = state[s] /\ r.handle = rec[s].handle
    BY <1>0, <1>1, <1>3, <2>1, ExitSummary
  <2>3. r.started
    BY <1>1, <2>2 DEF Summary
  <2> QED
    BY <1>0, <1>2, <1>3, <2>2, <2>3, WorkerSection
<1>4. CASE UNCHANGED <<recordVars, todo, notified>>
  <2>1. /\ step'[Lane(s)] = "done" /\ step' \in [Thread -> Pcs] /\ step'[Closer] = step[Closer]
        /\ \A u \in Thread \ {Lane(s)} : step'[u] = step[u]
    BY <1>0, GotoFacts, ThreadFacts DEF Pcs, Lone
  <2>2. /\ UNCHANGED <<state, rec, known, todo, lane, busy, toReject, toClose, target, closes,
                       proc, exitCode, notified, evidence, chunks, lease, decisive, inflight, grace,
                       told, delivered>>
        /\ UNCHANGED <<recordVars, toldVars>>
    BY <1>0, <1>4 DEF recordVars, laneVars, serverVars, ptyVars, diagVars, toldVars
  <2>3. OtherTypes'
    BY <1>0, <2>1, <2>2 DEF OtherTypes, LaneTypes
  <2>4. StartFits(s)' /\ ChildFits(s)' /\ VerdictFits(s)'
    <3>1. StartFits(s)'
      BY <1>0, <2>1, <2>2 DEF Control, StartFits
    <3>2. ChildFits(s)'
      BY <1>0, <2>1, <2>2 DEF Control, ChildFits, Serving
    <3>3. VerdictFits(s)'
      BY <1>0, <2>2 DEF Control, VerdictFits
    <3> QED
      BY <3>1, <3>2, <3>3
  <2> QED
    BY <1>0, <2>1, <2>2, <2>3, <2>4, LaneInner
<1> QED
  BY <1>3, <1>4 DEF StartReaped

-----------------------------------------------------------------------------
(* Output that changes its place.                                          *)

\* In the list c the chunks d of session s stand from position m + 1 on, and what
\* thread t owed before is shifted by off.
Released(t, s, c, d, m, off) ==
    /\ \A i \in 1..Len(c) : \A n \in Nat : Sends(c[i], s, n) =>
          \/ \E k \in 1..Len(d) : i = m + k /\ n = d[k]
          \/ i - off \in 1..Len(todo[t]) /\ c[i] = todo[t][i - off]
    /\ \A k \in 1..Len(d) : m + k \in 1..Len(c) /\ Sends(c[m + k], s, d[k])
    /\ \A k \in 1..Len(todo[t]) : \A n \in Nat : Sends(todo[t][k], s, n) =>
          k + off \in 1..Len(c) /\ c[k + off] = todo[t][k]

\* The deferred output is owed to the terminal callbacks.
LEMMA OutputReleased ==
    ASSUME TypeOK, NEW t \in Thread, NEW s \in Session, NEW c, NEW d \in Seq(Nat),
           NEW m \in Int, NEW off \in Int, OutputFits(s),
           todo' = [todo EXCEPT ![t] = c], d = rec[s].deferred, rec'[s].deferred = <<>>,
           delivered'[s] = delivered[s], chunks'[s] = chunks[s],
           Released(t, s, c, d, m, off),
           state'[s] \in {"starting", "running"} => state[s] \in {"starting", "running"}
    PROVE  OutputFits(s)'
<1>0. /\ \A i \in 1..Len(c) : \A n \in Nat : Sends(c[i], s, n) =>
            \/ \E k \in 1..Len(d) : i = m + k /\ n = d[k]
            \/ i - off \in 1..Len(todo[t]) /\ c[i] = todo[t][i - off]
      /\ \A k \in 1..Len(d) : m + k \in 1..Len(c) /\ Sends(c[m + k], s, d[k])
      /\ \A k \in 1..Len(todo[t]) : \A n \in Nat : Sends(todo[t][k], s, n) =>
            k + off \in 1..Len(c) /\ c[k + off] = todo[t][k]
  BY DEF Released
<1>1. todo'[t] = c /\ \A u \in Thread \ {t} : todo'[u] = todo[u]
  BY DEF TypeOK
<1>2. \A k \in 1..Len(d) : d[k] \in Nat
  BY ElementOfSeq, LenProperties
<1>3. Len(rec'[s].deferred) = 0
  OBVIOUS
<1>4. \A n \in Nat : ~Deferred(s, n)'
  BY <1>3 DEF Deferred
<1>5. ASSUME NEW n \in Nat, NEW u \in Thread, NEW i \in 1..Len(todo'[u]), Sends(todo'[u][i], s, n)
      PROVE  \/ u = t /\ \E k \in 1..Len(d) : i = m + k /\ n = d[k]
             \/ u = t /\ i - off \in 1..Len(todo[t]) /\ Sends(todo[t][i - off], s, n)
             \/ u # t /\ i \in 1..Len(todo[u]) /\ Sends(todo[u][i], s, n)
  <2>1. CASE u = t
    <3>1. i \in 1..Len(c) /\ Sends(c[i], s, n)
      BY <1>1, <1>5, <2>1
    <3>2. \/ \E k \in 1..Len(d) : i = m + k /\ n = d[k]
          \/ i - off \in 1..Len(todo[t]) /\ c[i] = todo[t][i - off]
      BY <1>0, <3>1
    <3> QED
      BY <2>1, <3>1, <3>2
  <2>2. CASE u # t
    BY <1>1, <1>5, <2>2
  <2> QED
    BY <2>1, <2>2
<1>6. ASSUME NEW n \in Nat PROVE Sending(s, n)' <=> Sending(s, n) \/ Deferred(s, n)
  <2>1. ASSUME NEW u \in Thread, NEW i \in 1..Len(todo'[u]), Sends(todo'[u][i], s, n)
        PROVE  Sending(s, n) \/ Deferred(s, n)
    <3>1. \/ \E k \in 1..Len(d) : i = m + k /\ n = d[k]
          \/ i - off \in 1..Len(todo[t]) /\ Sends(todo[t][i - off], s, n)
          \/ i \in 1..Len(todo[u]) /\ Sends(todo[u][i], s, n)
      BY <1>5, <2>1
    <3> QED
      BY <3>1 DEF Sending, Deferred
  <2>2. Deferred(s, n) => Sending(s, n)'
    BY <1>0, <1>1 DEF Deferred, Sending
  <2>3. ASSUME NEW u \in Thread, NEW i \in 1..Len(todo[u]), Sends(todo[u][i], s, n)
        PROVE  Sending(s, n)'
    <3>1. CASE u = t
      <4>1. i + off \in 1..Len(c) /\ c[i + off] = todo[t][i]
        BY <1>0, <2>3, <3>1
      <4> QED
        BY <1>1, <2>3, <3>1, <4>1 DEF Sending
    <3>2. CASE u # t
      BY <1>1, <2>3, <3>2 DEF Sending
    <3> QED
      BY <3>1, <3>2
  <2> QED
    BY <2>1, <2>2, <2>3 DEF Sending
<1>7. ASSUME NEW n \in Nat, NEW u \in Thread, NEW v \in Thread, NEW i \in 1..Len(todo'[u]),
             NEW j \in 1..Len(todo'[v]), Sends(todo'[u][i], s, n), Sends(todo'[v][j], s, n)
      PROVE  u = v /\ i = j
  <2> DEFINE New(w, k) == w = t /\ \E l \in 1..Len(d) : k = m + l /\ n = d[l]
             Kept(w, k) == w = t /\ k - off \in 1..Len(todo[t]) /\ Sends(todo[t][k - off], s, n)
             Other(w, k) == w # t /\ k \in 1..Len(todo[w]) /\ Sends(todo[w][k], s, n)
  <2>1. (New(u, i) \/ Kept(u, i) \/ Other(u, i)) /\ (New(v, j) \/ Kept(v, j) \/ Other(v, j))
    BY <1>5, <1>7
  <2>2. New(u, i) /\ New(v, j) => u = v /\ i = j
    <3>1. \A k, l \in 1..Len(d) : d[k] = d[l] => k = l
      BY DEF OutputFits
    <3> QED
      BY <3>1
  <2>3. New(u, i) \/ New(v, j) => Deferred(s, n)
    BY DEF Deferred
  <2>4. ~(Deferred(s, n) /\ Sending(s, n))
    BY DEF OutputFits
  <2>5. Kept(u, i) \/ Other(u, i) \/ Kept(v, j) \/ Other(v, j) => Sending(s, n)
    BY DEF Sending
  <2>6. \A w, z \in Thread : \A k \in 1..Len(todo[w]), l \in 1..Len(todo[z]) :
           Sends(todo[w][k], s, n) /\ Sends(todo[z][l], s, n) => w = z /\ k = l
    BY DEF OutputFits
  <2>7. Kept(u, i) /\ Kept(v, j) => u = v /\ i = j
    <3>1. Kept(u, i) /\ Kept(v, j) => i - off = j - off
      BY <2>6
    <3>2. i \in Int /\ j \in Int
      OBVIOUS
    <3> QED
      BY <3>1, <3>2
  <2>8. Kept(u, i) /\ Other(v, j) => FALSE
    BY <2>6
  <2>9. Other(u, i) /\ Kept(v, j) => FALSE
    BY <2>6
  <2>10. Other(u, i) /\ Other(v, j) => u = v /\ i = j
    BY <2>6
  <2> HIDE DEF New, Kept, Other
  <2> QED
    BY <2>1, <2>2, <2>3, <2>4, <2>5, <2>7, <2>8, <2>9, <2>10
<1>8. \A n \in Nat : Delivered(s, n)' <=> Delivered(s, n)
  BY DEF Delivered
<1>9. \A n \in Nat : Deferred(s, n)' \/ Sending(s, n)' \/ Delivered(s, n)' => n \in 1..chunks'[s]
  BY <1>4, <1>6, <1>8 DEF OutputFits
<1>10. \A n \in Nat : /\ ~(Deferred(s, n)' /\ Sending(s, n)') /\ ~(Deferred(s, n)' /\ Delivered(s, n)')
                      /\ ~(Sending(s, n)' /\ Delivered(s, n)')
  BY <1>4, <1>6, <1>8 DEF OutputFits
<1>11. \A i, j \in 1..Len(delivered'[s]) : delivered'[s][i] = delivered'[s][j] => i = j
  BY DEF OutputFits
<1>12. ASSUME state'[s] \in {"starting", "running"}, NEW n \in 1..chunks'[s]
       PROVE  (Deferred(s, n) \/ Sending(s, n) \/ Delivered(s, n))'
  <2>1. n \in Nat /\ n \in 1..chunks[s]
    BY <1>12
  <2>2. Deferred(s, n) \/ Sending(s, n) \/ Delivered(s, n)
    BY <1>12, <2>1 DEF OutputFits
  <2> QED
    BY <1>6, <1>8, <2>1, <2>2
<1> QED
  BY <1>3, <1>7, <1>9, <1>10, <1>11, <1>12 DEF OutputFits

\* The child has produced chunk n.
LEMMA OutputArrives ==
    ASSUME TypeOK, NEW t \in Thread, NEW s \in Session, NEW q, OutputFits(s),
           todo[t] = <<>>, todo' = [todo EXCEPT ![t] = q], delivered'[s] = delivered[s],
           NEW n \in Nat, n = chunks[s] + 1, chunks'[s] = n,
           \/ /\ rec'[s].deferred = Append(rec[s].deferred, n)
              /\ \A i \in 1..Len(q) : \A k \in Nat : ~Sends(q[i], s, k)
              /\ state[s] # "running"
           \/ /\ rec'[s].deferred = rec[s].deferred
              /\ \A i \in 1..Len(q) : \A k \in Nat : Sends(q[i], s, k) => i = Len(q) /\ k = n
              /\ state[s] \in {"starting", "running"} => Len(q) \in 1..Len(q) /\ Sends(q[Len(q)], s, n),
           state'[s] \in {"starting", "running"} => state[s] \in {"starting", "running"},
           state'[s] = "running" => state[s] = "running" \/ Flushes(q, s)
    PROVE  OutputFits(s)'
<1> DEFINE d == rec[s].deferred
           here == rec'[s].deferred = Append(d, n)
<1>1. /\ todo'[t] = q /\ \A u \in Thread \ {t} : todo'[u] = todo[u]
      /\ d \in Seq(Nat) /\ chunks[s] \in Nat
  BY DEF TypeOK, RecordType
<1>2. Len(d) \in Nat /\ Len(todo[t]) = 0 /\ Len(<<>>) = 0
  BY <1>1, LenProperties
<1>3. here => /\ Len(rec'[s].deferred) = Len(d) + 1
              /\ \A i \in 1..Len(d) : rec'[s].deferred[i] = d[i]
              /\ rec'[s].deferred[Len(d) + 1] = n
              /\ \A i \in 1..Len(rec'[s].deferred) : i \in 1..Len(d) \/ i = Len(d) + 1
  BY <1>1, <1>2, SMTT(30)
<1>4. ASSUME NEW k \in Nat PROVE Deferred(s, k)' <=> Deferred(s, k) \/ (here /\ k = n)
  <2>1. CASE here
    <3>1. Len(d) + 1 \in 1..Len(rec'[s].deferred) /\ \A i \in 1..Len(d) : i \in 1..Len(rec'[s].deferred)
      BY <1>2, <1>3, <2>1
    <3>2. Deferred(s, k)' => Deferred(s, k) \/ k = n
      BY <1>3, <2>1 DEF Deferred
    <3>3. Deferred(s, k) => Deferred(s, k)'
      BY <1>3, <2>1, <3>1 DEF Deferred
    <3>4. k = n => Deferred(s, k)'
      BY <1>3, <2>1, <3>1 DEF Deferred
    <3> QED
      BY <2>1, <3>2, <3>3, <3>4
  <2>2. CASE ~here
    BY <2>2 DEF Deferred
  <2> QED
    BY <2>1, <2>2
<1>5. ASSUME NEW k \in Nat, NEW u \in Thread, NEW i \in 1..Len(todo'[u]), Sends(todo'[u][i], s, k)
      PROVE  \/ u = t /\ i = Len(q) /\ k = n /\ ~here
             \/ u # t /\ i \in 1..Len(todo[u]) /\ Sends(todo[u][i], s, k)
  <2>1. CASE u = t
    <3>1. i \in 1..Len(q) /\ Sends(q[i], s, k)
      BY <1>1, <1>5, <2>1
    <3>2. ~here
      <4>1. here => rec'[s].deferred # rec[s].deferred
        BY <1>2, <1>3
      <4> QED
        BY <3>1, <4>1
    <3> QED
      BY <2>1, <3>1, <3>2
  <2>2. CASE u # t
    BY <1>1, <1>5, <2>2
  <2> QED
    BY <2>1, <2>2
<1>6. ASSUME NEW k \in Nat PROVE Sending(s, k)' => Sending(s, k) \/ (k = n /\ ~here)
  BY <1>5 DEF Sending
<1>7. ASSUME NEW k \in Nat, Sending(s, k) PROVE Sending(s, k)'
  <2>1. PICK u \in Thread : \E i \in 1..Len(todo[u]) : Sends(todo[u][i], s, k)
    BY <1>7 DEF Sending
  <2>2. u # t
    BY <1>2, <2>1
  <2> QED
    BY <1>1, <2>1, <2>2 DEF Sending
<1>8. \A k \in Nat : Delivered(s, k)' <=> Delivered(s, k)
  BY DEF Delivered
<1>9. ~Deferred(s, n) /\ ~Sending(s, n) /\ ~Delivered(s, n)
  <2>1. n \notin 1..chunks[s]
    BY <1>1
  <2> QED
    BY <2>1 DEF OutputFits
<1>10. \A k \in Nat : Deferred(s, k)' \/ Sending(s, k)' \/ Delivered(s, k)' => k \in 1..chunks'[s]
  <2>1. \A k \in Nat : Deferred(s, k) \/ Sending(s, k) \/ Delivered(s, k) => k \in 1..chunks[s]
    BY DEF OutputFits
  <2> QED
    BY <1>1, <1>4, <1>6, <1>8, <2>1
<1>11. \A k \in Nat : /\ ~(Deferred(s, k)' /\ Sending(s, k)') /\ ~(Deferred(s, k)' /\ Delivered(s, k)')
                      /\ ~(Sending(s, k)' /\ Delivered(s, k)')
  <2>1. \A k \in Nat : /\ ~(Deferred(s, k) /\ Sending(s, k)) /\ ~(Deferred(s, k) /\ Delivered(s, k))
                       /\ ~(Sending(s, k) /\ Delivered(s, k))
    BY DEF OutputFits
  <2> HIDE DEF here
  <2> QED
    BY <1>4, <1>6, <1>8, <1>9, <2>1
<1>12. \A i, j \in 1..Len(rec'[s].deferred) : rec'[s].deferred[i] = rec'[s].deferred[j] => i = j
  <2>1. \A i, j \in 1..Len(d) : d[i] = d[j] => i = j
    BY DEF OutputFits
  <2>2. \A i \in 1..Len(d) : d[i] # n
    BY <1>9 DEF Deferred
  <2>3. CASE here
    BY <1>2, <1>3, <2>1, <2>2, <2>3
  <2>4. CASE ~here
    BY <2>1, <2>4
  <2> QED
    BY <2>3, <2>4
<1>13. \A i, j \in 1..Len(delivered'[s]) : delivered'[s][i] = delivered'[s][j] => i = j
  BY DEF OutputFits
<1>14. ASSUME NEW k \in Nat, NEW u \in Thread, NEW v \in Thread, NEW i \in 1..Len(todo'[u]),
              NEW j \in 1..Len(todo'[v]), Sends(todo'[u][i], s, k), Sends(todo'[v][j], s, k)
       PROVE  u = v /\ i = j
  <2>1. \/ u = t /\ i = Len(q) /\ k = n
        \/ u # t /\ i \in 1..Len(todo[u]) /\ Sends(todo[u][i], s, k)
    BY <1>5, <1>14
  <2>2. \/ v = t /\ j = Len(q) /\ k = n
        \/ v # t /\ j \in 1..Len(todo[v]) /\ Sends(todo[v][j], s, k)
    BY <1>5, <1>14
  <2>3. \A w \in Thread : \A l \in 1..Len(todo[w]) : Sends(todo[w][l], s, k) => k # n
    BY <1>9 DEF Sending
  <2>4. \A w, z \in Thread : \A l \in 1..Len(todo[w]), m \in 1..Len(todo[z]) :
           Sends(todo[w][l], s, k) /\ Sends(todo[z][m], s, k) => w = z /\ l = m
    BY DEF OutputFits
  <2> QED
    BY <2>1, <2>2, <2>3, <2>4
<1>15. ASSUME state'[s] \in {"starting", "running"}, NEW k \in 1..chunks'[s]
       PROVE  (Deferred(s, k) \/ Sending(s, k) \/ Delivered(s, k))'
  <2>1. k \in Nat /\ (k \in 1..chunks[s] \/ k = n)
    BY <1>1, <1>15
  <2>2. CASE k \in 1..chunks[s]
    <3>1. Deferred(s, k) \/ Sending(s, k) \/ Delivered(s, k)
      BY <1>15, <2>2 DEF OutputFits
    <3> QED
      BY <1>4, <1>7, <1>8, <2>1, <3>1
  <2>3. CASE k = n
    <3>1. here \/ (Len(q) \in 1..Len(q) /\ Sends(q[Len(q)], s, n))
      BY <1>15
    <3>2. CASE here
      BY <1>4, <2>1, <2>3, <3>2
    <3>3. CASE Len(q) \in 1..Len(q) /\ Sends(q[Len(q)], s, n)
      BY <1>1, <2>3, <3>3 DEF Sending
    <3> QED
      BY <3>1, <3>2, <3>3
  <2> QED
    BY <2>1, <2>2, <2>3
<1>16. ASSUME state'[s] = "running", rec'[s].deferred # <<>> PROVE Flushing(s)'
  <2>1. CASE Flushes(q, s)
    BY <2>1, <1>1 DEF Flushes, Flushing
  <2>2. CASE state[s] = "running"
    <3>1. PICK u \in Thread : \E i \in 1..Len(todo[u]) :
             todo[u][i].do = "flush" /\ todo[u][i].session = s
      BY <1>16, <2>2 DEF OutputFits, Flushing
    <3>2. u # t
      BY <1>2, <3>1
    <3> QED
      BY <1>1, <3>1, <3>2 DEF Flushing
  <2> QED
    BY <1>16, <2>1, <2>2
<1> QED
  BY <1>10, <1>11, <1>12, <1>13, <1>14, <1>15, <1>16 DEF OutputFits

-----------------------------------------------------------------------------
(* The promotion by the worker, the child and the diagnostics.             *)

\* The session is proven when its handle is stored; its deferred output is taken out.
LEMMA AttachRunningStep ==
    ASSUME IInv, NEW s \in Session, step[Lane(s)] = "attach", todo[Lane(s)] = <<>>,
           AttachRunning(s),
           UNCHANGED <<laneVars, serverVars, procVars, ptyVars, diagVars, toldVars>>
    PROVE  IInv'
<1> DEFINE d == rec[s].deferred
           a == Publish(s, "running")
           b == NotifyAuthenticated(s)
           p == a \o b
           z == DeferredOutputs(s, d)
           q == p \o z
           r == [rec[s] EXCEPT !.handle = TRUE, !.deferred = <<>>]
           K == {"running", "authenticated"}
<1>0. /\ Lane(s) \in Thread /\ Lane(s) # Closer /\ Lane(s) # Timer(s) /\ Timer(s) \in Thread
      /\ rec[s] \in RecordType /\ 0 \in Nat /\ <<>> \in Seq(Nat)
      /\ TypeOK /\ Kernel /\ OtherTypes /\ Control(s) /\ OutputFits(s)
      /\ state[s] = "starting" /\ Goto(Lane(s), "done") /\ rec[s].started
      /\ "running" \in Resting /\ "running" \in States /\ d \in Seq(Nat)
  <2>1. /\ Lane(s) \in Thread /\ Lane(s) # Closer /\ Lane(s) # Timer(s) /\ Timer(s) \in Thread
    BY ThreadFacts DEF Lone
  <2>2. rec[s] \in RecordType /\ TypeOK /\ Kernel /\ OtherTypes /\ Control(s) /\ OutputFits(s)
    BY InvariantFacts
  <2>3. d \in Seq(Nat)
    BY <2>2 DEF RecordType
  <2>4. state[s] = "starting" /\ Goto(Lane(s), "done") /\ rec[s].started
    BY <2>2 DEF AttachRunning, Control, StartFits
  <2> QED
    BY <2>1, <2>2, <2>3, <2>4 DEF Resting, States
<1>1. ~Cleared
  BY <1>0 DEF Control, ShutFits, Cleared
<1>2. Locked(Lane(s), s, <<"running">>, r, q)
  BY <1>1 DEF AttachRunning
<1>3. /\ r \in RecordType /\ r.exit = rec[s].exit /\ r.handle
      /\ r.started = rec[s].started /\ r.result = rec[s].result
      /\ r.deferred = <<>> /\ r.capable = rec[s].capable
  BY <1>0 DEF RecordType
<1>4. /\ Tidy(p, s, K) /\ Tidy(z, s, {})
      /\ p \in Seq(EffectType) /\ z \in Seq(EffectType) /\ Len(z) = Len(d) /\ Len(d) \in Nat
      /\ \A i \in 1..Len(d) : z[i].do = "output" /\ z[i].session = s /\ z[i].chunk = d[i]
  <2>1. Tidy(p, s, K)
    BY TidyRunning
  <2>2. /\ z \in Seq(EffectType) /\ Len(z) = Len(d) /\ Len(d) \in Nat
        /\ \A i \in 1..Len(d) : z[i].do = "output" /\ z[i].session = s /\ z[i].chunk = d[i]
        /\ Tidy(z, s, {})
    BY <1>0, DeferredList
  <2> HIDE DEF p, z
  <2> QED
    BY <2>1, <2>2 DEF Tidy
<1>5. Mute(p)
  <2>1. a \in Seq(EffectType) /\ b \in Seq(EffectType)
    BY DEF Publish, NotifyAuthenticated, Effect, EffectType, Kinds, States
  <2>2. Mute(a) /\ Mute(b)
    BY MuteOne DEF Kinds, States
  <2> QED
    BY <2>1, <2>2, MuteCat
<1> HIDE DEF p, z, r, d, K
<1>6. Tidy(q, s, K)
  <2>1. Tidy(p \o z, s, K \union {})
    BY <1>4, TidyCat
  <2> QED
    BY <2>1
<1>7. /\ q \in Seq(EffectType) /\ Len(p) \in Nat /\ Len(q) = Len(p) + Len(d)
      /\ \A i \in 1..Len(p) : q[i] = p[i]
      /\ \A k \in 1..Len(d) : q[Len(p) + k] = z[k]
      /\ \A i \in 1..Len(q) : i \in 1..Len(p) \/ \E k \in 1..Len(d) : i = Len(p) + k
  <2>1. /\ p \o z \in Seq(EffectType)
        /\ Len(p) \in Nat /\ Len(z) \in Nat /\ Len(p \o z) = Len(p) + Len(z)
        /\ \A i \in 1..Len(p) : (p \o z)[i] = p[i]
        /\ \A i \in 1..Len(z) : (p \o z)[Len(p) + i] = z[i]
        /\ \A i \in 1..Len(p \o z) : \/ i \in 1..Len(p)
                                     \/ \E j \in 1..Len(z) : i = Len(p) + j
    BY <1>4, CatFacts
  <2>2. Len(z) = Len(d)
    BY <1>4
  <2> QED
    BY <2>1, <2>2
<1> HIDE DEF q
<1>8. Section(Lane(s), s, "running", r, q)
  BY <1>0, <1>2, <1>7, LockedTo
<1>9. /\ state'[s] = "running" /\ rec'[s] = r /\ todo' = [todo EXCEPT ![Lane(s)] = q]
      /\ \A u \in Thread \ {Lane(s)} : todo'[u] = todo[u]
      /\ s \in known => s \in known'
  BY <1>0, <1>8 DEF Section, TypeOK
<1>10. UNCHANGED <<lane, busy, target, toReject, toClose, closes, proc, exitCode, notified, evidence,
                   chunks, lease, decisive, inflight, grace, told, delivered>>
  BY DEF laneVars, serverVars, procVars, ptyVars, diagVars, toldVars
<1>11. /\ step'[Lane(s)] = "done" /\ step' \in [Thread -> Pcs] /\ step'[Closer] = step[Closer]
       /\ \A u \in Thread \ {Lane(s)} : step'[u] = step[u]
  BY <1>0, GotoFacts, ThreadFacts DEF Pcs, Lone
<1>12. OtherTypes'
  BY <1>0, <1>10, <1>11 DEF OtherTypes, LaneTypes
<1>13. StartFits(s)' /\ ChildFits(s)' /\ VerdictFits(s)'
  <2>1. todo'[Timer(s)] = todo[Timer(s)]
    BY <1>0, <1>9
  <2>2. StartFits(s) /\ ChildFits(s) /\ VerdictFits(s) /\ s \in known
    BY <1>0 DEF Control, StateFits
  <2>3. StartFits(s)'
    BY <1>0, <1>3, <1>9, <1>10, <1>11, <2>1, <2>2 DEF StartFits
  <2>4. ChildFits(s)'
    BY <1>3, <1>9, <2>2 DEF ChildFits
  <2>5. VerdictFits(s)'
    BY <1>3, <1>9, <1>10, <2>2 DEF VerdictFits
  <2> QED
    BY <2>3, <2>4, <2>5
<1>14. OutputFits(s)'
  <2>1. ASSUME NEW i \in 1..Len(q), NEW n \in Nat, Sends(q[i], s, n)
        PROVE  \E k \in 1..Len(d) : i = Len(p) + k /\ n = d[k]
    <3>1. i \notin 1..Len(p)
      BY <1>5, <1>7, <2>1 DEF Mute, Sends
    <3>2. PICK k \in 1..Len(d) : i = Len(p) + k
      BY <1>7, <3>1
    <3>3. q[i] = z[k] /\ z[k].chunk = d[k]
      BY <1>4, <1>7, <3>2
    <3>4. n = d[k]
      BY <2>1, <3>3 DEF Sends
    <3> QED
      BY <3>2, <3>4
  <2>2. ASSUME NEW k \in 1..Len(d) PROVE Len(p) + k \in 1..Len(q) /\ Sends(q[Len(p) + k], s, d[k])
    <3>1. Len(p) + k \in 1..Len(q)
      BY <1>4, <1>7
    <3> QED
      BY <1>4, <1>7, <3>1 DEF Sends
  <2>3. Len(todo[Lane(s)]) = 0 /\ Len(p) \in Int /\ 0 \in Int
    BY <1>7
  <2>4. /\ d \in Seq(Nat) /\ d = rec[s].deferred /\ rec'[s].deferred = <<>>
        /\ delivered'[s] = delivered[s] /\ chunks'[s] = chunks[s]
    BY <1>0, <1>3, <1>9, <1>10 DEF d
  <2>5. state'[s] \in {"starting", "running"} => state[s] \in {"starting", "running"}
    BY <1>0
  <2>6. \A i \in 1..Len(q) : \A n \in Nat : Sends(q[i], s, n) =>
           \/ \E k \in 1..Len(d) : i = Len(p) + k /\ n = d[k]
           \/ i - 0 \in 1..Len(todo[Lane(s)]) /\ q[i] = todo[Lane(s)][i - 0]
    BY <2>1
  <2>7. \A k \in 1..Len(todo[Lane(s)]) : \A n \in Nat : Sends(todo[Lane(s)][k], s, n) =>
           k + 0 \in 1..Len(q) /\ q[k + 0] = todo[Lane(s)][k]
    BY <2>3
  <2>8. \A k \in 1..Len(d) : Len(p) + k \in 1..Len(q) /\ Sends(q[Len(p) + k], s, d[k])
    BY <2>2
  <2>9. TypeOK /\ OutputFits(s) /\ Lane(s) \in Thread /\ todo' = [todo EXCEPT ![Lane(s)] = q]
    BY <1>0, <1>9
  <2>10. PICK m \in Int : m = Len(p)
    BY <2>3
  <2>11. PICK off \in Int : off = 0
    BY <2>3
  <2>12. \A i \in 1..Len(q) : \A n \in Nat : Sends(q[i], s, n) =>
            \/ \E k \in 1..Len(d) : i = m + k /\ n = d[k]
            \/ i - off \in 1..Len(todo[Lane(s)]) /\ q[i] = todo[Lane(s)][i - off]
    BY <2>6, <2>10, <2>11
  <2>13. \A k \in 1..Len(todo[Lane(s)]) : \A n \in Nat : Sends(todo[Lane(s)][k], s, n) =>
            k + off \in 1..Len(q) /\ q[k + off] = todo[Lane(s)][k]
    BY <2>7, <2>11
  <2>14. \A k \in 1..Len(d) : m + k \in 1..Len(q) /\ Sends(q[m + k], s, d[k])
    BY <2>8, <2>10
  <2>15. Released(Lane(s), s, q, d, m, off)
    BY <2>12, <2>13, <2>14 DEF Released
  <2> HIDE DEF OutputFits
  <2> QED
    BY <2>4, <2>5, <2>9, <2>15, OutputReleased
<1>15. \A kind \in K : ~Past(s, kind) /\ Past(s, kind)'
  <2>1. News(s, "running") /\ News(s, "authenticated")
    BY <1>0, <1>9, NewsFacts
  <2> QED
    BY <2>1 DEF News, K
<1>16. Advance(state[s], "running")
  BY <1>0 DEF Advance
<1>17. /\ UNCHANGED <<told, target, toReject, toClose, lane, busy>>
       /\ notified[s] \subseteq notified'[s]
       /\ \A y \in Session \ {s} :
             /\ proc'[y] = proc[y] /\ grace'[y] = grace[y] /\ inflight'[y] = inflight[y]
             /\ notified'[y] = notified[y] /\ chunks'[y] = chunks[y]
             /\ decisive'[y] = decisive[y] /\ delivered'[y] = delivered[y]
       /\ step[Lane(s)] # "idle" /\ step'[Lane(s)] # "idle"
  BY <1>10, <1>11
<1>18. rec[s].started => r.started
  BY <1>3
<1>19. r.started
  BY <1>0, <1>3
<1> QED
  BY <1>0, <1>3, <1>6, <1>8, <1>11, <1>12, <1>13, <1>14, <1>15, <1>16, <1>17, <1>18, <1>19, LaneSection

\* The third critical section.
LEMMA StartAttachStep ==
    ASSUME IInv, NEW s \in Session, StartAttach(s) PROVE IInv'
<1>1. step[Lane(s)] = "attach" /\ todo[Lane(s)] = <<>>
      /\ UNCHANGED <<laneVars, serverVars, procVars, ptyVars, diagVars, toldVars>>
  BY DEF StartAttach, At
<1>2. CASE AttachRunning(s)
  BY <1>1, <1>2, AttachRunningStep
<1>3. CASE AttachFailed(s) \/ AttachWaiting(s) \/ AttachClosing(s) \/ AttachLate(s)
  BY <1>1, <1>3, AttachStep
<1> QED
  BY <1>2, <1>3 DEF StartAttach

\* A section of the reaper, the I/O thread, the monitor or the timer of s.
LEMMA ServeSection ==
    ASSUME IInv, NEW s \in Session, NEW t \in {Timer(s), IO, Reaper, Monitor},
           NEW x, NEW r, NEW q, NEW K, todo[t] = <<>>, Summary(t, s, x, r, q, K), rec[s].started,
           UNCHANGED <<step, laneVars, serverVars, proc, exitCode, ptyVars, lease, decisive, toldVars>>,
           \/ notified' = notified
           \/ \E e \in {"exit", "eof"} : notified' = [notified EXCEPT ![s] = @ \union {e}],
           inflight' = inflight \/ inflight' = [inflight EXCEPT ![s] = "none"],
           grace' = grace \/ grace' = [grace EXCEPT ![s] = "off"],
           t = Timer(s) => grace[s] = "fired" /\ grace' = [grace EXCEPT ![s] = "off"],
           r.exit # "none" => proc[s] = "exited",
           r.handle => rec[s].handle,
           proc[s] = "alive" => (x = "closed" => state[s] = "closed") /\ r.handle = rec[s].handle
    PROVE  IInv'
<1>0. /\ OtherTypes /\ Control(s) /\ state[s] # "none" /\ Timer(s) \in Thread /\ t \in Thread
  BY InvariantFacts, ThreadFacts DEF Lone
<1>1. UNCHANGED <<lane, busy, target, toReject, toClose, closes, proc, exitCode, evidence, chunks,
                  lease, decisive, told, delivered, step>>
  BY DEF laneVars, serverVars, ptyVars, toldVars
<1>2. /\ notified' \in [Session -> SUBSET {"exit", "eof"}] /\ notified[s] \subseteq notified'[s]
      /\ \A y \in Session \ {s} : notified'[y] = notified[y]
  <2>1. notified \in [Session -> SUBSET {"exit", "eof"}]
    BY <1>0 DEF OtherTypes
  <2>2. \/ notified' = notified
        \/ \E e \in {"exit", "eof"} : notified' = [notified EXCEPT ![s] = @ \union {e}]
    OBVIOUS
  <2> QED
    BY <2>1, <2>2
<1>3. /\ inflight' \in [Session -> {"none", "auth", "failed"}]
      /\ inflight'[s] = inflight[s] \/ inflight'[s] = "none"
      /\ \A y \in Session \ {s} : inflight'[y] = inflight[y]
  <2>1. inflight \in [Session -> {"none", "auth", "failed"}]
    BY <1>0 DEF OtherTypes
  <2>2. inflight' = inflight \/ inflight' = [inflight EXCEPT ![s] = "none"]
    OBVIOUS
  <2> QED
    BY <2>1, <2>2
<1>4. /\ grace' \in [Session -> {"off", "armed", "fired"}]
      /\ grace'[s] = grace[s] \/ grace'[s] = "off"
      /\ t = Timer(s) => grace'[s] = "off"
      /\ \A y \in Session \ {s} : grace'[y] = grace[y]
  <2>1. grace \in [Session -> {"off", "armed", "fired"}]
    BY <1>0 DEF OtherTypes
  <2>2. grace' = grace \/ grace' = [grace EXCEPT ![s] = "off"]
    OBVIOUS
  <2>3. t = Timer(s) => grace' = [grace EXCEPT ![s] = "off"]
    OBVIOUS
  <2> QED
    BY <2>1, <2>2, <2>3
<1>5. OtherTypes'
  <2>1. /\ notified' \in [Session -> SUBSET {"exit", "eof"}]
        /\ inflight' \in [Session -> {"none", "auth", "failed"}]
        /\ grace' \in [Session -> {"off", "armed", "fired"}]
    BY <1>2, <1>3, <1>4
  <2>2. /\ LaneTypes' /\ step' \in [Thread -> Pcs]
        /\ target' \in [{Selector, Closer} -> Session \union {NoSession}]
        /\ toReject' \subseteq Session /\ toClose' \subseteq Session
        /\ proc' \in [Session -> {"none", "alive", "signalled", "exited"}]
        /\ exitCode' \in [Session -> {"none", "clean", "error", "fatal"}]
        /\ evidence' \in [Session -> {"pending", "connected", "failed"}]
        /\ chunks' \in [Session -> Nat]
        /\ lease' \in [Session -> {"none", "subscribed", "engaged", "orphan"}]
        /\ decisive' \in [Session -> SUBSET {"auth", "failed"}]
        /\ told' \in [Session -> [Kinds -> Nat]]
        /\ delivered' \in [Session -> Seq(Nat)]
        /\ closes' \in [Session -> Nat]
    BY <1>0, <1>1, SMTT(30) DEF OtherTypes, LaneTypes
  <2> QED
    BY <2>1, <2>2 DEF OtherTypes
<1>6. /\ state'[s] = x /\ rec'[s] = r
      /\ s \in known /\ x # "closed" => s \in known'
      /\ t # Timer(s) => todo'[Timer(s)] = todo[Timer(s)]
  BY <1>0, <1>1, <1>3, SummaryFacts
<1>7. r.started
  BY DEF Summary
<1>8. StartFits(s)'
  <2>1. StartFits(s) /\ step' = step /\ proc' = proc
    BY <1>0, <1>1 DEF Control
  <2>2. step[Lane(s)] \in {"launch", "build"} => t # Timer(s)
    BY <2>1 DEF StartFits
  <2>3. todo'[Timer(s)] # <<>> => grace'[s] = "off"
    BY <1>4, <1>6, <2>1 DEF StartFits
  <2> QED
    BY <1>4, <1>6, <1>7, <2>1, <2>2, <2>3 DEF StartFits
<1>9. ChildFits(s)'
  BY <1>0, <1>1, <1>6 DEF Control, ChildFits, Serving
<1>10. /\ UNCHANGED <<told, target, toReject, toClose, lane, busy, chunks, decisive, delivered>>
       /\ \A y \in Session \ {s} :
             /\ proc'[y] = proc[y] /\ grace'[y] = grace[y] /\ inflight'[y] = inflight[y]
             /\ notified'[y] = notified[y]
  BY <1>1, <1>2, <1>3, <1>4
<1>11. \A u \in Thread \ {Lane(s)} : step'[u] = step[u]
  BY <1>1
<1>12. step'[Lane(s)] = step[Lane(s)]
  BY <1>1
<1> QED
  BY <1>2, <1>3, <1>5, <1>8, <1>9, <1>10, <1>11, <1>12, LaneSummary

\* The reaper reports the exit.
LEMMA ReaperNotifyStep ==
    ASSUME IInv, NEW s \in Session, ReaperNotify(s) PROVE IInv'
<1>0. /\ todo[Reaper] = <<>> /\ proc[s] = "exited" /\ ProcessExited(Reaper, s, <<>>)
      /\ notified' = [notified EXCEPT ![s] = @ \union {"exit"}] /\ Control(s) /\ 0 \in Nat
      /\ UNCHANGED <<step, laneVars, serverVars, proc, exitCode, ptyVars, lease, decisive, toldVars>>
      /\ inflight' = inflight /\ grace' = grace /\ Reaper \in Thread /\ Reaper # Timer(s)
  BY InvariantFacts, ThreadFacts DEF ReaperNotify, diagVars, Lone
<1>1. rec[s].started /\ state[s] # "none"
  BY <1>0, InvariantFacts DEF Control, StartFits
<1>2. Tidy(<<>>, s, {}) /\ Mute(<<>>)
  BY <1>0, TidyOne, MuteOne
<1>3. PICK x, r, q, K : /\ Summary(Reaper, s, x, r, q, K)
                        /\ r.exit \in {rec[s].exit, exitCode[s]}
                        /\ r.handle => rec[s].handle
                        /\ x # "closed" => x = state[s] /\ r.handle = rec[s].handle
  BY <1>0, <1>1, <1>2, ExitSummary
<1>4. \E e \in {"exit", "eof"} : notified' = [notified EXCEPT ![s] = @ \union {e}]
  BY <1>0
<1> QED
  BY <1>0, <1>1, <1>3, <1>4, ServeSection

\* The end of the terminal stream.
LEMMA TerminalEofStep ==
    ASSUME IInv, NEW s \in Session, TerminalEof(s) PROVE IInv'
<1> DEFINE r == [rec[s] EXCEPT !.eof = TRUE]
<1>0. /\ todo[IO] = <<>> /\ proc[s] # "none" /\ "eof" \notin notified[s]
      /\ notified' = [notified EXCEPT ![s] = @ \union {"eof"}] /\ Control(s) /\ 0 \in Nat
      /\ UNCHANGED <<step, laneVars, serverVars, proc, exitCode, ptyVars, lease, decisive, toldVars>>
      /\ inflight' = inflight /\ grace' = grace /\ IO \in Thread /\ IO # Timer(s)
      /\ rec[s] \in RecordType /\ OtherTypes
  BY InvariantFacts, ThreadFacts DEF TerminalEof, diagVars, Lone
<1>1. rec[s].started /\ state[s] # "none" /\ state[s] \in Resting /\ StartFits(s)
  BY <1>0, InvariantFacts, RestingFacts DEF Control, StartFits
<1>2. Tidy(<<>>, s, {}) /\ Mute(<<>>) /\ Tidy(DispatchEof(s), s, {"eof"}) /\ Mute(DispatchEof(s))
      /\ Tidy(FinishReadiness(s), s, {}) /\ Mute(FinishReadiness(s))
  BY <1>0, TidyOne, MuteOne
<1>3. News(s, "eof")
  <2>1. notified'[s] = notified[s] \union {"eof"}
    BY <1>0 DEF OtherTypes
  <2> QED
    BY <1>0, <2>1 DEF News, Past
<1>4. /\ r \in RecordType /\ r.exit = rec[s].exit /\ r.handle = rec[s].handle
      /\ r.started = rec[s].started /\ r.result = rec[s].result
      /\ r.deferred = rec[s].deferred /\ r.capable = rec[s].capable
  BY <1>0 DEF RecordType
<1>5. \E e \in {"exit", "eof"} : notified' = [notified EXCEPT ![s] = @ \union {e}]
  BY <1>0
<1>6. \/ Locked(IO, s, <<>>, rec[s], <<>>)
      \/ Locked(IO, s, <<>>, r, DispatchEof(s))
      \/ /\ rec[s].exit # "none" /\ state[s] \notin {"exited", "closed"}
         /\ \E hint \in BOOLEAN :
               FinalExit(IO, s, r, hint, DispatchEof(s) \o FinishReadiness(s), <<>>)
  BY DEF TerminalEof, LeavesRecord
<1> HIDE DEF r
<1>7. CASE Locked(IO, s, <<>>, rec[s], <<>>)
  <2>1. RecordFits(s, rec[s], state[s])
    BY <1>0, <1>1, RecordKept
  <2>2. Summary(IO, s, state[s], rec[s], <<>>, {})
    BY <1>0, <1>1, <1>2, <1>7, <2>1, StaySummary
  <2>3. rec[s].exit # "none" => proc[s] = "exited"
    BY <1>1 DEF StartFits
  <2> QED
    BY <1>0, <1>1, <1>5, <2>2, <2>3, ServeSection
<1>8. CASE Locked(IO, s, <<>>, r, DispatchEof(s))
  <2>1. RecordFits(s, r, state[s])
    BY <1>1, <1>4, RecordKept
  <2>2. Section(IO, s, state[s], r, DispatchEof(s))
    BY <1>0, <1>2, <1>8, InvariantFacts, LockedStay DEF Tidy
  <2>3. Summary(IO, s, state[s], r, DispatchEof(s), {"eof"})
    BY <1>1, <1>2, <1>3, <2>1, <2>2 DEF Summary, RecordFits, Advance, News
  <2>4. r.exit # "none" => proc[s] = "exited"
    BY <1>1, <1>4 DEF StartFits
  <2> QED
    BY <1>0, <1>1, <1>4, <1>5, <2>3, <2>4, ServeSection
<1>9. ASSUME rec[s].exit # "none", state[s] \notin {"exited", "closed"}, NEW hint \in BOOLEAN,
             FinalExit(IO, s, r, hint, DispatchEof(s) \o FinishReadiness(s), <<>>)
      PROVE  IInv'
  <2> DEFINE p == DispatchEof(s) \o FinishReadiness(s)
  <2>1. Tidy(p, s, {"eof"}) /\ Mute(p)
    <3>1. Tidy(p, s, {"eof"} \union {}) /\ {"eof"} \union {} = {"eof"}
      BY <1>2, TidyCat
    <3> QED
      BY <1>2, <3>1, MuteCat DEF Tidy
  <2> HIDE DEF p
  <2>2. state[s] \notin {"none", "closed"} /\ {"eof"} \subseteq {"eof"}
        /\ \A kind \in {"eof"} : News(s, kind)
    BY <1>1, <1>3, <1>9
  <2>3. FinalExit(IO, s, r, hint, p, <<>>)
    BY <1>9 DEF p
  <2>4. PICK a, q, K : Summary(IO, s, "closed", a, q, K) /\ ~a.handle /\ a.exit = r.exit
    BY <1>0, <1>2, <1>4, <2>1, <2>2, <2>3, FinalSummary
  <2>5. proc[s] = "exited"
    BY <1>1, <1>9 DEF StartFits
  <2> QED
    BY <1>0, <1>1, <1>5, <2>4, <2>5, ServeSection
<1> QED
  BY <1>6, <1>7, <1>8, <1>9

\* A verdict of the diagnostics reaches the session.
LEMMA DiagnosticResultStep ==
    ASSUME IInv, NEW s \in Session, DiagnosticResult(s) PROVE IInv'
<1> DEFINE v == inflight[s]
           noted == [rec[s] EXCEPT !.detail = @ \/ v = "failed"]
<1>0. /\ todo[Monitor] = <<>> /\ v # "none" /\ Control(s) /\ 0 \in Nat
      /\ UNCHANGED <<step, laneVars, serverVars, proc, exitCode, ptyVars, lease, decisive, toldVars>>
      /\ inflight' = [inflight EXCEPT ![s] = "none"] /\ notified' = notified /\ grace' = grace
      /\ Monitor \in Thread /\ Monitor # Timer(s)
      /\ rec[s] \in RecordType /\ OtherTypes /\ v \in {"none", "auth", "failed"}
  <2>1. /\ todo[Monitor] = <<>> /\ v # "none" /\ inflight' = [inflight EXCEPT ![s] = "none"]
        /\ UNCHANGED <<step, laneVars, serverVars, procVars, ptyVars, lease, decisive, grace, toldVars>>
    BY DEF DiagnosticResult
  <2>2. Monitor \in Thread /\ Monitor # Timer(s)
    BY ThreadFacts DEF Lone
  <2>3. rec[s] \in RecordType /\ OtherTypes /\ Control(s) /\ v \in {"none", "auth", "failed"}
    BY InvariantFacts DEF OtherTypes
  <2> QED
    BY <2>1, <2>2, <2>3 DEF procVars
<1>1. /\ rec[s].started /\ state[s] # "none" /\ state[s] \in Resting /\ StartFits(s)
      /\ v \in decisive[s] /\ (rec[s].exit # "none" => proc[s] = "exited")
  BY <1>0, InvariantFacts, RestingFacts DEF Control, StartFits, VerdictFits
<1>2. Tidy(<<>>, s, {}) /\ Mute(<<>>) /\ Tidy(FinishReadiness(s), s, {}) /\ Mute(FinishReadiness(s))
  BY <1>0, TidyOne, MuteOne
<1>3. /\ noted \in RecordType /\ noted.exit = rec[s].exit /\ noted.handle = rec[s].handle
      /\ noted.started = rec[s].started /\ noted.result = rec[s].result
      /\ noted.deferred = rec[s].deferred /\ noted.capable = rec[s].capable
  <2>1. PICK b \in BOOLEAN : b = (rec[s].detail \/ v = "failed")
    OBVIOUS
  <2>2. noted = [rec[s] EXCEPT !.detail = b]
    BY <2>1
  <2> HIDE DEF noted
  <2> QED
    BY <1>0, <2>2 DEF RecordType
<1>4. \/ Locked(Monitor, s, <<>>, rec[s], <<>>)
      \/ \E q \in {<<>>, FinishReadiness(s)} :
            Locked(Monitor, s, <<>>, [noted EXCEPT !.result = v], q)
      \/ /\ state[s] = "starting"
         /\ Locked(Monitor, s, <<"failed">>, [noted EXCEPT !.failure = TRUE],
                   FinishReadiness(s) \o Publish(s, "failed") \o FlushDeferred(s))
      \/ /\ state[s] = "starting"
         /\ Locked(Monitor, s, <<"running">>, noted,
                   Publish(s, "running") \o NotifyAuthenticated(s) \o FlushDeferred(s))
  BY DEF DiagnosticResult, LeavesRecord
<1> HIDE DEF noted, v
<1>5. CASE Locked(Monitor, s, <<>>, rec[s], <<>>)
  <2>1. RecordFits(s, rec[s], state[s])
    BY <1>0, <1>1, RecordKept
  <2>2. Summary(Monitor, s, state[s], rec[s], <<>>, {})
    BY <1>0, <1>1, <1>2, <1>5, <2>1, StaySummary
  <2> QED
    BY <1>0, <1>1, <2>2, ServeSection
<1>6. ASSUME NEW q \in {<<>>, FinishReadiness(s)},
             Locked(Monitor, s, <<>>, [noted EXCEPT !.result = v], q)
      PROVE  IInv'
  <2> DEFINE r == [noted EXCEPT !.result = v]
  <2>1. /\ r \in RecordType /\ r.exit = rec[s].exit /\ r.handle = rec[s].handle
        /\ r.started = rec[s].started /\ r.result = v
        /\ r.deferred = rec[s].deferred /\ r.capable = rec[s].capable
    BY <1>0, <1>3 DEF RecordType
  <2>2. Locked(Monitor, s, <<>>, r, q)
    BY <1>6
  <2> HIDE DEF r
  <2>3. RecordFits(s, r, state[s])
    BY <1>0, <1>1, <2>1 DEF RecordFits, Control, VerdictFits
  <2>4. Tidy(q, s, {}) /\ Mute(q)
    BY <1>2
  <2>5. Summary(Monitor, s, state[s], r, q, {})
    BY <1>0, <1>1, <2>2, <2>3, <2>4, StaySummary
  <2> QED
    BY <1>0, <1>1, <2>1, <2>5, ServeSection
<1>7. CASE /\ state[s] = "starting"
           /\ Locked(Monitor, s, <<"failed">>, [noted EXCEPT !.failure = TRUE],
                     FinishReadiness(s) \o Publish(s, "failed") \o FlushDeferred(s))
  <2> DEFINE r == [noted EXCEPT !.failure = TRUE]
             a == FinishReadiness(s)
             b == Publish(s, "failed")
             c == FlushDeferred(s)
             q == a \o b \o c
  <2>1. /\ r \in RecordType /\ r.exit = rec[s].exit /\ r.handle = rec[s].handle
        /\ r.started = rec[s].started /\ r.result = rec[s].result
        /\ r.deferred = rec[s].deferred /\ r.capable = rec[s].capable
    BY <1>3 DEF RecordType
  <2>2. Locked(Monitor, s, <<"failed">>, r, q) /\ state[s] = "starting"
    BY <1>7
  <2>3. Tidy(a, s, {}) /\ Tidy(b, s, {"failed"}) /\ Tidy(c, s, {})
        /\ Mute(a) /\ Mute(b) /\ Mute(c)
    BY <1>0, TidyOne, MuteOne DEF Kinds, States
  <2> HIDE DEF r, a, b, c
  <2>4. Tidy(q, s, {"failed"}) /\ Mute(q)
    <3>1. Tidy(a \o b, s, {} \union {"failed"}) /\ {} \union {"failed"} = {"failed"}
      BY <2>3, TidyCat
    <3>2. Tidy((a \o b) \o c, s, {"failed"} \union {}) /\ {"failed"} \union {} = {"failed"}
      BY <2>3, <3>1, TidyCat
    <3>3. a \in Seq(EffectType) /\ b \in Seq(EffectType) /\ c \in Seq(EffectType)
      BY <2>3 DEF Tidy
    <3>4. Mute(a \o b) /\ a \o b \in Seq(EffectType)
      BY <2>3, <3>3, MuteCat, CatFacts
    <3>5. Mute((a \o b) \o c)
      BY <2>3, <3>3, <3>4, MuteCat
    <3> QED
      BY <3>2, <3>5
  <2> HIDE DEF q
  <2>5. RecordFits(s, r, "failed")
    BY <2>1, RecordKept DEF Resting
  <2>6. Summary(Monitor, s, "failed", r, q, {"failed"})
    BY <1>0, <2>2, <2>4, <2>5, MoveSummary
  <2> QED
    BY <1>0, <1>1, <2>1, <2>6, ServeSection
<1>8. CASE /\ state[s] = "starting"
           /\ Locked(Monitor, s, <<"running">>, noted,
                     Publish(s, "running") \o NotifyAuthenticated(s) \o FlushDeferred(s))
  <2>1. RecordFits(s, noted, "running")
    BY <1>1, <1>3, InvariantFacts DEF RecordFits, Control, VerdictFits
  <2>2. PICK q : q = Publish(s, "running") \o NotifyAuthenticated(s) \o FlushDeferred(s)
    OBVIOUS
  <2>3. Summary(Monitor, s, "running", noted, q, {"running", "authenticated"})
    BY <1>0, <1>8, <2>1, <2>2, RunSummary
  <2> QED
    BY <1>0, <1>1, <1>3, <2>3, ServeSection
<1> QED
  BY <1>4, <1>5, <1>6, <1>7, <1>8

\* The grace deadline passes: the session falls back to the PTY evidence.
LEMMA GraceExpiredStep ==
    ASSUME IInv, NEW s \in Session, GraceExpired(s) PROVE IInv'
<1> DEFINE r == [rec[s] EXCEPT !.fallback = TRUE]
           q == Publish(s, "running") \o NotifyAuthenticated(s) \o FlushDeferred(s)
<1>0. /\ grace[s] = "fired" /\ grace' = [grace EXCEPT ![s] = "off"] /\ 0 \in Nat
      /\ UNCHANGED <<step, laneVars, serverVars, proc, exitCode, ptyVars, lease, decisive, toldVars>>
      /\ inflight' = inflight /\ notified' = notified
      /\ rec[s] \in RecordType /\ Control(s) /\ Timer(s) \in Thread
  BY InvariantFacts, ThreadFacts DEF GraceExpired, procVars
<1>1. /\ rec[s].started /\ state[s] # "none" /\ state[s] \in Resting /\ todo[Timer(s)] = <<>>
      /\ (rec[s].exit # "none" => proc[s] = "exited")
  BY <1>0, InvariantFacts, RestingFacts DEF Control, StartFits
<1>2. Tidy(<<>>, s, {}) /\ Mute(<<>>)
  BY <1>0, TidyOne, MuteOne
<1>3. /\ r \in RecordType /\ r.exit = rec[s].exit /\ r.handle = rec[s].handle
      /\ r.started = rec[s].started /\ r.result = rec[s].result
      /\ r.deferred = rec[s].deferred /\ r.capable = rec[s].capable
  BY <1>0 DEF RecordType
<1>4. \/ Locked(Timer(s), s, <<>>, rec[s], <<>>)
      \/ Locked(Timer(s), s, <<>>, r, <<>>)
      \/ state[s] = "starting" /\ Locked(Timer(s), s, <<"running">>, r, q)
  <2>1. CASE s \notin known \/ state[s] # "starting"
    BY <2>1 DEF GraceExpired, LeavesRecord
  <2>2. CASE ~(s \notin known \/ state[s] # "starting")
    <3>1. PICK promote \in BOOLEAN : promote = (rec[s].handle /\ evidence[s] = "connected")
      OBVIOUS
    <3>2. Locked(Timer(s), s, IF promote THEN <<"running">> ELSE <<>>, r,
                 IF promote THEN q ELSE <<>>)
      BY <2>2, <3>1 DEF GraceExpired
    <3> QED
      BY <2>2, <3>2
  <2> QED
    BY <2>1, <2>2
<1> HIDE DEF r
<1>5. ASSUME NEW a \in {rec[s], r}, Locked(Timer(s), s, <<>>, a, <<>>) PROVE IInv'
  <2>0. /\ a \in RecordType /\ a.exit = rec[s].exit /\ a.handle = rec[s].handle
        /\ a.started = rec[s].started /\ a.result = rec[s].result
        /\ a.deferred = rec[s].deferred /\ a.capable = rec[s].capable
    BY <1>0, <1>3
  <2>1. RecordFits(s, a, state[s])
    BY <1>0, <1>1, <2>0, RecordKept
  <2>2. Summary(Timer(s), s, state[s], a, <<>>, {})
    BY <1>0, <1>1, <1>2, <1>5, <2>1, StaySummary
  <2> QED
    BY <1>0, <1>1, <2>0, <2>2, ServeSection
<1>6. CASE state[s] = "starting" /\ Locked(Timer(s), s, <<"running">>, r, q)
  <2>1. RecordFits(s, r, "running")
    BY <1>1, <1>3, InvariantFacts DEF RecordFits, Control, VerdictFits
  <2>2. Summary(Timer(s), s, "running", r, q, {"running", "authenticated"})
    BY <1>0, <1>1, <1>6, <2>1, RunSummary
  <2> HIDE DEF q
  <2> QED
    BY <1>0, <1>1, <1>3, <2>2, ServeSection
<1> QED
  BY <1>4, <1>5, <1>6

\* A chunk of terminal output is deferred or dispatched, and may promote the session.
LEMMA TerminalOutputStep ==
    ASSUME IInv, NEW s \in Session, NEW verdict \in {"pending", "connected", "failed"},
           TerminalOutput(s, verdict)
    PROVE  IInv'
<1> DEFINE n == chunks[s] + 1
           r == [rec[s] EXCEPT !.deferred = Append(@, n)]
           run == Publish(s, "running") \o NotifyAuthenticated(s) \o FlushDeferred(s)
           z == Dispatch(s, n)
           K == {"running", "authenticated"}
<1>0. /\ todo[IO] = <<>> /\ proc[s] # "none" /\ s \in known /\ chunks' = [chunks EXCEPT ![s] = n]
      /\ evidence' = [evidence EXCEPT ![s] = verdict] /\ 0 \in Nat /\ n \in Nat
      /\ UNCHANGED <<laneVars, step, serverVars, procVars, diagVars, toldVars>>
      /\ rec[s] \in RecordType /\ Control(s) /\ IO \in Thread /\ IO # Timer(s) /\ Timer(s) \in Thread
      /\ OtherTypes /\ TypeOK /\ Kernel /\ OutputFits(s) /\ rec[s].deferred \in Seq(Nat)
  <2>1. /\ todo[IO] = <<>> /\ proc[s] # "none" /\ s \in known /\ chunks' = [chunks EXCEPT ![s] = n]
        /\ evidence' = [evidence EXCEPT ![s] = verdict]
        /\ UNCHANGED <<laneVars, step, serverVars, procVars, diagVars, toldVars>>
    BY DEF TerminalOutput
  <2>2. /\ rec[s] \in RecordType /\ Control(s) /\ OtherTypes /\ TypeOK /\ Kernel /\ OutputFits(s)
    BY InvariantFacts
  <2>3. IO \in Thread /\ IO # Timer(s) /\ Timer(s) \in Thread
    BY ThreadFacts DEF Lone
  <2>4. n \in Nat /\ rec[s].deferred \in Seq(Nat)
    BY <2>2 DEF OtherTypes, RecordType
  <2> QED
    BY <2>1, <2>2, <2>3, <2>4
<1>1. /\ rec[s].started /\ state[s] # "none" /\ state[s] \in Resting
      /\ (rec[s].exit # "none" => proc[s] = "exited")
      /\ state[s] \in {"starting", "running"} => ~Cleared
  BY <1>0, InvariantFacts, RestingFacts DEF Control, StartFits, ShutFits, Cleared
<1>2. /\ r \in RecordType /\ r.exit = rec[s].exit /\ r.handle = rec[s].handle
      /\ r.started = rec[s].started /\ r.result = rec[s].result
      /\ r.deferred = Append(rec[s].deferred, n) /\ r.capable = rec[s].capable
  <2>1. PICK d \in Seq(Nat) : d = Append(rec[s].deferred, n)
    <3> HIDE DEF n
    <3>1. Append(rec[s].deferred, n) \in Seq(Nat)
      BY <1>0, AppendProperties
    <3> QED
      BY <3>1
  <2>2. r = [rec[s] EXCEPT !.deferred = d]
    BY <2>1
  <2> HIDE DEF r
  <2> QED
    BY <1>0, <2>1, <2>2 DEF RecordType
<1>3. \/ Locked(IO, s, <<>>, r, <<>>) /\ state[s] # "running"
      \/ state[s] = "starting" /\ Locked(IO, s, <<"running">>, rec[s], run \o z)
      \/ Locked(IO, s, <<>>, rec[s], z)
  BY DEF TerminalOutput, LeavesRecord
<1>4. UNCHANGED <<lane, busy, target, toReject, toClose, closes, proc, exitCode, notified, step,
                  lease, decisive, inflight, grace, told, delivered>>
  BY <1>0 DEF laneVars, serverVars, procVars, diagVars, toldVars
<1>5. chunks'[s] = n /\ \A y \in Session \ {s} : chunks'[y] = chunks[y]
  BY <1>0 DEF OtherTypes
<1>6. OtherTypes'
  BY <1>0, <1>4 DEF OtherTypes, LaneTypes
<1>7. /\ Tidy(z, s, {}) /\ z \in Seq(EffectType)
      /\ \A i \in 1..Len(z) : \A k \in Nat : Sends(z[i], s, k) => i = Len(z) /\ k = n
      /\ ~Cleared => Len(z) = 1 /\ Sends(z[1], s, n)
  <2>1. Tidy(z, s, {})
    BY <1>0, TidyOne
  <2>2. CASE Cleared
    BY <2>1, <2>2 DEF Dispatch, Tidy
  <2>3. CASE ~Cleared
    <3> DEFINE e == Effect("output", s, "", n)
    <3>1. e.do = "output" /\ e.session = s /\ e.chunk = n
      BY <1>0 DEF Effect
    <3>2. z = <<e>>
      BY <2>3 DEF Dispatch
    <3> HIDE DEF e, z, n
    <3>3. Len(z) = 1 /\ z[1] = e /\ \A i \in 1..Len(z) : i = 1
      BY <3>2
    <3> QED
      BY <2>1, <3>1, <3>3 DEF Sends, Tidy
  <2> QED
    BY <2>2, <2>3
<1> HIDE DEF r, z, n, run
<1>8. ASSUME NEW x \in Resting, NEW a \in RecordType, NEW q, NEW L,
             Section(IO, s, x, a, q), Tidy(q, s, L), OutputFits(s)',
             x \in {state[s], "running"}, x # state[s] => state[s] = "starting",
             \A kind \in L : News(s, kind),
             a.exit = rec[s].exit, a.handle = rec[s].handle,
             a.started = rec[s].started, a.result = rec[s].result, a.capable = rec[s].capable
      PROVE  IInv'
  <2>1. /\ state'[s] = x /\ rec'[s] = a /\ todo'[Timer(s)] = todo[Timer(s)]
        /\ s \in known /\ x # "closed" => s \in known'
    BY <1>0, <1>8 DEF Section, TypeOK
  <2>2. StartFits(s)'
    BY <1>0, <1>1, <1>4, <1>8, <2>1 DEF Control, StartFits
  <2>3. ChildFits(s)'
    BY <1>0, <1>4, <1>8, <2>1 DEF Control, ChildFits, Serving
  <2>4. VerdictFits(s)'
    BY <1>0, <1>4, <1>8, <2>1 DEF Control, VerdictFits, Resting
  <2>5. /\ UNCHANGED <<told, target, toReject, toClose, lane, busy>>
        /\ notified[s] \subseteq notified'[s]
        /\ \A y \in Session \ {s} :
              /\ proc'[y] = proc[y] /\ grace'[y] = grace[y] /\ inflight'[y] = inflight[y]
              /\ notified'[y] = notified[y] /\ chunks'[y] = chunks[y]
              /\ decisive'[y] = decisive[y] /\ delivered'[y] = delivered[y]
        /\ step'[Lane(s)] = step[Lane(s)]
        /\ \A u \in Thread \ {Lane(s)} : step'[u] = step[u]
    BY <1>4, <1>5
  <2>6. Advance(state[s], x) /\ a.started
    BY <1>1, <1>8 DEF Advance
  <2>7. \A kind \in L : ~Past(s, kind) /\ Past(s, kind)'
    BY <1>8 DEF News
  <2> QED
    BY <1>0, <1>1, <1>6, <1>8, <2>2, <2>3, <2>4, <2>5, <2>6, <2>7, LaneSection
<1>9. /\ n \in Nat /\ n = chunks[s] + 1 /\ chunks'[s] = n /\ delivered'[s] = delivered[s]
      /\ todo[IO] = <<>> /\ TypeOK /\ OutputFits(s) /\ IO \in Thread
  BY <1>0, <1>4, <1>5 DEF n
<1>10. CASE Locked(IO, s, <<>>, r, <<>>) /\ state[s] # "running"
  <2>1. Tidy(<<>>, s, {})
    BY <1>0, TidyOne
  <2>2. Section(IO, s, state[s], r, <<>>)
    BY <1>0, <1>10, <2>1, LockedStay DEF Tidy
  <2>3. /\ todo' = [todo EXCEPT ![IO] = <<>>] /\ state'[s] = state[s] /\ rec'[s] = r
    BY <1>0, <2>2 DEF Section, TypeOK
  <2>4. OutputFits(s)'
    <3>1. /\ rec'[s].deferred = Append(rec[s].deferred, n)
          /\ \A i \in 1..Len(<<>>) : \A k \in Nat : ~Sends(<<>>[i], s, k)
          /\ state[s] # "running"
      BY <1>2, <1>10, <2>3
    <3>2. /\ state'[s] \in {"starting", "running"} => state[s] \in {"starting", "running"}
          /\ state'[s] = "running" => state[s] = "running" \/ Flushes(<<>>, s)
      BY <2>3
    <3> HIDE DEF OutputFits
    <3> QED
      BY <1>9, <2>3, <3>1, <3>2, OutputArrives
  <2>5. PICK x \in Resting : x = state[s]
    BY <1>1
  <2>6. /\ Section(IO, s, x, r, <<>>) /\ x \in {state[s], "running"}
        /\ x # state[s] => state[s] = "starting"
    BY <2>2, <2>5
  <2>7. PICK L : L = {}
    OBVIOUS
  <2>8. Tidy(<<>>, s, L) /\ \A kind \in L : News(s, kind)
    BY <2>1, <2>7
  <2> QED
    BY <1>2, <1>8, <2>4, <2>6, <2>8
<1>11. CASE Locked(IO, s, <<>>, rec[s], z)
  <2>1. Section(IO, s, state[s], rec[s], z)
    BY <1>0, <1>7, <1>11, LockedStay
  <2>2. /\ todo' = [todo EXCEPT ![IO] = z] /\ state'[s] = state[s] /\ rec'[s] = rec[s]
    BY <1>0, <2>1 DEF Section, TypeOK
  <2>3. OutputFits(s)'
    <3>1. /\ rec'[s].deferred = rec[s].deferred
          /\ \A i \in 1..Len(z) : \A k \in Nat : Sends(z[i], s, k) => i = Len(z) /\ k = n
          /\ state[s] \in {"starting", "running"} => Len(z) \in 1..Len(z) /\ Sends(z[Len(z)], s, n)
      BY <1>1, <1>7, <2>2
    <3>2. /\ state'[s] \in {"starting", "running"} => state[s] \in {"starting", "running"}
          /\ state'[s] = "running" => state[s] = "running" \/ Flushes(z, s)
      BY <2>2
    <3> HIDE DEF OutputFits
    <3> QED
      BY <1>9, <2>2, <3>1, <3>2, OutputArrives
  <2>5. PICK x \in Resting : x = state[s]
    BY <1>1
  <2>6. /\ Section(IO, s, x, rec[s], z) /\ x \in {state[s], "running"}
        /\ x # state[s] => state[s] = "starting"
    BY <2>1, <2>5
  <2>7. PICK L : L = {}
    OBVIOUS
  <2>8. Tidy(z, s, L) /\ \A kind \in L : News(s, kind)
    BY <1>7, <2>7
  <2>9. rec[s] \in RecordType
    BY <1>0
  <2> QED
    BY <1>8, <2>3, <2>6, <2>8, <2>9
<1>12. CASE state[s] = "starting" /\ Locked(IO, s, <<"running">>, rec[s], run \o z)
  <2> DEFINE p == Publish(s, "running") \o NotifyAuthenticated(s)
             f == FlushDeferred(s)
             q == run \o z
  <2>0. "running" \in Resting /\ "running" \in States
    BY DEF Resting, States
  <2>1. run = p \o f
    BY DEF run
  <2>2. Tidy(p, s, K) /\ Tidy(f, s, {}) /\ p \in Seq(EffectType) /\ f \in Seq(EffectType)
    <3>1. Tidy(p, s, K) /\ Tidy(f, s, {})
      BY <1>0, TidyRunning, TidyOne
    <3> QED
      BY <3>1 DEF Tidy
  <2>3. Mute(p) /\ Mute(f) /\ Flushes(f, s)
    <3>1. Publish(s, "running") \in Seq(EffectType) /\ NotifyAuthenticated(s) \in Seq(EffectType)
      BY DEF Publish, NotifyAuthenticated, Effect, EffectType, Kinds, States
    <3>2. Mute(Publish(s, "running")) /\ Mute(NotifyAuthenticated(s))
      BY MuteOne DEF Kinds, States
    <3>3. Mute(p)
      BY <3>1, <3>2, MuteCat
    <3>4. Mute(f) /\ Flushes(f, s)
      BY MuteOne, FlushOne
    <3> QED
      BY <3>3, <3>4
  <2> HIDE DEF p, f
  <2>4. Tidy(run, s, K) /\ Mute(run) /\ Flushes(run, s)
    <3>1. Tidy(p \o f, s, K \union {}) /\ K \union {} = K
      BY <2>2, TidyCat
    <3>2. Mute(p \o f) /\ Flushes(p \o f, s)
      BY <2>2, <2>3, MuteCat
    <3> QED
      BY <2>1, <3>1, <3>2
  <2>5. Tidy(q, s, K) /\ run \in Seq(EffectType) /\ q \in Seq(EffectType)
    <3>1. Tidy(run \o z, s, K \union {}) /\ K \union {} = K
      BY <1>7, <2>4, TidyCat
    <3> QED
      BY <2>4, <3>1 DEF Tidy
  <2>6. Flushes(q, s)
    BY <1>7, <2>4, <2>5, MuteCat
  <2>7. /\ Len(run) \in Nat /\ Len(q) = Len(run) + Len(z) /\ Len(z) \in Nat
        /\ \A i \in 1..Len(run) : q[i] = run[i]
        /\ \A i \in 1..Len(z) : q[Len(run) + i] = z[i]
        /\ \A i \in 1..Len(q) : i \in 1..Len(run) \/ \E j \in 1..Len(z) : i = Len(run) + j
    BY <1>7, <2>5, CatFacts
  <2> HIDE DEF q
  <2>8. Section(IO, s, "running", rec[s], q)
    <3>1. Locked(IO, s, <<"running">>, rec[s], q)
      BY <1>12 DEF q
    <3> QED
      BY <1>0, <1>12, <2>0, <2>5, <3>1, LockedTo
  <2>9. /\ todo' = [todo EXCEPT ![IO] = q] /\ state'[s] = "running" /\ rec'[s] = rec[s]
    BY <1>0, <2>8 DEF Section, TypeOK
  <2>10. OutputFits(s)'
    <3>1. \A i \in 1..Len(q) : \A k \in Nat : Sends(q[i], s, k) => i = Len(q) /\ k = n
      <4>1. ASSUME NEW i \in 1..Len(q), NEW k \in Nat, Sends(q[i], s, k) PROVE i = Len(q) /\ k = n
        <5>1. i \notin 1..Len(run)
          BY <2>4, <2>7, <4>1 DEF Mute, Sends
        <5>2. PICK j \in 1..Len(z) : i = Len(run) + j
          BY <2>7, <5>1
        <5>3. q[i] = z[j]
          BY <2>7, <5>2
        <5>4. j = Len(z) /\ k = n
          BY <1>7, <4>1, <5>3
        <5> QED
          BY <2>7, <5>2, <5>4
      <4> QED
        BY <4>1
    <3>2. Len(q) \in 1..Len(q) /\ Sends(q[Len(q)], s, n)
      <4>1. Len(z) = 1 /\ Sends(z[1], s, n)
        BY <1>1, <1>7, <1>12
      <4>2. Len(q) = Len(run) + 1 /\ q[Len(run) + 1] = z[1]
        BY <2>7, <4>1
      <4> QED
        BY <2>7, <4>1, <4>2
    <3>3. rec'[s].deferred = rec[s].deferred
      BY <2>9
    <3>4. /\ state'[s] \in {"starting", "running"} => state[s] \in {"starting", "running"}
          /\ state'[s] = "running" => state[s] = "running" \/ Flushes(q, s)
      BY <1>12, <2>6
    <3> HIDE DEF OutputFits
    <3> QED
      BY <1>9, <2>9, <3>1, <3>2, <3>3, <3>4, OutputArrives
  <2>11. \A kind \in K : News(s, kind)
    BY <1>12, <2>0, <2>9, NewsFacts
  <2> HIDE DEF K
  <2> QED
    BY <1>0, <1>8, <1>12, <2>0, <2>5, <2>8, <2>10, <2>11
<1> QED
  BY <1>3, <1>10, <1>11, <1>12

-----------------------------------------------------------------------------
(* Closing a session, on its lane or on the thread of shutdown().          *)

\* The control points of a close.
Closing == {"close", "bare", "terminate", "waiting"}

\* A section of the thread t that closes s, which goes on to pc.
LEMMA CloseSection ==
    ASSUME IInv, NEW s \in Session, NEW t \in {Lane(s), Closer}, t = Closer => target[Closer] = s,
           NEW x, NEW r, NEW q, NEW K, NEW pc \in {"done", "bare", "terminate", "waiting", "aborted"},
           todo[t] = <<>>, Summary(t, s, x, r, q, K), step[t] \in Closing, Goto(t, pc),
           UNCHANGED <<laneVars, serverVars, exitCode, ptyVars, diagVars, toldVars>>,
           \/ proc' = proc
           \/ proc' = [proc EXCEPT ![s] = IF @ = "alive" THEN "signalled" ELSE @],
           \/ notified' = notified
           \/ proc[s] = "exited" /\ notified' = [notified EXCEPT ![s] = @ \union {"exit"}],
           r.exit # "none" => proc[s] = "exited",
           r.handle => rec[s].handle,
           pc = "bare" => ~r.handle,
           step[t] = "close" => x \notin {"starting", "running"} \/ pc = "aborted",
           t = Lane(s) /\ proc'[s] = "alive" =>
              (s \in known /\ x # "closed" /\ r.handle) \/ ~Serving
    PROVE  IInv'
<1>0. /\ OtherTypes /\ Control(s) /\ TypeOK /\ t \in Thread
      /\ Lane(s) \in Thread /\ Lane(s) # Closer
      /\ Timer(s) \in Thread /\ t # Timer(s) /\ t # Selector /\ Selector \in Thread
      /\ \A y \in Session \ {s} : t # Lane(y) /\ t # Timer(y) /\ Lane(y) \in Thread
  BY InvariantFacts, ThreadFacts DEF Lone
<1>1. state[s] # "none" /\ ~Submitting(s, "submitStart")
  <2>1. CASE t = Lane(s)
    <3>1. step[Lane(s)] # "idle"
      BY <2>1 DEF Closing
    <3> QED
      BY <3>1, InvariantFacts
  <2>2. CASE t = Closer
    <3>1. ~Serving /\ target[Closer] = s
      BY <2>2 DEF Serving, Closing
    <3>2. state[s] # "none" /\ FreshFits(s)
      BY <1>0, <3>1, InvariantFacts DEF Control, ShutFits
    <3> QED
      BY <3>1, <3>2 DEF FreshFits
  <2> QED
    BY <2>1, <2>2
<1>2. UNCHANGED <<lane, busy, target, toReject, toClose, closes, exitCode, evidence, chunks,
                  lease, decisive, inflight, grace, told, delivered>>
  BY DEF laneVars, serverVars, ptyVars, diagVars, toldVars
<1>3. /\ step'[t] = pc /\ step' \in [Thread -> Pcs] /\ \A u \in Thread \ {t} : step'[u] = step[u]
  <2>1. pc \in Pcs
    BY DEF Pcs
  <2> QED
    BY <1>0, <2>1, GotoFacts
<1>4. /\ notified' \in [Session -> SUBSET {"exit", "eof"}] /\ notified[s] \subseteq notified'[s]
      /\ notified'[s] # {} => notified[s] # {} \/ proc[s] = "exited"
      /\ \A y \in Session \ {s} : notified'[y] = notified[y]
  <2>1. notified \in [Session -> SUBSET {"exit", "eof"}]
    BY <1>0 DEF OtherTypes
  <2>2. \/ notified' = notified
        \/ proc[s] = "exited" /\ notified' = [notified EXCEPT ![s] = @ \union {"exit"}]
    OBVIOUS
  <2> QED
    BY <2>1, <2>2
<1>5. /\ proc' \in [Session -> {"none", "alive", "signalled", "exited"}]
      /\ proc'[s] = "none" <=> proc[s] = "none"
      /\ proc'[s] = "exited" <=> proc[s] = "exited"
      /\ proc'[s] = "alive" => proc[s] = "alive"
      /\ \A y \in Session \ {s} : proc'[y] = proc[y]
  <2>1. proc \in [Session -> {"none", "alive", "signalled", "exited"}]
    BY <1>0 DEF OtherTypes
  <2>2. \/ proc' = proc
        \/ proc' = [proc EXCEPT ![s] = IF @ = "alive" THEN "signalled" ELSE @]
    OBVIOUS
  <2> QED
    BY <2>1, <2>2
<1>6. OtherTypes'
  <2>1. /\ step' \in [Thread -> Pcs]
        /\ proc' \in [Session -> {"none", "alive", "signalled", "exited"}]
        /\ notified' \in [Session -> SUBSET {"exit", "eof"}]
    BY <1>3, <1>4, <1>5
  <2>2. /\ LaneTypes'
        /\ target' \in [{Selector, Closer} -> Session \union {NoSession}]
        /\ toReject' \subseteq Session /\ toClose' \subseteq Session
        /\ exitCode' \in [Session -> {"none", "clean", "error", "fatal"}]
        /\ evidence' \in [Session -> {"pending", "connected", "failed"}]
        /\ chunks' \in [Session -> Nat]
        /\ lease' \in [Session -> {"none", "subscribed", "engaged", "orphan"}]
        /\ decisive' \in [Session -> SUBSET {"auth", "failed"}]
        /\ inflight' \in [Session -> {"none", "auth", "failed"}]
        /\ grace' \in [Session -> {"off", "armed", "fired"}]
        /\ told' \in [Session -> [Kinds -> Nat]]
        /\ delivered' \in [Session -> Seq(Nat)]
        /\ closes' \in [Session -> Nat]
    BY <1>0, <1>2 DEF OtherTypes, LaneTypes
  <2> QED
    BY <2>1, <2>2 DEF OtherTypes
<1>7. /\ OutputFits(s)' /\ VerdictFits(s)'
      /\ state'[s] = x /\ rec'[s] = r /\ (s \in known' => s \in known)
      /\ s \in known /\ x # "closed" => s \in known'
      /\ todo'[Timer(s)] = todo[Timer(s)]
  BY <1>0, <1>1, <1>2, SummaryFacts
<1>8. /\ rec[s].started => r.started
      /\ x \in Resting /\ Advance(state[s], x)
  BY DEF Summary
<1>9. StartFits(s)'
  <2>1. StartFits(s)
    BY <1>0 DEF Control
  <2>2. step'[Lane(s)] = pc \/ step'[Lane(s)] = step[Lane(s)]
    BY <1>0, <1>3
  <2>3. step'[Lane(s)] = "bare" => ~r.handle
    BY <1>0, <1>3, <2>1 DEF StartFits
  <2> QED
    BY <1>2, <1>4, <1>5, <1>7, <1>8, <2>1, <2>2, <2>3 DEF StartFits
<1>10. ChildFits(s)'
  <2>1. CASE t = Lane(s)
    <3>1. step'[Closer] = step[Closer]
      BY <1>0, <1>3, <2>1, ThreadFacts DEF Lone
    <3> QED
      BY <1>7, <2>1, <3>1 DEF ChildFits, Serving
  <2>2. CASE t = Closer
    BY <1>3, <2>2 DEF ChildFits, Serving
  <2> QED
    BY <2>1, <2>2
<1>11. /\ UNCHANGED <<told, target, toReject, toClose, lane, busy, chunks, decisive, delivered>>
       /\ inflight'[s] = inflight[s] \/ inflight'[s] = "none"
       /\ \A y \in Session \ {s} :
             /\ proc'[y] = proc[y] /\ grace'[y] = grace[y] /\ inflight'[y] = inflight[y]
             /\ notified'[y] = notified[y]
  BY <1>2, <1>4, <1>5
<1>12. x = "starting" /\ step[Lane(s)] \notin {"idle", "start"} => r.started
  <2>1. x = "starting" => state[s] = "starting"
    BY <1>1, <1>8 DEF Advance
  <2> QED
    BY <1>0, <1>8, <2>1 DEF Control, LaneFits, Unclaimed
<1>13. CASE t = Lane(s)
  <2>1. step[Lane(s)] # "idle" /\ step'[Lane(s)] # "idle" /\ (x = "starting" => r.started)
    BY <1>3, <1>12, <1>13 DEF Closing
  <2>2. \A u \in Thread \ {Lane(s)} : step'[u] = step[u]
    BY <1>3, <1>13
  <2>3. t \in {Lane(s), Timer(s), IO, Reaper, Monitor}
    BY <1>13
  <2> QED
    BY <1>4, <1>6, <1>9, <1>10, <1>11, <2>1, <2>2, <2>3, LaneSummary
<1>14. CASE t = Closer
  <2>1. /\ step'[Selector] = step[Selector]
        /\ \A y \in Session : step'[Lane(y)] = step[Lane(y)]
    BY <1>0, <1>3, <1>14, ThreadFacts DEF Lone
  <2>2. \A y \in Session : /\ Submitting(y, "submitStart")' <=> Submitting(y, "submitStart")
                           /\ Submitting(y, "submitClose")' <=> Submitting(y, "submitClose")
    BY <1>2, <2>1 DEF Submitting
  <2>3. StateFits(s)'
    <3>1. x \in {"starting", "running", "closing", "failed", "closed"}
      BY <1>8 DEF Resting
    <3>2. x # "closed" => state[s] \notin {"none", "closed"}
      BY <1>1, <1>8, <3>1 DEF Advance
    <3>3. x # "closed" => s \in known'
      BY <1>0, <1>7, <3>2 DEF Control, StateFits
    <3> QED
      BY <1>7, <3>1, <3>3 DEF StateFits
  <2>4. LaneFits(s)'
    <3>1. Over(s) => Over(s)'
      BY <1>7, <1>8 DEF Over, Advance
    <3>2. Unclaimed(s)' => Unclaimed(s)
      BY <1>1, <1>7, <1>8 DEF Unclaimed, Advance
    <3>3. \A kind : InLane(s, kind)' <=> InLane(s, kind)
      BY <1>2 DEF InLane
    <3>4. LaneFits(s) /\ lane' = lane /\ busy' = busy /\ toReject' = toReject
      BY <1>0, <1>2 DEF Control
    <3> QED
      BY <2>1, <2>2, <3>1, <3>2, <3>3, <3>4 DEF LaneFits
  <2>5. ShutFits(s)'
    <3>1. ShutFits(s) /\ step[Closer] \in Closing /\ step'[Closer] = pc
      BY <1>0, <1>3, <1>14 DEF Control
    <3>2. x \in {"starting", "running"} => state[s] \in {"starting", "running"}
      BY <1>1, <1>8 DEF Advance
    <3>3. (s \in toClose' \/ target'[Closer] = s) => state'[s] # "none"
      BY <1>7, <1>8 DEF Resting
    <3>4. ~Serving'
      BY <3>1 DEF Serving
    <3>5. x \in {"starting", "running"} =>
             (step[Closer] # "close" /\ s \in toClose') \/ step'[Closer] = "aborted"
      BY <1>2, <1>14, <3>1, <3>2 DEF ShutFits, Closing
    <3> QED
      BY <1>7, <3>1, <3>3, <3>4, <3>5 DEF ShutFits
  <2>6. Control(s)'
    BY <1>7, <1>9, <1>10, <2>3, <2>4, <2>5 DEF Control
  <2>7. ASSUME NEW y \in Session \ {s}
        PROVE  /\ SameSession(y) /\ SameServer(y) /\ delivered'[y] = delivered[y] /\ t # Timer(y)
               /\ Submitting(y, "submitStart") => t # Selector
    <3>1. SameSession(y)
      BY <1>2, <1>11, <2>1 DEF SameSession
    <3>2. /\ step[Closer] \in Closing /\ step'[Closer] = pc /\ target[Closer] = s
          /\ target'[Closer] = target[Closer]
      BY <1>2, <1>3, <1>14
    <3>3. SameServer(y)
      BY <1>2, <2>2, <3>2 DEF SameServer, Closing
    <3> QED
      BY <1>0, <1>2, <3>1, <3>3
  <2>8. /\ step'[Selector] \in {"submitStart", "submitClose"} => target'[Selector] \in Session
        /\ Returned => Returned'
        /\ ~Submitting(s, "submitStart")' /\ (Submitting(s, "submitStart") => t = Selector)
    <3>1. step'[Selector] \in {"submitStart", "submitClose"} => target'[Selector] \in Session
      BY <1>2, <2>1 DEF IInv, EffectFits
    <3>2. ~Returned
      BY <1>14 DEF Returned, Closing
    <3> QED
      BY <1>1, <2>2, <3>1, <3>2
  <2>9. /\ Tidy(q, s, K) /\ Section(t, s, x, r, q) /\ r \in RecordType
        /\ \A kind \in K : ~Past(s, kind) /\ Past(s, kind)'
    BY DEF Summary
  <2>10. x \in States \union {"none"} /\ x # "none"
    BY <1>8 DEF Resting, States
  <2>11. told' = told
    BY <1>2
  <2> QED
    BY <1>0, <1>1, <1>4, <1>6, <1>7, <1>8, <2>6, <2>7, <2>8, <2>9, <2>10, <2>11, SectionInvariant
<1> QED
  BY <1>13, <1>14

\* A step that leaves the record alone and owes at most a release.
LEMMA PlainSummary ==
    ASSUME IInv, NEW s \in Session, NEW t \in Thread, state[s] # "none", NEW q,
           Tidy(q, s, {}), Mute(q), UNCHANGED recordVars, todo' = [todo EXCEPT ![t] = q]
    PROVE  Summary(t, s, state[s], rec[s], q, {})
<1>1. /\ Kernel /\ rec[s] \in RecordType /\ state[s] \in Resting /\ VerdictFits(s)
      /\ TypeOK /\ ~fault
  BY InvariantFacts, RestingFacts DEF Control, Kernel
<1>2. UNCHANGED <<state, rec, known, born, fault>>
  BY DEF recordVars
<1>3. state' = [state EXCEPT ![s] = state[s]] /\ rec' = [rec EXCEPT ![s] = rec[s]]
  BY <1>1, <1>2 DEF TypeOK
<1>4. Retained'
  BY <1>1, <1>2 DEF Kernel, Retained
<1>5. fault' = FALSE
  BY <1>1, <1>2 DEF TypeOK
<1>6. Section(t, s, state[s], rec[s], q)
  BY <1>2, <1>3, <1>4, <1>5 DEF Section
<1> QED
  BY <1>1, <1>6 DEF Summary, Advance, VerdictFits

\* An announcement and what follows it.
LEMMA TidyThen ==
    ASSUME NEW s \in Session, NEW kind \in Kinds \ {"authenticated", "exited"}, NEW z,
           Tidy(z, s, {}), Mute(z)
    PROVE  Tidy(Publish(s, kind) \o z, s, {kind}) /\ Mute(Publish(s, kind) \o z)
<1>1. 0 \in Nat
  OBVIOUS
<1>2. Tidy(Publish(s, kind), s, {kind}) /\ Mute(Publish(s, kind))
  BY <1>1, TidyOne, MuteOne
<1>3. Tidy(Publish(s, kind) \o z, s, {kind} \union {}) /\ {kind} \union {} = {kind}
  BY <1>2, TidyCat
<1>4. Publish(s, kind) \in Seq(EffectType) /\ z \in Seq(EffectType)
  BY <1>2 DEF Tidy
<1> QED
  BY <1>2, <1>3, <1>4, MuteCat

\* The thread that closes a session closes one that was opened, and holds on to
\* the child.
LEMMA ClosingFacts ==
    ASSUME IInv, NEW s \in Session, NEW t \in {Lane(s), Closer}, t = Closer => target[Closer] = s,
           step[t] \in Closing
    PROVE  /\ t \in Thread /\ state[s] # "none" /\ state[s] \in Resting
           /\ s \notin known => state[s] = "closed"
           /\ rec[s] \in RecordType /\ (rec[s].exit # "none" => proc[s] = "exited")
           /\ t = Lane(s) /\ proc[s] = "alive" =>
                 (s \in known /\ state[s] # "closed" /\ rec[s].handle) \/ ~Serving
           /\ Tidy(<<>>, s, {}) /\ Mute(<<>>)
           /\ Tidy(FinishReadiness(s), s, {}) /\ Mute(FinishReadiness(s))
<1>0. Control(s) /\ rec[s] \in RecordType /\ t \in Thread /\ 0 \in Nat
  BY InvariantFacts, ThreadFacts DEF Lone
<1>1. state[s] # "none"
  <2>1. CASE t = Lane(s)
    <3>1. step[Lane(s)] # "idle"
      BY <2>1 DEF Closing
    <3> QED
      BY <3>1, InvariantFacts
  <2>2. CASE t = Closer
    BY <1>0, <2>2 DEF Control, ShutFits
  <2> QED
    BY <2>1, <2>2
<1>2. state[s] \in Resting
  BY <1>1, RestingFacts
<1>3. s \notin known => state[s] = "closed"
  BY <1>0, <1>1 DEF Control, StateFits
<1>4. rec[s].exit # "none" => proc[s] = "exited"
  BY <1>0 DEF Control, StartFits
<1>5. t = Lane(s) /\ proc[s] = "alive" =>
         (s \in known /\ state[s] # "closed" /\ rec[s].handle) \/ ~Serving
  BY <1>0 DEF Control, ChildFits, Closing
<1>6. /\ Tidy(<<>>, s, {}) /\ Mute(<<>>)
      /\ Tidy(FinishReadiness(s), s, {}) /\ Mute(FinishReadiness(s))
  BY <1>0, TidyOne, MuteOne
<1> QED
  BY <1>0, <1>1, <1>2, <1>3, <1>4, <1>5, <1>6

\* The close command looks the record up and announces CLOSING.
LEMMA CloseBeginStep ==
    ASSUME IInv, NEW s \in Session, NEW t \in {Lane(s), Closer}, t = Closer => target[Closer] = s,
           CloseBegin(t, s)
    PROVE  IInv'
<1>0. /\ todo[t] = <<>> /\ step[t] = "close" /\ step[t] \in Closing
      /\ UNCHANGED <<laneVars, serverVars, exitCode, ptyVars, diagVars, toldVars>>
      /\ proc' = proc /\ notified' = notified
  BY DEF CloseBegin, At, Closing, procVars
<1>1. /\ t \in Thread /\ state[s] # "none" /\ state[s] \in Resting
      /\ s \notin known => state[s] = "closed"
      /\ rec[s] \in RecordType /\ (rec[s].exit # "none" => proc[s] = "exited")
      /\ t = Lane(s) /\ proc[s] = "alive" =>
            (s \in known /\ state[s] # "closed" /\ rec[s].handle) \/ ~Serving
      /\ Tidy(<<>>, s, {}) /\ Mute(<<>>)
  BY <1>0, ClosingFacts
<1>2. \/ /\ state[s] = "closed"
         /\ Goto(t, IF t = Closer THEN "aborted" ELSE "done") \/ Goto(t, "done")
         /\ UNCHANGED <<recordVars, todo>>
      \/ /\ s \in known /\ state[s] \in {"closing", "failed"}
         /\ state[s] = "failed" => rec[s].handle
         /\ Locked(t, s, <<>>, rec[s], <<>>)
         /\ Goto(t, IF rec[s].handle THEN "terminate" ELSE "bare")
      \/ /\ s \in known /\ state[s] = "failed" /\ ~rec[s].handle
         /\ Locked(t, s, <<"closed">>, rec[s], Publish(s, "closed"))
         /\ Goto(t, "bare")
      \/ /\ s \in known /\ state[s] \in {"starting", "running"}
         /\ Locked(t, s, <<"closing">>, rec[s], Publish(s, "closing"))
         /\ Goto(t, IF rec[s].handle THEN "terminate" ELSE "bare")
  <2>1. \/ /\ s \notin known \/ state[s] = "closed"
           /\ Goto(t, IF t = Closer THEN "aborted" ELSE "done") \/ Goto(t, "done")
           /\ UNCHANGED <<recordVars, todo>>
        \/ s \in known /\ state[s] # "closed"
    BY DEF CloseBegin
  <2>2. CASE s \in known /\ state[s] # "closed"
    <3> DEFINE path == CASE state[s] \in {"created", "exited"} -> <<"closed">>
                         [] state[s] = "failed" /\ ~rec[s].handle -> <<"closed">>
                         [] state[s] \in {"starting", "running"} -> <<"closing">>
                         [] OTHER -> <<>>
    <3>1. /\ Locked(t, s, path, rec[s], IF path = <<>> THEN <<>> ELSE Publish(s, path[1]))
          /\ Goto(t, IF rec[s].handle /\ state[s] \in {"failed", "starting", "running", "closing"}
                     THEN "terminate" ELSE "bare")
      BY <2>2 DEF CloseBegin
    <3>2. state[s] \in {"starting", "running", "closing", "failed"}
      BY <1>1, <2>2 DEF Resting
    <3>3. /\ <<"closed">> # <<>> /\ <<"closing">> # <<>>
          /\ <<"closed">>[1] = "closed" /\ <<"closing">>[1] = "closing"
      OBVIOUS
    <3>4. CASE state[s] \in {"starting", "running"}
      <4>1. path = <<"closing">>
        BY <3>4
      <4> QED
        BY <2>2, <3>1, <3>3, <3>4, <4>1
    <3>5. CASE state[s] = "failed" /\ ~rec[s].handle
      <4>1. path = <<"closed">>
        BY <3>5
      <4> QED
        BY <2>2, <3>1, <3>3, <3>5, <4>1
    <3>6. CASE state[s] = "closing" \/ (state[s] = "failed" /\ rec[s].handle)
      <4>1. path = <<>>
        BY <3>6
      <4>2. Locked(t, s, <<>>, rec[s], <<>>)
        BY <3>1, <4>1
      <4>3. Goto(t, IF rec[s].handle THEN "terminate" ELSE "bare")
        BY <3>1, <3>2
      <4> QED
        BY <2>2, <3>6, <4>2, <4>3
    <3> QED
      BY <3>2, <3>4, <3>5, <3>6
  <2> QED
    BY <1>1, <2>1, <2>2
<1>3. CASE /\ state[s] = "closed"
           /\ Goto(t, IF t = Closer THEN "aborted" ELSE "done") \/ Goto(t, "done")
           /\ UNCHANGED <<recordVars, todo>>
  <2>1. PICK pc \in {"done", "aborted"} : Goto(t, pc)
    BY <1>3
  <2>2. todo' = [todo EXCEPT ![t] = <<>>]
    <3>1. todo \in [Thread -> Seq(EffectType)] /\ todo' = todo
      BY <1>3, InvariantFacts
    <3> QED
      BY <1>0, <1>1, <3>1
  <2>3. Summary(t, s, state[s], rec[s], <<>>, {})
    BY <1>1, <1>3, <2>2, PlainSummary
  <2> QED
    BY <1>0, <1>1, <1>3, <2>1, <2>3, CloseSection
<1>4. CASE /\ s \in known /\ state[s] \in {"closing", "failed"}
           /\ state[s] = "failed" => rec[s].handle
           /\ Locked(t, s, <<>>, rec[s], <<>>)
           /\ Goto(t, IF rec[s].handle THEN "terminate" ELSE "bare")
  <2>1. RecordFits(s, rec[s], state[s])
    BY <1>1, RecordKept
  <2>2. Summary(t, s, state[s], rec[s], <<>>, {})
    BY <1>0, <1>1, <1>4, <2>1, StaySummary
  <2>3. PICK pc \in {"terminate", "bare"} : Goto(t, pc) /\ (pc = "bare" => ~rec[s].handle)
    BY <1>4
  <2> QED
    BY <1>0, <1>1, <1>4, <2>2, <2>3, CloseSection
<1>5. ASSUME s \in known, NEW x \in {"closed", "closing"}, Locked(t, s, <<x>>, rec[s], Publish(s, x)),
             Goto(t, IF rec[s].handle THEN "terminate" ELSE "bare"),
             \/ x = "closing" /\ state[s] \in {"starting", "running"}
             \/ x = "closed" /\ state[s] = "failed" /\ ~rec[s].handle
      PROVE  IInv'
  <2>1. RecordFits(s, rec[s], x)
    BY <1>1, <1>5, RecordKept DEF Resting
  <2>2. Tidy(Publish(s, x), s, {x}) /\ Mute(Publish(s, x))
    <3>1. 0 \in Nat /\ x \in Kinds \ {"authenticated", "exited"}
      BY DEF Kinds, States
    <3> QED
      BY <3>1, TidyOne, MuteOne
  <2>3. Summary(t, s, x, rec[s], Publish(s, x), {x})
    BY <1>0, <1>1, <1>5, <2>1, <2>2, MoveSummary
  <2>4. PICK pc \in {"terminate", "bare"} : Goto(t, pc) /\ (pc = "bare" => ~rec[s].handle)
    BY <1>5
  <2>5. t = Lane(s) /\ proc'[s] = "alive" => (s \in known /\ x # "closed" /\ rec[s].handle) \/ ~Serving
    BY <1>0, <1>1, <1>5
  <2>6. x \notin {"starting", "running"}
    OBVIOUS
  <2>7. PICK q, K : Summary(t, s, x, rec[s], q, K)
    BY <2>3
  <2> QED
    BY <1>0, <1>1, <2>4, <2>5, <2>6, <2>7, CloseSection
<1>6. CASE /\ s \in known /\ state[s] = "failed" /\ ~rec[s].handle
           /\ Locked(t, s, <<"closed">>, rec[s], Publish(s, "closed"))
           /\ Goto(t, "bare")
  BY <1>5, <1>6
<1>7. CASE /\ s \in known /\ state[s] \in {"starting", "running"}
           /\ Locked(t, s, <<"closing">>, rec[s], Publish(s, "closing"))
           /\ Goto(t, IF rec[s].handle THEN "terminate" ELSE "bare")
  BY <1>5, <1>7
<1> QED
  BY <1>2, <1>3, <1>4, <1>6, <1>7

\* A session without a handle is closed at once.
LEMMA CloseBareStep ==
    ASSUME IInv, NEW s \in Session, NEW t \in {Lane(s), Closer}, t = Closer => target[Closer] = s,
           CloseBare(t, s)
    PROVE  IInv'
<1>0. /\ todo[t] = <<>> /\ step[t] = "bare" /\ step[t] \in Closing /\ Goto(t, "done")
      /\ UNCHANGED <<laneVars, serverVars, exitCode, ptyVars, diagVars, toldVars>>
      /\ proc' = proc /\ notified' = notified
  BY DEF CloseBare, At, Closing, procVars
<1>1. /\ t \in Thread /\ state[s] # "none" /\ state[s] \in Resting
      /\ rec[s] \in RecordType /\ (rec[s].exit # "none" => proc[s] = "exited")
      /\ t = Lane(s) /\ proc[s] = "alive" =>
            (s \in known /\ state[s] # "closed" /\ rec[s].handle) \/ ~Serving
      /\ Tidy(FinishReadiness(s), s, {}) /\ Mute(FinishReadiness(s))
  BY <1>0, ClosingFacts
<1>2. t = Lane(s) => ~rec[s].handle
  BY <1>0, InvariantFacts DEF Control, StartFits
<1>3. ASSUME NEW x, NEW q, NEW K, Summary(t, s, x, rec[s], q, K) PROVE IInv'
  <2>1. t = Lane(s) /\ proc'[s] = "alive" => (s \in known /\ x # "closed" /\ rec[s].handle) \/ ~Serving
    BY <1>0, <1>1, <1>2
  <2> QED
    BY <1>0, <1>1, <1>3, <2>1, CloseSection
<1>4. CASE state[s] = "closing"
  <2>1. Locked(t, s, <<"closed">>, rec[s], Publish(s, "closed") \o FinishReadiness(s))
    BY <1>4 DEF CloseBare
  <2>2. RecordFits(s, rec[s], "closed")
    BY <1>1, RecordKept DEF Resting
  <2>3. "closed" \in Kinds \ {"authenticated", "exited"}
    BY DEF Kinds, States
  <2>4. /\ Tidy(Publish(s, "closed") \o FinishReadiness(s), s, {"closed"})
        /\ Mute(Publish(s, "closed") \o FinishReadiness(s))
    BY <1>1, <2>3, TidyThen
  <2>5. PICK q : q = Publish(s, "closed") \o FinishReadiness(s)
    OBVIOUS
  <2>6. Summary(t, s, "closed", rec[s], q, {"closed"})
    BY <1>0, <1>1, <1>4, <2>1, <2>2, <2>4, <2>5, MoveSummary
  <2> QED
    BY <1>3, <2>6
<1>5. CASE state[s] # "closing"
  <2>1. Locked(t, s, <<>>, rec[s], FinishReadiness(s))
    BY <1>5 DEF CloseBare, LeavesRecord
  <2>2. RecordFits(s, rec[s], state[s])
    BY <1>1, RecordKept
  <2>3. Summary(t, s, state[s], rec[s], FinishReadiness(s), {})
    BY <1>0, <1>1, <2>1, <2>2, StaySummary
  <2> QED
    BY <1>3, <2>3
<1> QED
  BY <1>4, <1>5

\* The close command signals the child.
LEMMA CloseSignalStep ==
    ASSUME IInv, NEW s \in Session, NEW t \in {Lane(s), Closer}, t = Closer => target[Closer] = s,
           CloseSignal(t, s)
    PROVE  IInv'
<1>0. /\ todo[t] = <<>> /\ step[t] = "terminate" /\ step[t] \in Closing
      /\ UNCHANGED <<recordVars, laneVars, serverVars, exitCode, ptyVars, diagVars, toldVars>>
      /\ notified' = notified
  BY DEF CloseSignal, At, Closing
<1>1. /\ t \in Thread /\ state[s] # "none"
      /\ rec[s] \in RecordType /\ (rec[s].exit # "none" => proc[s] = "exited")
      /\ t = Lane(s) /\ proc[s] = "alive" =>
            (s \in known /\ state[s] # "closed" /\ rec[s].handle) \/ ~Serving
      /\ Tidy(<<>>, s, {}) /\ Mute(<<>>)
      /\ Tidy(FinishReadiness(s), s, {}) /\ Mute(FinishReadiness(s))
  BY <1>0, ClosingFacts
<1>2. \/ Signal(s) /\ Goto(t, "waiting") /\ todo' = todo
      \/ /\ ~rec[s].handle /\ todo' = [todo EXCEPT ![t] = FinishReadiness(s)]
         /\ Goto(t, "done") /\ proc' = proc
  BY DEF CloseSignal
<1>3. CASE Signal(s) /\ Goto(t, "waiting") /\ todo' = todo
  <2>1. todo' = [todo EXCEPT ![t] = <<>>]
    <3>1. todo \in [Thread -> Seq(EffectType)]
      BY InvariantFacts
    <3> QED
      BY <1>0, <1>1, <1>3, <3>1
  <2>2. Summary(t, s, state[s], rec[s], <<>>, {})
    BY <1>0, <1>1, <2>1, PlainSummary
  <2>3. /\ proc' = [proc EXCEPT ![s] = IF @ = "alive" THEN "signalled" ELSE @]
        /\ proc'[s] # "alive"
    <3>1. proc \in [Session -> {"none", "alive", "signalled", "exited"}]
      BY InvariantFacts DEF OtherTypes
    <3> QED
      BY <1>3, <3>1 DEF Signal
  <2> QED
    BY <1>0, <1>1, <1>3, <2>2, <2>3, CloseSection
<1>4. CASE /\ ~rec[s].handle /\ todo' = [todo EXCEPT ![t] = FinishReadiness(s)]
           /\ Goto(t, "done") /\ proc' = proc
  <2>1. Summary(t, s, state[s], rec[s], FinishReadiness(s), {})
    BY <1>0, <1>1, <1>4, PlainSummary
  <2> QED
    BY <1>0, <1>1, <1>4, <2>1, CloseSection
<1> QED
  BY <1>2, <1>3, <1>4

\* wait() returns with the exit of the child, ...
LEMMA CloseExitedStep ==
    ASSUME IInv, NEW s \in Session, NEW t \in {Lane(s), Closer}, t = Closer => target[Closer] = s,
           CloseExited(t, s)
    PROVE  IInv'
<1>0. /\ todo[t] = <<>> /\ step[t] = "waiting" /\ step[t] \in Closing /\ proc[s] = "exited"
      /\ UNCHANGED <<laneVars, serverVars, exitCode, ptyVars, diagVars, toldVars>>
      /\ proc' = proc /\ notified' = [notified EXCEPT ![s] = @ \union {"exit"}]
      /\ Goto(t, "done") /\ ProcessExited(t, s, FinishReadiness(s))
  BY DEF CloseExited, At, Closing
<1>1. /\ t \in Thread /\ state[s] # "none"
      /\ Tidy(FinishReadiness(s), s, {}) /\ Mute(FinishReadiness(s))
  BY <1>0, ClosingFacts
<1>2. PICK x, r, q, K : /\ Summary(t, s, x, r, q, K)
                        /\ r.handle => rec[s].handle
  <2>1. PICK z : z = FinishReadiness(s)
    OBVIOUS
  <2> QED
    BY <1>0, <1>1, <2>1, ExitSummary
<1>3. proc'[s] # "alive" /\ step[t] # "close"
  BY <1>0
<1> QED
  BY <1>0, <1>2, <1>3, CloseSection

\* ... or at the deadline, and the close has failed.
LEMMA CloseTimeoutStep ==
    ASSUME IInv, NEW s \in Session, NEW t \in {Lane(s), Closer}, t = Closer => target[Closer] = s,
           CloseTimeout(t, s)
    PROVE  IInv'
<1> DEFINE fails == state[s] \notin {"failed", "closed"}
           r == [rec[s] EXCEPT !.closeScheduled = FALSE, !.failure = @ \/ fails]
           z == IF t = Closer THEN FinishReadiness(s) ELSE <<>>
<1>0. /\ todo[t] = <<>> /\ step[t] = "waiting" /\ step[t] \in Closing /\ Goto(t, "done")
      /\ UNCHANGED <<laneVars, serverVars, exitCode, ptyVars, diagVars, toldVars>>
      /\ proc' = proc /\ notified' = notified
      /\ Locked(t, s, IF fails THEN <<"failed">> ELSE <<>>, r,
                (IF fails THEN Publish(s, "failed") ELSE <<>>) \o z)
  BY DEF CloseTimeout, At, Closing, procVars
<1>1. /\ t \in Thread /\ state[s] # "none" /\ state[s] \in Resting
      /\ rec[s] \in RecordType /\ (rec[s].exit # "none" => proc[s] = "exited")
      /\ t = Lane(s) /\ proc[s] = "alive" =>
            (s \in known /\ state[s] # "closed" /\ rec[s].handle) \/ ~Serving
      /\ Tidy(z, s, {}) /\ Mute(z)
  BY <1>0, ClosingFacts
<1>2. /\ r \in RecordType /\ r.exit = rec[s].exit /\ r.handle = rec[s].handle
      /\ r.started = rec[s].started /\ r.result = rec[s].result
      /\ r.deferred = rec[s].deferred /\ r.capable = rec[s].capable
  <2>1. PICK b \in BOOLEAN : b = (rec[s].failure \/ fails)
    OBVIOUS
  <2>2. r = [rec[s] EXCEPT !.closeScheduled = FALSE, !.failure = b]
    BY <2>1
  <2> HIDE DEF r
  <2> QED
    BY <1>1, <2>2 DEF RecordType
<1>3. z \in Seq(EffectType)
  BY <1>1 DEF Tidy
<1> HIDE DEF r, z
<1>4. ASSUME NEW x, NEW q, NEW K, Summary(t, s, x, r, q, K), x = "closed" => state[s] = "closed"
      PROVE  IInv'
  <2>1. t = Lane(s) /\ proc'[s] = "alive" => (s \in known /\ x # "closed" /\ r.handle) \/ ~Serving
    BY <1>0, <1>1, <1>2, <1>4
  <2>2. /\ r.exit # "none" => proc[s] = "exited"
        /\ r.handle => rec[s].handle
        /\ step[t] # "close"
    BY <1>0, <1>1, <1>2
  <2> QED
    BY <1>0, <1>4, <2>1, <2>2, CloseSection
<1>5. CASE fails
  <2>1. Locked(t, s, <<"failed">>, r, Publish(s, "failed") \o z)
    BY <1>0, <1>5
  <2>2. RecordFits(s, r, "failed")
    BY <1>2, RecordKept DEF Resting
  <2>3. "failed" \in Kinds \ {"authenticated", "exited"}
    BY DEF Kinds, States
  <2>4. Tidy(Publish(s, "failed") \o z, s, {"failed"}) /\ Mute(Publish(s, "failed") \o z)
    BY <1>1, <2>3, TidyThen
  <2>5. PICK q : q = Publish(s, "failed") \o z
    OBVIOUS
  <2>6. state[s] \in {"starting", "running", "closing"}
    BY <1>1, <1>5 DEF Resting
  <2>7. Summary(t, s, "failed", r, q, {"failed"})
    BY <1>0, <1>1, <2>1, <2>2, <2>4, <2>5, <2>6, MoveSummary
  <2> QED
    BY <1>4, <2>7
<1>6. CASE ~fails
  <2>1. Locked(t, s, <<>>, r, z)
    <3>1. <<>> \o z = z
      BY <1>3, ConcatEmptySeq
    <3> QED
      BY <1>0, <1>6, <3>1
  <2>2. RecordFits(s, r, state[s])
    BY <1>1, <1>2, RecordKept
  <2>3. Summary(t, s, state[s], r, z, {})
    BY <1>0, <1>1, <2>1, <2>2, StaySummary
  <2> QED
    BY <1>4, <2>3
<1> QED
  BY <1>5, <1>6

\* _close_session_id, on the lane of the session and on the thread of shutdown().
LEMMA CloseStepStep ==
    ASSUME IInv, NEW s \in Session, NEW t \in {Lane(s), Closer}, t = Closer => target[Closer] = s,
           CloseStep(t, s)
    PROVE  IInv'
  BY CloseBeginStep, CloseBareStep, CloseSignalStep, CloseExitedStep, CloseTimeoutStep DEF CloseStep

-----------------------------------------------------------------------------
(* Shutdown: the thread of shutdown() between the closes.                  *)

\* A step of the closer that touches neither the records nor the queues.
LEMMA CloserPlain ==
    ASSUME IInv, NEW pc \in {"done", "close", "cleared", "runnerClosed", "returned"},
           step[Closer] \in {"stopped", "done", "cleared", "runnerClosed"}, Goto(Closer, pc),
           UNCHANGED <<recordVars, laneVars, todo, toReject, closes, exitCode, notified,
                       ptyVars, diagVars, toldVars>>,
           target' \in [{Selector, Closer} -> Session \union {NoSession}],
           target'[Selector] = target[Selector], toClose' \subseteq Session,
           proc' \in [Session -> {"none", "alive", "signalled", "exited"}],
           \A y \in Session : /\ proc'[y] = "none" <=> proc[y] = "none"
                              /\ proc'[y] = "exited" <=> proc[y] = "exited"
                              /\ ShutFits(y)'
    PROVE  IInv'
<1>0. OtherTypes /\ Closer \in Thread /\ Selector \in Thread /\ Selector # Closer
  BY InvariantFacts, ThreadFacts DEF IInv, TypeOK, OtherTypes, Lone, Pcs
<1>1. UNCHANGED <<state, rec, known, born, fault, lane, busy, outstanding, laneAccepting, evidence,
                  chunks, lease, decisive, inflight, grace, told, delivered, todo, toReject, closes,
                  exitCode, notified>>
  BY DEF recordVars, laneVars, ptyVars, diagVars, toldVars
<1>2. /\ step'[Closer] = pc /\ step' \in [Thread -> Pcs]
      /\ \A u \in Thread \ {Closer} : step'[u] = step[u]
  <2>1. pc \in Pcs
    BY DEF Pcs
  <2> QED
    BY <1>0, <2>1, GotoFacts
<1>3. OtherTypes'
  BY <1>0, <1>1, <1>2 DEF OtherTypes, LaneTypes
<1>4. step'[Selector] = step[Selector] /\ \A y \in Session : step'[Lane(y)] = step[Lane(y)]
  BY <1>0, <1>2, ThreadFacts DEF Lone
<1>5. \A y \in Session : /\ Submitting(y, "submitStart")' <=> Submitting(y, "submitStart")
                         /\ Submitting(y, "submitClose")' <=> Submitting(y, "submitClose")
  BY <1>4 DEF Submitting
<1>6. ~Serving /\ ~Serving' /\ ~Returned
  BY <1>2 DEF Serving, Returned
<1>7. ASSUME NEW y \in Session PROVE Control(y)'
  <2>0. Control(y)
    BY InvariantFacts
  <2>1. StateFits(y)'
    BY <1>1, <2>0 DEF Control, StateFits
  <2>2. LaneFits(y)'
    <3>1. LaneFits(y)
      BY <2>0 DEF Control
    <3> QED
      BY <1>1, <1>4, <1>5, <3>1 DEF LaneFits, Over, InLane, Unclaimed
  <2>3. StartFits(y)'
    <3>1. StartFits(y)
      BY <2>0 DEF Control
    <3> QED
      BY <1>1, <1>4, <3>1 DEF StartFits
  <2>4. ChildFits(y)'
    BY <1>6 DEF ChildFits
  <2>5. VerdictFits(y)'
    BY <1>1, <2>0 DEF Control, VerdictFits
  <2> QED
    BY <2>1, <2>2, <2>3, <2>4, <2>5 DEF Control
<1>8. step'[Selector] \in {"submitStart", "submitClose"} => target'[Selector] \in Session
  BY <1>4 DEF IInv, EffectFits
<1>9. \A y \in Session :
         /\ Control(y)'
         /\ state[y] = "none" \/ Submitting(y, "submitStart")' => lane'[y] = lane[y]
         /\ state[y] = "none" /\ y \in toReject' => y \in toReject
         /\ state[y] = "none" /\ Submitting(y, "submitClose")' => Submitting(y, "submitClose")
         /\ Submitting(y, "submitStart")' => Submitting(y, "submitStart") /\ (Serving => Serving')
         /\ Submitting(y, "submitStart") /\ ~Submitting(y, "submitStart")' => todo[Selector] = <<>>
  BY <1>1, <1>5, <1>6, <1>7
<1>10. UNCHANGED <<recordVars, todo, toldVars, notified, chunks>> /\ (Returned => Returned')
  BY <1>1, <1>6
<1> QED
  BY <1>3, <1>8, <1>9, <1>10, PlainInvariant

\* shutdown() takes the snapshot of the sessions it will close, ...
LEMMA ShutdownBeginStep == ASSUME IInv, ShutdownBegin PROVE IInv'
<1>0. OtherTypes /\ TypeOK /\ Closer \in Thread /\ \A y \in Session : Control(y)
  BY InvariantFacts, ThreadFacts DEF IInv, TypeOK, OtherTypes, Lone, Pcs
<1>1. /\ step[Closer] = "stopped" /\ Goto(Closer, "done") /\ toClose' = known
      /\ UNCHANGED <<recordVars, laneVars, todo, toReject, closes, exitCode, notified,
                     ptyVars, diagVars, toldVars>>
      /\ target' = target /\ proc' = proc /\ state' = state /\ toReject = {} /\ toReject' = {}
  BY DEF ShutdownBegin, At, procVars, recordVars
<1>2. step'[Closer] = "done"
  BY <1>0, <1>1 DEF Goto, TypeOK
<1>3. ASSUME NEW y \in Session PROVE ShutFits(y)'
  BY <1>0, <1>1, <1>2 DEF Control, StateFits, ShutFits, Serving
<1>4. /\ target' \in [{Selector, Closer} -> Session \union {NoSession}]
      /\ toClose' \subseteq Session
      /\ proc' \in [Session -> {"none", "alive", "signalled", "exited"}]
  BY <1>0, <1>1 DEF TypeOK
<1> QED
  BY <1>1, <1>3, <1>4, CloserPlain

\* ... goes on to the oldest of them, ...
LEMMA ShutdownNextStep == ASSUME IInv, NEW s \in Session, ShutdownNext(s) PROVE IInv'
<1>0. OtherTypes /\ TypeOK /\ Closer \in Thread /\ Selector # Closer /\ \A y \in Session : Control(y)
  BY InvariantFacts, ThreadFacts DEF IInv, TypeOK, OtherTypes, Lone, Pcs
<1>1. /\ step[Closer] = "done" /\ Goto(Closer, "close") /\ toClose' = toClose \ {s} /\ s \in toClose
      /\ UNCHANGED <<recordVars, laneVars, todo, toReject, closes, exitCode, notified,
                     ptyVars, diagVars, toldVars>>
      /\ target' = [target EXCEPT ![Closer] = s] /\ proc' = proc /\ state' = state
  BY DEF ShutdownNext, At, procVars, recordVars
<1>2. step'[Closer] = "close"
  BY <1>0, <1>1 DEF Goto, TypeOK
<1>3. /\ target' \in [{Selector, Closer} -> Session \union {NoSession}]
      /\ target'[Selector] = target[Selector] /\ target'[Closer] = s
      /\ toClose' \subseteq Session
      /\ proc' \in [Session -> {"none", "alive", "signalled", "exited"}]
  BY <1>0, <1>1 DEF TypeOK
<1>4. ASSUME NEW y \in Session PROVE ShutFits(y)'
  <2>1. ShutFits(y) /\ ShutFits(s)
    BY <1>0 DEF Control
  <2>2. state[y] \in {"starting", "running"} => y \in toClose
    BY <1>1, <2>1 DEF ShutFits
  <2>3. y \in toClose' \/ target'[Closer] = y => state'[y] # "none"
    BY <1>1, <1>3, <2>1 DEF ShutFits
  <2>4. ~Serving'
    BY <1>2 DEF Serving
  <2> QED
    BY <1>1, <1>2, <1>3, <2>2, <2>3, <2>4 DEF ShutFits
<1> QED
  BY <1>1, <1>3, <1>4, CloserPlain

\* ... drops the callbacks once it has closed them all, ...
LEMMA ShutdownClearStep == ASSUME IInv, ShutdownClear PROVE IInv'
<1>0. OtherTypes /\ TypeOK /\ Closer \in Thread /\ \A y \in Session : Control(y)
  BY InvariantFacts, ThreadFacts DEF IInv, TypeOK, OtherTypes, Lone, Pcs
<1>1. /\ step[Closer] = "done" /\ Goto(Closer, "cleared") /\ toClose = {} /\ toClose' = toClose
      /\ UNCHANGED <<recordVars, laneVars, todo, toReject, closes, exitCode, notified,
                     ptyVars, diagVars, toldVars>>
      /\ target' = target /\ proc' = proc /\ state' = state
  BY DEF ShutdownClear, At, procVars, recordVars, serverVars
<1>2. step'[Closer] = "cleared"
  BY <1>0, <1>1 DEF Goto, TypeOK
<1>3. ASSUME NEW y \in Session PROVE ShutFits(y)'
  BY <1>0, <1>1, <1>2 DEF Control, ShutFits, Serving
<1>4. /\ target' \in [{Selector, Closer} -> Session \union {NoSession}]
      /\ toClose' \subseteq Session
      /\ proc' \in [Session -> {"none", "alive", "signalled", "exited"}]
  BY <1>0, <1>1 DEF TypeOK
<1> QED
  BY <1>1, <1>3, <1>4, CloserPlain

\* ... closes the runner, which kills the children it still owns, ...
LEMMA RunnerClosesStep == ASSUME IInv, RunnerCloses PROVE IInv'
<1>0. OtherTypes /\ TypeOK /\ Closer \in Thread /\ \A y \in Session : Control(y)
  BY InvariantFacts, ThreadFacts DEF IInv, TypeOK, OtherTypes, Lone, Pcs
<1>1. /\ step[Closer] = "cleared" /\ Goto(Closer, "runnerClosed") /\ toClose' = toClose
      /\ UNCHANGED <<recordVars, laneVars, todo, toReject, closes, exitCode, notified,
                     ptyVars, diagVars, toldVars>>
      /\ target' = target /\ state' = state
      /\ proc' = [s \in Session |-> IF proc[s] = "alive" THEN "signalled" ELSE proc[s]]
  BY DEF RunnerCloses, At, recordVars, serverVars
<1>2. step'[Closer] = "runnerClosed"
  BY <1>0, <1>1 DEF Goto, TypeOK
<1>3. ASSUME NEW y \in Session PROVE ShutFits(y)'
  BY <1>0, <1>1, <1>2 DEF Control, ShutFits, Serving
<1>4. /\ target' \in [{Selector, Closer} -> Session \union {NoSession}]
      /\ toClose' \subseteq Session
  BY <1>0, <1>1 DEF TypeOK
<1>5. /\ proc' \in [Session -> {"none", "alive", "signalled", "exited"}]
      /\ \A y \in Session : /\ proc'[y] = "none" <=> proc[y] = "none"
                            /\ proc'[y] = "exited" <=> proc[y] = "exited"
  <2>1. proc \in [Session -> {"none", "alive", "signalled", "exited"}]
    BY <1>0 DEF TypeOK
  <2> QED
    BY <1>1, <2>1
<1> QED
  BY <1>1, <1>3, <1>4, <1>5, CloserPlain

\* ... and closes the publisher.
LEMMA ShutdownReturnsStep == ASSUME IInv, ShutdownReturns PROVE IInv'
<1>0. OtherTypes /\ TypeOK /\ Closer \in Thread /\ \A y \in Session : Control(y)
  BY InvariantFacts, ThreadFacts DEF IInv, TypeOK, OtherTypes, Lone, Pcs
<1>1. /\ step[Closer] = "runnerClosed" /\ Goto(Closer, "returned") /\ toClose' = toClose
      /\ UNCHANGED <<recordVars, laneVars, todo, toReject, closes, exitCode, notified,
                     ptyVars, diagVars, toldVars>>
      /\ target' = target /\ proc' = proc /\ state' = state
  BY DEF ShutdownReturns, At, procVars, recordVars, serverVars
<1>2. step'[Closer] = "returned"
  BY <1>0, <1>1 DEF Goto, TypeOK
<1>3. ASSUME NEW y \in Session PROVE ShutFits(y)'
  BY <1>0, <1>1, <1>2 DEF Control, ShutFits, Serving
<1>4. /\ target' \in [{Selector, Closer} -> Session \union {NoSession}]
      /\ toClose' \subseteq Session
      /\ proc' \in [Session -> {"none", "alive", "signalled", "exited"}]
  BY <1>0, <1>1 DEF TypeOK
<1> QED
  BY <1>1, <1>3, <1>4, CloserPlain

\* shutdown() as a whole.
LEMMA CloserStepStep == ASSUME IInv, CloserStep PROVE IInv'
<1>1. ASSUME NEW s \in Session, target[Closer] = s /\ CloseStep(Closer, s) PROVE IInv'
  <2>1. PICK t \in {Lane(s), Closer} : t = Closer
    OBVIOUS
  <2>2. (t = Closer => target[Closer] = s) /\ CloseStep(t, s)
    BY <1>1, <2>1
  <2> QED
    BY <2>2, CloseStepStep
<1> QED
  BY <1>1, ShutdownBeginStep, ShutdownNextStep, ShutdownClearStep, RunnerClosesStep,
     ShutdownReturnsStep DEF CloserStep

-----------------------------------------------------------------------------
(* The selector.                                                           *)

\* A section of the selector about session s, whatever it submits next.
LEMMA SelectorSection ==
    ASSUME IInv, NEW s \in Session, NEW x, NEW r, NEW q, NEW K,
           todo[Selector] = <<>>, Summary(Selector, s, x, r, q, K), state[s] # "none",
           UNCHANGED <<laneVars, toClose, procVars, ptyVars, diagVars, toldVars>>,
           closes' \in [Session -> Nat],
           toReject' \subseteq toReject, toReject \subseteq toReject' \union {s},
           target' \in [{Selector, Closer} -> Session \union {NoSession}],
           target'[Closer] = target[Closer],
           step' \in [Thread -> Pcs], \A u \in Thread \ {Selector} : step'[u] = step[u],
           step'[Selector] \in {"submitStart", "submitClose"} => target'[Selector] \in Session,
           \A y \in Session \ {s} :
              /\ ~Submitting(y, "submitStart") /\ ~Submitting(y, "submitStart")'
              /\ Submitting(y, "submitClose")' <=> Submitting(y, "submitClose"),
           ~Submitting(s, "submitStart")',
           Submitting(s, "submitClose")' =>
              x \in {"closing", "failed", "closed"} \/ Submitting(s, "submitClose"),
           x = "starting" /\ ~r.started =>
              ~Submitting(s, "submitStart") /\ (s \in toReject => s \in toReject'),
           r.exit = rec[s].exit, r.handle = rec[s].handle, r.started = rec[s].started,
           x = "closed" => state[s] = "closed" \/ ~rec[s].handle
    PROVE  IInv'
<1>0. /\ OtherTypes /\ Control(s) /\ TypeOK /\ Selector \in Thread /\ Closer \in Thread
      /\ Selector # Closer /\ Selector # Timer(s)
      /\ \A y \in Session : Selector # Lane(y) /\ Selector # Timer(y) /\ Lane(y) \in Thread
  BY InvariantFacts, ThreadFacts DEF Lone
<1>1. UNCHANGED <<lane, busy, toClose, proc, exitCode, notified, evidence, chunks,
                  lease, decisive, inflight, grace, told, delivered>>
  BY DEF laneVars, procVars, ptyVars, diagVars, toldVars
<1>2. step'[Closer] = step[Closer] /\ \A y \in Session : step'[Lane(y)] = step[Lane(y)]
  BY <1>0
<1>3. toReject' \subseteq Session
  BY <1>0 DEF OtherTypes
<1>4. OtherTypes'
  BY <1>0, <1>1, <1>3 DEF OtherTypes, LaneTypes
<1>5. inflight'[s] = inflight[s] \/ inflight'[s] = "none"
  BY <1>1
<1>6. /\ OutputFits(s)' /\ VerdictFits(s)'
      /\ state'[s] = x /\ rec'[s] = r /\ (s \in known' => s \in known)
      /\ s \in known /\ x # "closed" => s \in known'
      /\ todo'[Timer(s)] = todo[Timer(s)]
  <2>1. Timer(s) \in Thread \ {Selector}
    BY <1>0, ThreadFacts
  <2>2. chunks' = chunks /\ delivered' = delivered /\ decisive' = decisive
    BY <1>1
  <2> QED
    BY <1>0, <1>5, <2>1, <2>2, SummaryFacts
<1>7. /\ x \in Resting /\ Advance(state[s], x)
  BY DEF Summary
<1>8. StateFits(s)'
  <2>1. x \in {"starting", "running", "closing", "failed", "closed"}
    BY <1>7 DEF Resting
  <2>2. x # "closed" => state[s] \notin {"none", "closed"}
    BY <1>7, <2>1 DEF Advance
  <2>3. x # "closed" => s \in known'
    BY <1>0, <1>6, <2>2 DEF Control, StateFits
  <2> QED
    BY <1>6, <2>1, <2>3 DEF StateFits
<1>9. LaneFits(s)'
  <2>1. Over(s) => Over(s)'
    BY <1>6, <1>7 DEF Over, Advance
  <2>2. LaneFits(s) /\ lane' = lane /\ busy' = busy /\ step'[Lane(s)] = step[Lane(s)]
    BY <1>0, <1>1, <1>2 DEF Control
  <2>3. \A kind : InLane(s, kind)' <=> InLane(s, kind)
    BY <1>1 DEF InLane
  <2>4. Submitting(s, "submitClose")' => Over(s)'
    <3>1. Submitting(s, "submitClose") => Over(s)
      BY <2>2 DEF LaneFits
    <3> QED
      BY <1>6, <2>1, <3>1 DEF Over
  <2>5. Unclaimed(s)' => /\ step'[Lane(s)] \in {"idle", "start"}
                         /\ InLane(s, "start")' \/ s \in toReject'
    <3>1. Unclaimed(s)' => Unclaimed(s) /\ x = "starting" /\ ~r.started
      BY <1>6, <1>7 DEF Unclaimed, Advance
    <3>2. Unclaimed(s) => /\ step[Lane(s)] \in {"idle", "start"}
                          /\ Submitting(s, "submitStart") \/ InLane(s, "start") \/ s \in toReject
      BY <2>2 DEF LaneFits
    <3> QED
      BY <2>2, <2>3, <3>1, <3>2
  <2>6. /\ lane'[s] \in Seq({<<s, "start">>, <<s, "close">>})
        /\ \A i \in 1..Len(lane'[s]) : lane'[s][i] = <<s, "start">> => i = 1
        /\ s \in busy' <=> step'[Lane(s)] # "idle"
        /\ s \in busy' => lane'[s] # <<>>
    BY <2>2 DEF LaneFits
  <2>7. InLane(s, "close")' => Over(s)'
    BY <2>1, <2>2, <2>3 DEF LaneFits
  <2> QED
    BY <2>4, <2>5, <2>6, <2>7 DEF LaneFits
<1>10. StartFits(s)'
  BY <1>0, <1>1, <1>2, <1>6 DEF Control, StartFits
<1>11. ChildFits(s)'
  BY <1>0, <1>1, <1>2, <1>6 DEF Control, ChildFits, Serving
<1>12. ShutFits(s)'
  <2>1. x \in {"starting", "running"} => state[s] \in {"starting", "running"}
    BY <1>7 DEF Advance
  <2>2. state'[s] # "none"
    BY <1>6, <1>7 DEF Resting
  <2>3. ShutFits(s) /\ toClose' = toClose /\ (s \in toReject' => s \in toReject)
    BY <1>0, <1>1 DEF Control
  <2> QED
    BY <1>2, <1>6, <2>1, <2>2, <2>3 DEF ShutFits, Serving
<1>13. Control(s)'
  BY <1>6, <1>8, <1>9, <1>10, <1>11, <1>12 DEF Control
<1>14. ASSUME NEW y \in Session \ {s}
       PROVE  /\ SameSession(y) /\ SameServer(y) /\ delivered'[y] = delivered[y]
              /\ Selector # Timer(y) /\ ~Submitting(y, "submitStart")
  <2>1. SameSession(y)
    BY <1>1, <1>2 DEF SameSession
  <2>2. (y \in toReject' <=> y \in toReject) /\ (y \in toClose' <=> y \in toClose)
    BY <1>1
  <2>3. SameServer(y)
    BY <1>2, <2>2 DEF SameServer
  <2> QED
    BY <1>0, <1>1, <2>1, <2>3
<1>15. /\ Tidy(q, s, K) /\ Section(Selector, s, x, r, q) /\ r \in RecordType
       /\ \A kind \in K : ~Past(s, kind) /\ Past(s, kind)'
  BY DEF Summary
<1>16. x \in States \union {"none"} /\ x # "none"
  BY <1>7 DEF Resting, States
<1>17. told' = told /\ notified[s] \subseteq notified'[s] /\ (Returned => Returned')
  BY <1>1, <1>2 DEF Returned
<1> QED
  BY <1>0, <1>4, <1>6, <1>7, <1>13, <1>14, <1>15, <1>16, <1>17, SectionInvariant

\* sessions.close is prepared.
LEMMA CloseRequestStep ==
    ASSUME IInv, NEW s \in Session, CloseRequest(s) PROVE IInv'
<1> DEFINE done == state[s] = "closed" \/ rec[s].closeScheduled
           bare == state[s] \in {"created", "exited"} \/ (state[s] = "failed" /\ ~rec[s].handle)
           path == IF done THEN <<>>
                   ELSE IF bare THEN <<"closed">>
                   ELSE IF state[s] \in {"starting", "running"} THEN <<"closing">> ELSE <<>>
           r == [rec[s] EXCEPT !.closeScheduled = @ \/ ~(done \/ bare)]
           q == IF path = <<>> THEN <<>> ELSE Publish(s, path[1])
           pc == IF done \/ bare THEN "idle" ELSE "submitClose"
<1>0. /\ Control(s) /\ OtherTypes /\ rec[s] \in RecordType /\ Selector \in Thread
      /\ Closer \in Thread /\ Selector # Closer /\ 0 \in Nat
  BY InvariantFacts, ThreadFacts DEF Lone
<1>1. /\ Serving /\ step[Selector] = "idle" /\ todo[Selector] = <<>> /\ s \in known
      /\ closes' = [closes EXCEPT ![s] = @ + 1] /\ Locked(Selector, s, path, r, q)
      /\ target' = [target EXCEPT ![Selector] = s] /\ Goto(Selector, pc)
      /\ UNCHANGED <<laneVars, toReject, toClose, procVars, ptyVars, diagVars, toldVars>>
  BY DEF CloseRequest, At
<1>2. state[s] # "none" /\ state[s] \in Resting
  BY <1>0, <1>1, RestingFacts DEF Control, StateFits
<1>3. /\ step'[Selector] = pc /\ step' \in [Thread -> Pcs]
      /\ \A u \in Thread \ {Selector} : step'[u] = step[u]
  <2>1. pc \in Pcs
    BY DEF Pcs
  <2> HIDE DEF pc
  <2> QED
    BY <1>0, <1>1, <2>1, GotoFacts
<1>4. /\ target' \in [{Selector, Closer} -> Session \union {NoSession}]
      /\ target'[Selector] = s /\ target'[Closer] = target[Closer]
      /\ closes' \in [Session -> Nat] /\ toReject' = toReject
  BY <1>0, <1>1 DEF OtherTypes
<1>5. /\ r \in RecordType /\ r.exit = rec[s].exit /\ r.handle = rec[s].handle
      /\ r.started = rec[s].started /\ r.result = rec[s].result
      /\ r.deferred = rec[s].deferred /\ r.capable = rec[s].capable
  <2>1. PICK b \in BOOLEAN : b = (rec[s].closeScheduled \/ ~(done \/ bare))
    OBVIOUS
  <2>2. r = [rec[s] EXCEPT !.closeScheduled = b]
    BY <2>1
  <2> HIDE DEF r
  <2> QED
    BY <1>0, <2>2 DEF RecordType
<1>6. \A y \in Session \ {s} :
         /\ ~Submitting(y, "submitStart") /\ ~Submitting(y, "submitStart")'
         /\ Submitting(y, "submitClose")' <=> Submitting(y, "submitClose")
  BY <1>1, <1>4 DEF Submitting
<1>7. ~Submitting(s, "submitStart")' /\ ~Submitting(s, "submitStart")
      /\ (Submitting(s, "submitClose")' => ~done /\ ~bare)
  BY <1>1, <1>3 DEF Submitting
<1>8. /\ <<"closed">> # <<>> /\ <<"closing">> # <<>>
      /\ <<"closed">>[1] = "closed" /\ <<"closing">>[1] = "closing"
  OBVIOUS
<1>9. \/ /\ Locked(Selector, s, <<>>, r, <<>>)
         /\ done \/ state[s] \in {"closing", "failed"}
      \/ /\ Locked(Selector, s, <<"closed">>, r, Publish(s, "closed"))
         /\ state[s] = "failed" /\ ~rec[s].handle
      \/ /\ Locked(Selector, s, <<"closing">>, r, Publish(s, "closing"))
         /\ state[s] \in {"starting", "running"}
  <2> HIDE DEF r
  <2>1. CASE done
    BY <1>1, <2>1
  <2>2. CASE ~done /\ bare
    <3>1. state[s] = "failed" /\ ~rec[s].handle
      BY <1>2, <2>2 DEF Resting
    <3>2. path = <<"closed">>
      BY <2>2
    <3> QED
      BY <1>1, <1>8, <3>1, <3>2
  <2>3. CASE ~done /\ ~bare /\ state[s] \in {"starting", "running"}
    <3>1. path = <<"closing">>
      BY <2>3
    <3> QED
      BY <1>1, <1>8, <2>3, <3>1
  <2>4. CASE ~done /\ ~bare /\ state[s] \notin {"starting", "running"}
    <3>1. path = <<>> /\ state[s] \in {"closing", "failed"}
      BY <1>2, <2>4 DEF Resting
    <3> QED
      BY <1>1, <3>1
  <2> QED
    BY <2>1, <2>2, <2>3, <2>4
<1> HIDE DEF r, q, path, pc
<1>10. ASSUME NEW x, NEW c, NEW K, Summary(Selector, s, x, r, c, K),
              Submitting(s, "submitClose")' => x \in {"closing", "failed", "closed"},
              x = "closed" => state[s] = "closed" \/ ~rec[s].handle
       PROVE  IInv'
  <2>1. /\ toReject' \subseteq toReject /\ toReject \subseteq toReject' \union {s}
        /\ UNCHANGED <<laneVars, toClose, procVars, ptyVars, diagVars, toldVars>>
    BY <1>1, <1>4
  <2>2. step'[Selector] \in {"submitStart", "submitClose"} => target'[Selector] \in Session
    BY <1>4
  <2>3. x = "starting" /\ ~r.started => ~Submitting(s, "submitStart") /\ (s \in toReject => s \in toReject')
    BY <1>4, <1>7
  <2> QED
    BY <1>1, <1>2, <1>3, <1>4, <1>5, <1>6, <1>7, <1>10, <2>1, <2>2, <2>3, SelectorSection
<1>11. CASE /\ Locked(Selector, s, <<>>, r, <<>>)
            /\ done \/ state[s] \in {"closing", "failed"}
  <2>1. RecordFits(s, r, state[s])
    BY <1>2, <1>5, RecordKept
  <2>2. Tidy(<<>>, s, {}) /\ Mute(<<>>)
    BY <1>0, TidyOne, MuteOne
  <2>3. Summary(Selector, s, state[s], r, <<>>, {})
    BY <1>0, <1>1, <1>2, <1>11, <2>1, <2>2, StaySummary
  <2> QED
    BY <1>7, <1>10, <1>11, <2>3
<1>12. ASSUME NEW x \in {"closed", "closing"}, Locked(Selector, s, <<x>>, r, Publish(s, x)),
              \/ x = "closing" /\ state[s] \in {"starting", "running"}
              \/ x = "closed" /\ state[s] = "failed" /\ ~rec[s].handle
       PROVE  IInv'
  <2>1. RecordFits(s, r, x)
    BY <1>5, <1>12, RecordKept DEF Resting
  <2>2. x \in Kinds \ {"authenticated", "exited"}
    BY DEF Kinds, States
  <2>3. Tidy(Publish(s, x), s, {x}) /\ Mute(Publish(s, x))
    BY <1>0, <2>2, TidyOne, MuteOne
  <2>4. Summary(Selector, s, x, r, Publish(s, x), {x})
    BY <1>0, <1>1, <1>2, <1>12, <2>1, <2>3, MoveSummary
  <2>5. PICK c, K : Summary(Selector, s, x, r, c, K)
    BY <2>4
  <2> QED
    BY <1>10, <1>12, <2>5
<1> QED
  BY <1>9, <1>11, <1>12

\* A refused start: the session fails, unless it was claimed.
LEMMA StartRefused ==
    ASSUME IInv, NEW s \in Session, todo[Selector] = <<>>, FailPendingStart(Selector, s),
           state[s] # "none",
           UNCHANGED <<laneVars, toClose, target, closes, procVars, ptyVars, diagVars, toldVars>>,
           toReject' \subseteq toReject, toReject \subseteq toReject' \union {s},
           step' \in [Thread -> Pcs], \A u \in Thread \ {Selector} : step'[u] = step[u],
           step'[Selector] \in {"submitStart", "submitClose"} => target'[Selector] \in Session,
           \A y \in Session \ {s} :
              /\ ~Submitting(y, "submitStart") /\ ~Submitting(y, "submitStart")'
              /\ Submitting(y, "submitClose")' <=> Submitting(y, "submitClose"),
           ~Submitting(s, "submitStart")',
           Submitting(s, "submitClose")' => Submitting(s, "submitClose")
    PROVE  IInv'
<1>0. Selector \in Thread /\ OtherTypes
  BY InvariantFacts, ThreadFacts DEF Lone
<1>1. PICK x, r, q, K : /\ Summary(Selector, s, x, r, q, K)
                        /\ x \in {state[s], "failed"}
                        /\ x = "starting" => r.started
                        /\ r.exit = rec[s].exit /\ r.handle = rec[s].handle
                        /\ r.started = rec[s].started
  BY <1>0, FailSummary
<1>2. /\ target' \in [{Selector, Closer} -> Session \union {NoSession}]
      /\ target'[Closer] = target[Closer] /\ closes' \in [Session -> Nat]
  BY <1>0 DEF OtherTypes
<1>3. x = "closed" => state[s] = "closed" \/ ~rec[s].handle
  BY <1>1
<1> QED
  BY <1>0, <1>1, <1>2, <1>3, SelectorSection

\* The executor refuses a start.
LEMMA SubmitStartRejectedStep ==
    ASSUME IInv, SubmitStartRejected PROVE IInv'
<1>1. PICK s \in Session : s = target[Selector]
  BY DEF SubmitStartRejected, At, IInv, EffectFits
<1>0. /\ step[Selector] = "submitStart" /\ todo[Selector] = <<>> /\ FailPendingStart(Selector, s)
      /\ Goto(Selector, "idle")
      /\ UNCHANGED <<laneVars, toClose, target, closes, procVars, ptyVars, diagVars, toldVars>>
      /\ toReject' = toReject
  BY <1>1 DEF SubmitStartRejected, At, serverVars
<1>2. OtherTypes /\ Selector \in Thread /\ FreshFits(s)
  BY <1>1, InvariantFacts, ThreadFacts DEF Lone
<1>3. /\ step'[Selector] = "idle" /\ step' \in [Thread -> Pcs]
      /\ \A u \in Thread \ {Selector} : step'[u] = step[u]
  BY <1>0, <1>2, GotoFacts DEF Pcs
<1>4. state[s] # "none"
  BY <1>0, <1>1, <1>2 DEF FreshFits, Submitting
<1>5. /\ ~Submitting(s, "submitStart")'
      /\ Submitting(s, "submitClose")' => Submitting(s, "submitClose")
      /\ \A y \in Session \ {s} :
            /\ ~Submitting(y, "submitStart") /\ ~Submitting(y, "submitStart")'
            /\ Submitting(y, "submitClose")' <=> Submitting(y, "submitClose")
  BY <1>0, <1>1, <1>3 DEF Submitting
<1>6. /\ toReject' \subseteq toReject /\ toReject \subseteq toReject' \union {s}
      /\ step'[Selector] \in {"submitStart", "submitClose"} => target'[Selector] \in Session
  BY <1>0, <1>3
<1> QED
  BY <1>0, <1>1, <1>3, <1>4, <1>5, <1>6, StartRefused

\* A cancelled start is failed by its on_cancel.
LEMMA CancelStartStep ==
    ASSUME IInv, NEW s \in Session, CancelStart(s) PROVE IInv'
<1>0. /\ todo[Selector] = <<>> /\ FailPendingStart(Selector, s) /\ s \in toReject
      /\ toReject' = toReject \ {s} /\ step' = step /\ target' = target
      /\ UNCHANGED <<laneVars, toClose, target, closes, procVars, ptyVars, diagVars, toldVars>>
  BY DEF CancelStart
<1>1. OtherTypes /\ EffectFits
  BY InvariantFacts
<1>2. state[s] # "none"
  BY <1>0, InvariantFacts DEF FreshFits
<1>3. ~Serving
  BY <1>0, InvariantFacts DEF Control, ShutFits
<1>4. \A y \in Session : ~Submitting(y, "submitStart")
  BY <1>3, InvariantFacts DEF FreshFits
<1>5. \A y \in Session : /\ Submitting(y, "submitStart")' <=> Submitting(y, "submitStart")
                         /\ Submitting(y, "submitClose")' <=> Submitting(y, "submitClose")
  BY <1>0 DEF Submitting
<1>6. /\ step' \in [Thread -> Pcs] /\ \A u \in Thread \ {Selector} : step'[u] = step[u]
      /\ step'[Selector] \in {"submitStart", "submitClose"} => target'[Selector] \in Session
  BY <1>0, <1>1 DEF OtherTypes, EffectFits
<1> QED
  BY <1>0, <1>2, <1>4, <1>5, <1>6, StartRefused

\* The executor refuses a close.
LEMMA SubmitCloseRejectedStep ==
    ASSUME IInv, SubmitCloseRejected PROVE IInv'
<1>1. PICK s \in Session : s = target[Selector] /\ 0 \in Nat
  BY DEF SubmitCloseRejected, At, IInv, EffectFits
<1> DEFINE fails == s \in known /\ rec[s].closeScheduled /\ state[s] = "closing"
           r == [rec[s] EXCEPT !.closeScheduled = @ /\ s \notin known, !.failure = @ \/ fails]
<1>0. /\ step[Selector] = "submitClose" /\ todo[Selector] = <<>> /\ Goto(Selector, "idle")
      /\ Locked(Selector, s, IF fails THEN <<"failed">> ELSE <<>>, r,
                IF fails THEN Publish(s, "failed") ELSE <<>>)
      /\ UNCHANGED <<laneVars, toClose, target, closes, procVars, ptyVars, diagVars, toldVars>>
      /\ toReject' = toReject
  BY <1>1 DEF SubmitCloseRejected, At, serverVars
<1>2. OtherTypes /\ Selector \in Thread /\ FreshFits(s) /\ rec[s] \in RecordType
  BY <1>1, InvariantFacts, ThreadFacts DEF Lone
<1>3. /\ step'[Selector] = "idle" /\ step' \in [Thread -> Pcs]
      /\ \A u \in Thread \ {Selector} : step'[u] = step[u]
  BY <1>0, <1>2, GotoFacts DEF Pcs
<1>4. state[s] # "none" /\ state[s] \in Resting
  BY <1>0, <1>1, <1>2, RestingFacts DEF FreshFits, Submitting
<1>5. /\ ~Submitting(s, "submitStart")' /\ ~Submitting(s, "submitStart")
      /\ ~Submitting(s, "submitClose")'
      /\ \A y \in Session \ {s} :
            /\ ~Submitting(y, "submitStart") /\ ~Submitting(y, "submitStart")'
            /\ Submitting(y, "submitClose")' <=> Submitting(y, "submitClose")
  BY <1>0, <1>1, <1>3 DEF Submitting
<1>6. /\ r \in RecordType /\ r.exit = rec[s].exit /\ r.handle = rec[s].handle
      /\ r.started = rec[s].started /\ r.result = rec[s].result
      /\ r.deferred = rec[s].deferred /\ r.capable = rec[s].capable
  <2>1. PICK b \in BOOLEAN : b = (rec[s].closeScheduled /\ s \notin known)
    OBVIOUS
  <2>2. PICK c \in BOOLEAN : c = (rec[s].failure \/ fails)
    OBVIOUS
  <2>3. r = [rec[s] EXCEPT !.closeScheduled = b, !.failure = c]
    BY <2>1, <2>2
  <2> HIDE DEF r
  <2> QED
    BY <1>2, <2>3 DEF RecordType
<1> HIDE DEF r
<1>7. ASSUME NEW x, NEW c, NEW K, Summary(Selector, s, x, r, c, K), x = "closed" => state[s] = "closed"
      PROVE  IInv'
  <2>1. /\ target' \in [{Selector, Closer} -> Session \union {NoSession}]
        /\ target'[Closer] = target[Closer] /\ closes' \in [Session -> Nat]
        /\ toReject' \subseteq toReject /\ toReject \subseteq toReject' \union {s}
        /\ UNCHANGED <<laneVars, toClose, procVars, ptyVars, diagVars, toldVars>>
    BY <1>0, <1>2 DEF OtherTypes
  <2>2. step'[Selector] \in {"submitStart", "submitClose"} => target'[Selector] \in Session
    BY <1>3
  <2>3. /\ x = "starting" /\ ~r.started => ~Submitting(s, "submitStart") /\ (s \in toReject => s \in toReject')
        /\ x = "closed" => state[s] = "closed" \/ ~rec[s].handle
        /\ Submitting(s, "submitClose")' => x \in {"closing", "failed", "closed"}
    BY <1>0, <1>5, <1>7
  <2> QED
    BY <1>0, <1>1, <1>3, <1>4, <1>5, <1>6, <1>7, <2>1, <2>2, <2>3, SelectorSection
<1>8. CASE fails
  <2>1. RecordFits(s, r, "failed")
    BY <1>1, <1>6, RecordKept DEF Resting
  <2>2. "failed" \in Kinds \ {"authenticated", "exited"}
    BY DEF Kinds, States
  <2>3. Tidy(Publish(s, "failed"), s, {"failed"}) /\ Mute(Publish(s, "failed"))
    BY <1>1, <2>2, TidyOne, MuteOne
  <2>4. Locked(Selector, s, <<"failed">>, r, Publish(s, "failed")) /\ state[s] = "closing"
    BY <1>0, <1>8
  <2>5. Summary(Selector, s, "failed", r, Publish(s, "failed"), {"failed"})
    BY <1>0, <1>1, <1>2, <1>4, <2>1, <2>3, <2>4, MoveSummary
  <2> QED
    BY <1>7, <2>5
<1>9. CASE ~fails
  <2>1. RecordFits(s, r, state[s])
    BY <1>1, <1>4, <1>6, RecordKept
  <2>2. Tidy(<<>>, s, {}) /\ Mute(<<>>)
    BY <1>1, TidyOne, MuteOne
  <2>3. Locked(Selector, s, <<>>, r, <<>>)
    BY <1>0, <1>9
  <2>4. Summary(Selector, s, state[s], r, <<>>, {})
    BY <1>0, <1>1, <1>2, <1>4, <2>1, <2>2, <2>3, StaySummary
  <2> QED
    BY <1>7, <2>4
<1> QED
  BY <1>8, <1>9

\* The executor admits a command.
LEMMA SubmitAcceptedStep ==
    ASSUME IInv, NEW kind \in {"start", "close"}, SubmitAccepted(kind) PROVE IInv'
<1>1. PICK s \in Session : s = target[Selector]
  BY DEF SubmitAccepted, At, IInv, EffectFits
<1>0. /\ step[Selector] = (IF kind = "start" THEN "submitStart" ELSE "submitClose")
      /\ todo[Selector] = <<>> /\ Goto(Selector, "idle")
      /\ lane' = [lane EXCEPT ![s] = Append(@, <<s, kind>>)] /\ busy' = busy
      /\ UNCHANGED <<recordVars, todo, serverVars, procVars, ptyVars, diagVars, toldVars>>
  BY <1>1 DEF SubmitAccepted, At, Lanes!Accept
<1>2. /\ OtherTypes /\ Selector \in Thread /\ Closer \in Thread /\ Selector # Closer
      /\ \A y \in Session : Control(y) /\ FreshFits(y) /\ Selector # Lane(y) /\ Lane(y) \in Thread
  BY InvariantFacts, ThreadFacts DEF Lone, IInv, OtherTypes, TypeOK, Pcs
<1>3. /\ step'[Selector] = "idle" /\ step' \in [Thread -> Pcs]
      /\ \A u \in Thread \ {Selector} : step'[u] = step[u]
  BY <1>0, <1>2, GotoFacts DEF Pcs
<1>4. UNCHANGED <<state, rec, known, born, fault, todo, target, toReject, toClose, closes, proc,
                  exitCode, notified, evidence, chunks, lease, decisive, inflight, grace, told,
                  delivered>>
  BY <1>0 DEF recordVars, serverVars, procVars, ptyVars, diagVars, toldVars
<1>5. /\ Submitting(s, IF kind = "start" THEN "submitStart" ELSE "submitClose")
      /\ \A y \in Session : /\ ~Submitting(y, "submitStart")' /\ ~Submitting(y, "submitClose")'
                            /\ y # s => ~Submitting(y, "submitStart")
  BY <1>0, <1>1, <1>3 DEF Submitting
<1>6. state[s] # "none"
  BY <1>2, <1>5 DEF FreshFits
<1>7. /\ lane[s] \in Seq({<<s, "start">>, <<s, "close">>})
      /\ <<s, kind>> \in {<<s, "start">>, <<s, "close">>}
      /\ kind = "start" => lane[s] = <<>>
  BY <1>2, <1>5 DEF Control, LaneFits, FreshFits
<1>8. /\ lane'[s] \in Seq({<<s, "start">>, <<s, "close">>})
      /\ Len(lane[s]) \in Nat /\ Len(lane'[s]) = Len(lane[s]) + 1
      /\ lane'[s][Len(lane[s]) + 1] = <<s, kind>>
      /\ \A i \in 1..Len(lane[s]) : lane'[s][i] = lane[s][i]
      /\ \A y \in Session \ {s} : lane'[y] = lane[y]
  <2>1. lane \in [Session -> Seq(Session \X {"start", "close"})]
    BY <1>2 DEF OtherTypes, LaneTypes
  <2>2. lane'[s] = Append(lane[s], <<s, kind>>) /\ \A y \in Session \ {s} : lane'[y] = lane[y]
    BY <1>0, <2>1
  <2> QED
    BY <1>7, <2>2, AppendProperties
<1>9. LaneTypes'
  <2>1. lane \in [Session -> Seq(Session \X {"start", "close"})] /\ busy \subseteq Session
    BY <1>2 DEF OtherTypes, LaneTypes
  <2>2. <<s, kind>> \in Session \X {"start", "close"}
    OBVIOUS
  <2>3. Append(lane[s], <<s, kind>>) \in Seq(Session \X {"start", "close"})
    BY <2>1, <2>2, AppendProperties
  <2> QED
    BY <1>0, <2>1, <2>3 DEF LaneTypes
<1>10. OtherTypes'
  BY <1>2, <1>3, <1>4, <1>9 DEF OtherTypes
<1>11. step'[Closer] = step[Closer] /\ \A y \in Session : step'[Lane(y)] = step[Lane(y)]
  BY <1>2, <1>3
<1>12. LaneFits(s)'
  <2>1. LaneFits(s)
    BY <1>2 DEF Control
  <2>2. \A i \in 1..Len(lane'[s]) : i \in 1..Len(lane[s]) \/ i = Len(lane[s]) + 1
    BY <1>8
  <2>3. Len(lane[s]) + 1 \in 1..Len(lane'[s]) /\ \A i \in 1..Len(lane[s]) : i \in 1..Len(lane'[s])
    BY <1>8
  <2>4. ASSUME NEW i \in 1..Len(lane'[s]), lane'[s][i] = <<s, "start">> PROVE i = 1
    <3>1. CASE i \in 1..Len(lane[s])
      BY <1>8, <2>1, <2>4, <3>1 DEF LaneFits
    <3>2. CASE i = Len(lane[s]) + 1
      <4>1. kind = "start"
        BY <1>8, <2>4, <3>2
      <4>2. Len(lane[s]) = 0
        BY <1>7, <4>1
      <4> QED
        BY <3>2, <4>2
    <3> QED
      BY <2>2, <3>1, <3>2
  <2>5. s \in busy' => lane'[s] # <<>>
    BY <1>8
  <2>6. InLane(s, "close")' => Over(s)
    <3>1. ASSUME NEW i \in 1..Len(lane'[s]), lane'[s][i] = <<s, "close">> PROVE Over(s)
      <4>1. CASE i \in 1..Len(lane[s])
        BY <1>8, <2>1, <3>1, <4>1 DEF LaneFits, InLane
      <4>2. CASE i = Len(lane[s]) + 1
        <5>1. kind = "close"
          BY <1>8, <3>1, <4>2
        <5> QED
          BY <1>5, <2>1, <5>1 DEF LaneFits
      <4> QED
        BY <2>2, <4>1, <4>2
    <3> QED
      BY <3>1 DEF InLane
  <2>7. Over(s)' <=> Over(s)
    BY <1>4 DEF Over
  <2>8. Unclaimed(s)' => InLane(s, "start")' /\ step'[Lane(s)] \in {"idle", "start"}
    <3>1. Unclaimed(s)' => Unclaimed(s)
      BY <1>4 DEF Unclaimed
    <3>2. kind = "start" => InLane(s, "start")'
      BY <1>8, <2>3 DEF InLane
    <3>3. kind = "close" => ~Unclaimed(s)
      BY <1>5, <2>1 DEF LaneFits, Over, Unclaimed
    <3> QED
      BY <1>11, <2>1, <3>1, <3>2, <3>3 DEF LaneFits
  <2>9. s \in busy' <=> step'[Lane(s)] # "idle"
    BY <1>0, <1>11, <2>1 DEF LaneFits
  <2> QED
    BY <1>5, <1>8, <2>4, <2>5, <2>6, <2>7, <2>8, <2>9 DEF LaneFits
<1>13. ASSUME NEW y \in Session PROVE Control(y)'
  <2>0. Control(y)
    BY <1>2
  <2>1. StateFits(y)'
    BY <1>4, <2>0 DEF Control, StateFits
  <2>2. LaneFits(y)'
    <3>1. CASE y = s
      BY <1>12, <3>1
    <3>2. CASE y # s
      <4>1. LaneFits(y) /\ lane'[y] = lane[y] /\ busy' = busy /\ step'[Lane(y)] = step[Lane(y)]
            /\ toReject' = toReject /\ state' = state /\ rec' = rec
        BY <1>0, <1>4, <1>8, <1>11, <2>0, <3>2 DEF Control
      <4> QED
        BY <1>5, <3>2, <4>1 DEF LaneFits, InLane, Over, Unclaimed
    <3> QED
      BY <3>1, <3>2
  <2>3. StartFits(y)'
    <3>1. StartFits(y)
      BY <2>0 DEF Control
    <3> QED
      BY <1>4, <1>11, <3>1 DEF StartFits
  <2>4. ChildFits(y)'
    BY <1>4, <1>11, <2>0 DEF Control, ChildFits, Serving
  <2>5. VerdictFits(y)'
    BY <1>4, <2>0 DEF Control, VerdictFits
  <2>6. ShutFits(y)'
    BY <1>4, <1>11, <2>0 DEF Control, ShutFits, Serving
  <2> QED
    BY <2>1, <2>2, <2>3, <2>4, <2>5, <2>6 DEF Control
<1>14. \A y \in Session :
         /\ Control(y)'
         /\ state[y] = "none" \/ Submitting(y, "submitStart")' => lane'[y] = lane[y]
         /\ state[y] = "none" /\ y \in toReject' => y \in toReject
         /\ state[y] = "none" /\ Submitting(y, "submitClose")' => Submitting(y, "submitClose")
         /\ Submitting(y, "submitStart")' => Submitting(y, "submitStart") /\ (Serving => Serving')
         /\ Submitting(y, "submitStart") /\ ~Submitting(y, "submitStart")' => todo[Selector] = <<>>
  BY <1>0, <1>4, <1>5, <1>6, <1>8, <1>13
<1>15. /\ UNCHANGED <<recordVars, todo, toldVars, notified, chunks>> /\ (Returned => Returned')
       /\ step'[Selector] \in {"submitStart", "submitClose"} => target'[Selector] \in Session
  BY <1>0, <1>3, <1>4, <1>11 DEF Returned
<1> QED
  BY <1>10, <1>14, <1>15, PlainInvariant

\* What StopAndCancel leaves of the lane of a running command.
LEMMA FirstOnly ==
    ASSUME NEW S, NEW l \in Seq(S), l # <<>>
    PROVE  /\ SubSeq(l, 1, 1) \in Seq(S) /\ Len(SubSeq(l, 1, 1)) = 1
           /\ SubSeq(l, 1, 1)[1] = l[1] /\ 1 \in 1..Len(l)
<1>1. Len(l) \in Nat /\ 1 \in 1..Len(l)
  OBVIOUS
<1>2. \A i \in 1..1 : l[i] \in S
  BY <1>1, ElementOfSeq
<1>3. /\ SubSeq(l, 1, 1) \in Seq(S)
      /\ Len(SubSeq(l, 1, 1)) = (IF 1 <= 1 THEN 1 - 1 + 1 ELSE 0)
      /\ \A i \in 1 .. 1 - 1 + 1 : SubSeq(l, 1, 1)[i] = l[1 + i - 1]
  BY <1>2, SubSeqProperties
<1> QED
  BY <1>1, <1>3

\* The selector loop ends: what has not begun is dropped from the lanes, and the
\* starts among it are remembered.
LEMMA ServerStopsStep ==
    ASSUME IInv, ServerStops PROVE IInv'
<1>0. /\ Serving /\ step[Selector] = "idle" /\ Goto(Closer, "stopped") /\ busy' = busy
      /\ lane' = [s \in Session |-> IF s \in busy THEN SubSeq(lane[s], 1, 1) ELSE <<>>]
      /\ toReject' = {s \in Session : \E i \in DOMAIN lane[s] :
                        lane[s][i] = <<s, "start">> /\ (i > 1 \/ s \notin busy)}
      /\ UNCHANGED <<recordVars, todo, target, toClose, closes, procVars, ptyVars, diagVars, toldVars>>
  BY DEF ServerStops, At, Lanes!StopAndCancel
<1>2. /\ OtherTypes /\ Selector \in Thread /\ Closer \in Thread /\ Selector # Closer
      /\ \A y \in Session : Control(y) /\ FreshFits(y) /\ Closer # Lane(y) /\ Lane(y) \in Thread
  BY InvariantFacts, ThreadFacts DEF Lone, IInv, OtherTypes, TypeOK, Pcs
<1>3. /\ step'[Closer] = "stopped" /\ step' \in [Thread -> Pcs]
      /\ \A u \in Thread \ {Closer} : step'[u] = step[u]
  BY <1>0, <1>2, GotoFacts DEF Pcs
<1>4. UNCHANGED <<state, rec, known, born, fault, todo, target, toClose, closes, proc,
                  exitCode, notified, evidence, chunks, lease, decisive, inflight, grace, told,
                  delivered>>
  BY <1>0 DEF recordVars, procVars, ptyVars, diagVars, toldVars
<1>5. step'[Selector] = "idle" /\ \A y \in Session : step'[Lane(y)] = step[Lane(y)]
  BY <1>0, <1>2, <1>3
<1>6. \A y \in Session : /\ ~Submitting(y, "submitStart") /\ ~Submitting(y, "submitStart")'
                         /\ ~Submitting(y, "submitClose") /\ ~Submitting(y, "submitClose")'
  BY <1>0, <1>5 DEF Submitting
<1>7. ASSUME NEW y \in Session
      PROVE  /\ y \notin busy => lane'[y] = <<>>
             /\ y \in busy => /\ 1 \in 1..Len(lane[y]) /\ Len(lane'[y]) = 1
                              /\ lane'[y][1] = lane[y][1]
             /\ \A i \in 1..Len(lane'[y]) : y \in busy /\ i = 1
             /\ lane'[y] \in Seq({<<y, "start">>, <<y, "close">>})
             /\ lane'[y] \in Seq(Session \X {"start", "close"})
  <2>1. lane[y] \in Seq({<<y, "start">>, <<y, "close">>}) /\ (y \in busy => lane[y] # <<>>)
    BY <1>2 DEF Control, LaneFits
  <2>2. lane[y] \in Seq(Session \X {"start", "close"})
    BY <1>2 DEF OtherTypes, LaneTypes
  <2>3. CASE y \in busy
    <3>1. lane'[y] = SubSeq(lane[y], 1, 1)
      BY <1>0, <2>3
    <3>2. /\ SubSeq(lane[y], 1, 1) \in Seq({<<y, "start">>, <<y, "close">>})
          /\ Len(SubSeq(lane[y], 1, 1)) = 1 /\ SubSeq(lane[y], 1, 1)[1] = lane[y][1]
          /\ 1 \in 1..Len(lane[y])
      BY <2>1, <2>3, FirstOnly
    <3>3. SubSeq(lane[y], 1, 1) \in Seq(Session \X {"start", "close"})
      BY <2>1, <2>2, <2>3, FirstOnly
    <3>4. \A i \in 1..1 : i = 1
      OBVIOUS
    <3> QED
      BY <2>3, <3>1, <3>2, <3>3, <3>4
  <2>4. CASE y \notin busy
    <3>1. lane'[y] = <<>> /\ Len(<<>>) = 0
      BY <1>0, <2>4
    <3>2. <<>> \in Seq({<<y, "start">>, <<y, "close">>}) /\ <<>> \in Seq(Session \X {"start", "close"})
      OBVIOUS
    <3>3. \A i \in 1..0 : FALSE
      OBVIOUS
    <3> QED
      BY <2>4, <3>1, <3>2, <3>3
  <2> QED
    BY <2>3, <2>4
<1>8. LaneTypes' /\ toReject' \subseteq Session
  <2>1. busy' \subseteq Session
    BY <1>0, <1>2 DEF OtherTypes, LaneTypes
  <2>2. \A y \in Session : lane'[y] \in Seq(Session \X {"start", "close"})
    BY <1>7
  <2>3. lane' \in [Session -> Seq(Session \X {"start", "close"})]
    BY <1>0, <2>2
  <2> QED
    BY <1>0, <2>1, <2>3 DEF LaneTypes
<1>9. OtherTypes'
  BY <1>2, <1>3, <1>4, <1>8 DEF OtherTypes
<1>10. ASSUME NEW y \in Session PROVE LaneFits(y)'
  <2>1. LaneFits(y) /\ y \notin toReject
    BY <1>0, <1>2 DEF Control, ShutFits
  <2>2. lane'[y] \in Seq({<<y, "start">>, <<y, "close">>})
    BY <1>7
  <2>3. \A i \in 1..Len(lane'[y]) : y \in busy /\ i = 1
    BY <1>7
  <2>4. \A kind : InLane(y, kind)' => InLane(y, kind)
    <3>1. ASSUME NEW kind, NEW i \in 1..Len(lane'[y]), lane'[y][i] = <<y, kind>> PROVE InLane(y, kind)
      <4>1. y \in busy /\ i = 1
        BY <2>3
      <4>2. lane'[y][1] = <<y, kind>>
        BY <3>1, <4>1
      <4>3. lane[y][1] = <<y, kind>> /\ 1 \in 1..Len(lane[y])
        BY <1>7, <4>1, <4>2
      <4> QED
        BY <4>3 DEF InLane
    <3> QED
      BY <3>1 DEF InLane
  <2>5. Over(y)' <=> Over(y)
    BY <1>4 DEF Over
  <2>6. Unclaimed(y)' => InLane(y, "start")' \/ y \in toReject'
    <3> SUFFICES ASSUME Unclaimed(y)' PROVE InLane(y, "start")' \/ y \in toReject'
      OBVIOUS
    <3>1. InLane(y, "start")
      <4>1. Unclaimed(y)
        BY <1>4 DEF Unclaimed
      <4> QED
        BY <1>6, <2>1, <4>1 DEF LaneFits
    <3>2. PICK i \in 1..Len(lane[y]) : lane[y][i] = <<y, "start">>
      BY <3>1 DEF InLane
    <3>3. i = 1
      BY <2>1, <3>2 DEF LaneFits
    <3>4. CASE y \in busy
      <4>1. Len(lane'[y]) = 1 /\ lane'[y][1] = lane[y][1]
        BY <1>7, <3>4
      <4>2. 1 \in 1..Len(lane'[y]) /\ lane'[y][1] = <<y, "start">>
        BY <3>2, <3>3, <4>1
      <4> QED
        BY <4>2 DEF InLane
    <3>5. CASE y \notin busy
      <4>1. i \in DOMAIN lane[y]
        BY <1>7, <3>2
      <4> QED
        BY <1>0, <3>2, <3>5, <4>1
    <3> QED
      BY <3>4, <3>5
  <2>7. Unclaimed(y)' => step'[Lane(y)] \in {"idle", "start"}
    BY <1>4, <1>5, <2>1 DEF LaneFits, Unclaimed
  <2>8. (y \in busy' <=> step'[Lane(y)] # "idle") /\ (y \in busy' => lane'[y] # <<>>)
    BY <1>0, <1>5, <1>7, <2>1 DEF LaneFits
  <2>9. InLane(y, "close")' \/ Submitting(y, "submitClose")' => Over(y)'
    BY <1>6, <2>1, <2>4, <2>5 DEF LaneFits
  <2> QED
    BY <2>2, <2>3, <2>6, <2>7, <2>8, <2>9 DEF LaneFits
<1>11. ASSUME NEW y \in Session PROVE Control(y)'
  <2>0. Control(y)
    BY <1>2
  <2>1. StateFits(y)'
    BY <1>4, <2>0 DEF Control, StateFits
  <2>2. StartFits(y)'
    <3>1. StartFits(y)
      BY <2>0 DEF Control
    <3> QED
      BY <1>4, <1>5, <3>1 DEF StartFits
  <2>3. ChildFits(y)'
    BY <1>3 DEF ChildFits, Serving
  <2>4. VerdictFits(y)'
    BY <1>4, <2>0 DEF Control, VerdictFits
  <2>5. ShutFits(y)'
    <3>1. ShutFits(y)
      BY <2>0 DEF Control
    <3> QED
      BY <1>3, <1>4, <3>1 DEF ShutFits, Serving
  <2> QED
    BY <1>10, <2>1, <2>2, <2>3, <2>4, <2>5 DEF Control
<1>12. ASSUME NEW y \in Session, state[y] = "none"
       PROVE  lane'[y] = lane[y] /\ y \notin toReject'
  <2>1. lane[y] = <<>>
    BY <1>2, <1>12 DEF FreshFits
  <2>2. y \notin busy
    BY <1>2, <2>1 DEF Control, LaneFits
  <2> QED
    BY <1>0, <1>7, <2>1, <2>2
<1>13. \A y \in Session :
         /\ Control(y)'
         /\ state[y] = "none" \/ Submitting(y, "submitStart")' => lane'[y] = lane[y]
         /\ state[y] = "none" /\ y \in toReject' => y \in toReject
         /\ state[y] = "none" /\ Submitting(y, "submitClose")' => Submitting(y, "submitClose")
         /\ Submitting(y, "submitStart")' => Submitting(y, "submitStart") /\ (Serving => Serving')
         /\ Submitting(y, "submitStart") /\ ~Submitting(y, "submitStart")' => todo[Selector] = <<>>
  BY <1>6, <1>11, <1>12
<1>14. /\ UNCHANGED <<recordVars, todo, toldVars, notified, chunks>> /\ (Returned => Returned')
       /\ step'[Selector] \in {"submitStart", "submitClose"} => target'[Selector] \in Session
  BY <1>0, <1>4, <1>5 DEF Returned, Serving
<1> QED
  BY <1>9, <1>13, <1>14, PlainInvariant

\* The effects sessions.open owes.
LEMMA TidyOpen ==
    ASSUME NEW s \in Session, NEW q, q = Publish(s, "created") \o Publish(s, "starting")
    PROVE  /\ Tidy(q, s, {"created", "starting"}) /\ Len(q) = 2 /\ Mute(q)
           /\ q[1] = Effect("publish", s, "created", 0) /\ q[2] = Effect("publish", s, "starting", 0)
<1> DEFINE p == Publish(s, "created")
           z == Publish(s, "starting")
<1>1. 0 \in Nat /\ {"created", "starting"} \subseteq Kinds \ {"authenticated", "exited"}
  BY DEF Kinds, States
<1>2. Tidy(p, s, {"created"}) /\ Tidy(z, s, {"starting"}) /\ Mute(p) /\ Mute(z)
  BY <1>1, TidyOne, MuteOne
<1>3. /\ Tidy(p \o z, s, {"created"} \union {"starting"})
      /\ {"created"} \union {"starting"} = {"created", "starting"}
  BY <1>2, TidyCat
<1>4. p \in Seq(EffectType) /\ z \in Seq(EffectType)
  BY <1>2 DEF Tidy
<1>5. /\ Len(p) = 1 /\ Len(z) = 1
      /\ p[1] = Effect("publish", s, "created", 0) /\ z[1] = Effect("publish", s, "starting", 0)
  BY DEF Publish
<1> HIDE DEF p, z
<1>6. /\ Len(p \o z) = Len(p) + Len(z)
      /\ \A i \in 1..Len(p) : (p \o z)[i] = p[i]
      /\ \A i \in 1..Len(z) : (p \o z)[Len(p) + i] = z[i]
  BY <1>4, CatFacts
<1>7. Len(p \o z) = 2 /\ (p \o z)[1] = p[1] /\ (p \o z)[2] = z[1]
  BY <1>5, <1>6
<1>8. Mute(p \o z)
  BY <1>2, <1>4, MuteCat
<1>9. q = p \o z
  BY DEF p, z
<1> QED
  BY <1>3, <1>5, <1>7, <1>8, <1>9

\* sessions.open creates the record and announces it.
LEMMA OpenStep ==
    ASSUME IInv, NEW s \in Session, Open(s) PROVE IInv'
<1>1. PICK q : q = Publish(s, "created") \o Publish(s, "starting")
  OBVIOUS
<1>0. /\ Serving /\ step[Selector] = "idle" /\ todo[Selector] = <<>> /\ state[s] = "none"
      /\ state' = [state EXCEPT ![s] = "starting"] /\ rec' = [rec EXCEPT ![s] = NewRecord]
      /\ known' = known \union {s} /\ fault' = fault
      /\ born' = [born EXCEPT ![s] = 1 + Cardinality({r \in Session : state[r] # "none"})]
      /\ todo' = [todo EXCEPT ![Selector] = q]
      /\ target' = [target EXCEPT ![Selector] = s] /\ Goto(Selector, "submitStart")
      /\ UNCHANGED <<laneVars, toReject, toClose, closes, procVars, ptyVars, diagVars, toldVars>>
  BY <1>1 DEF Open, At
<1>2. /\ OtherTypes /\ TypeOK /\ Kernel /\ Selector \in Thread /\ Closer \in Thread /\ Selector # Closer
      /\ \A y \in Session : /\ Control(y) /\ FreshFits(y) /\ Told(y) /\ OutputFits(y)
                            /\ Selector # Lane(y) /\ Lane(y) \in Thread
                            /\ Selector # Timer(y) /\ Timer(y) \in Thread
  <2>1. OtherTypes /\ TypeOK /\ Kernel
    BY InvariantFacts
  <2> QED
    BY <2>1, InvariantFacts, ThreadFacts DEF Lone
<1>3. /\ step'[Selector] = "submitStart" /\ step' \in [Thread -> Pcs]
      /\ \A u \in Thread \ {Selector} : step'[u] = step[u]
  BY <1>0, <1>2, GotoFacts DEF Pcs
<1>4. UNCHANGED <<lane, busy, toReject, toClose, closes, proc, exitCode, notified, evidence, chunks,
                  lease, decisive, inflight, grace, told, delivered>>
  BY <1>0 DEF laneVars, procVars, ptyVars, diagVars, toldVars
<1>5. /\ Tidy(q, s, {"created", "starting"}) /\ Len(q) = 2 /\ Mute(q) /\ q \in Seq(EffectType)
      /\ q[1] = Effect("publish", s, "created", 0) /\ q[2] = Effect("publish", s, "starting", 0)
  <2>1. /\ Tidy(q, s, {"created", "starting"}) /\ Len(q) = 2 /\ Mute(q)
        /\ q[1] = Effect("publish", s, "created", 0) /\ q[2] = Effect("publish", s, "starting", 0)
    BY <1>1, TidyOpen
  <2> QED
    BY <2>1 DEF Tidy
<1>6. /\ state'[s] = "starting" /\ rec'[s] = NewRecord /\ todo'[Selector] = q
      /\ target'[Selector] = s /\ target'[Closer] = target[Closer]
      /\ \A y \in Session \ {s} : state'[y] = state[y] /\ rec'[y] = rec[y]
      /\ \A u \in Thread \ {Selector} : todo'[u] = todo[u]
  BY <1>0, <1>2 DEF TypeOK
<1>7. /\ NewRecord \in RecordType /\ NewRecord.deferred = <<>> /\ ~NewRecord.started
      /\ ~NewRecord.handle /\ NewRecord.exit = "none" /\ NewRecord.result = "none"
  BY DEF NewRecord, RecordType
<1>8. step'[Closer] = step[Closer] /\ \A y \in Session : step'[Lane(y)] = step[Lane(y)]
  BY <1>2, <1>3
<1>9. \A y \in Session : /\ ~Submitting(y, "submitStart") /\ ~Submitting(y, "submitClose")
                         /\ Submitting(y, "submitStart")' <=> y = s
                         /\ ~Submitting(y, "submitClose")'
  BY <1>0, <1>3, <1>6 DEF Submitting
<1>10. /\ ~rec[s].started /\ lane[s] = <<>> /\ s \notin toReject /\ \A t \in Thread : Quiet(t, s)
       /\ Serving
  BY <1>0, <1>2 DEF FreshFits
<1>11. /\ step[Lane(s)] = "idle" /\ s \notin busy
       /\ proc[s] = "none" /\ grace[s] = "off" /\ todo[Timer(s)] = <<>>
       /\ inflight[s] = "none" /\ notified[s] = {} /\ chunks[s] = 0
  <2>1. LaneFits(s) /\ StartFits(s)
    BY <1>2 DEF Control
  <2>2. s \notin busy /\ step[Lane(s)] = "idle"
    BY <1>10, <2>1 DEF LaneFits
  <2> QED
    BY <1>10, <2>1, <2>2 DEF StartFits
<1>12. \A kind \in Kinds : told[s][kind] = 0 /\ ~Past(s, kind)
  <2>1. ASSUME NEW kind \in Kinds PROVE ~Past(s, kind)
    BY <1>0, <1>11 DEF Past, Over, Kinds, States
  <2>2. \A kind \in Kinds : KindFits(s, kind)
    BY <1>2 DEF Told
  <2> QED
    BY <2>1, <2>2 DEF KindFits
<1>13. /\ state' \in [Session -> States \union {"none"}] /\ rec' \in [Session -> RecordType]
       /\ known' \subseteq Session /\ born' \in [Session -> Nat] /\ fault' = FALSE
       /\ todo' \in [Thread -> Seq(EffectType)]
  <2>1. /\ state \in [Session -> States \union {"none"}] /\ rec \in [Session -> RecordType]
        /\ known \subseteq Session /\ born \in [Session -> Nat]
        /\ todo \in [Thread -> Seq(EffectType)]
    BY <1>2 DEF TypeOK
  <2>2. fault' = FALSE
    BY <1>0, <1>2 DEF Kernel, TypeOK
  <2>3. born' \in [Session -> Nat]
    <3> DEFINE S == {r \in Session : state[r] # "none"}
    <3>1. IsFiniteSet(S)
      <4>1. S \subseteq Session /\ IsFiniteSet(Session)
        BY RuntimeAssumption
      <4> QED
        BY <4>1, FS_Subset
    <3>2. Cardinality(S) \in Nat
      BY <3>1, FS_CardinalityType
    <3> HIDE DEF S
    <3>3. 1 + Cardinality(S) \in Nat
      BY <3>2
    <3>4. born' = [born EXCEPT ![s] = 1 + Cardinality(S)]
      BY <1>0 DEF S
    <3> QED
      BY <2>1, <3>3, <3>4
  <2>4. "starting" \in States \union {"none"}
    BY DEF States
  <2> QED
    BY <1>0, <1>5, <1>7, <2>1, <2>2, <2>3, <2>4
<1>14. OtherTypes'
  <2>1. target' \in [{Selector, Closer} -> Session \union {NoSession}]
    BY <1>0, <1>2 DEF OtherTypes
  <2> QED
    BY <1>2, <1>3, <1>4, <2>1 DEF OtherTypes, LaneTypes
<1>15. Retained'
  <2>1. state[s] # "closed"
    BY <1>0
  <2>2. \A y \in Session : y \in known' /\ state'[y] = "closed" <=> y \in known /\ state[y] = "closed"
    BY <1>0, <1>6
  <2>3. known' \subseteq Session /\ known \subseteq Session
    BY <1>2, <1>13 DEF TypeOK
  <2>4. {y \in known' : state'[y] = "closed"} = {y \in known : state[y] = "closed"}
    BY <2>2, <2>3
  <2> QED
    BY <1>2, <2>4 DEF Kernel, Retained
<1>16. Control(s)'
  <2>1. StateFits(s)'
    BY <1>0, <1>6 DEF StateFits
  <2>2. LaneFits(s)'
    <3>1. lane'[s] = <<>> /\ s \notin busy' /\ step'[Lane(s)] = "idle" /\ Len(lane'[s]) = 0
      BY <1>4, <1>8, <1>10, <1>11
    <3>2. <<>> \in Seq({<<s, "start">>, <<s, "close">>}) /\ \A i \in 1..0 : FALSE
      OBVIOUS
    <3>3. ~InLane(s, "close")'
      BY <3>1, <3>2 DEF InLane
    <3>4. \A i \in 1..Len(lane'[s]) : lane'[s][i] = <<s, "start">> => i = 1
      BY <3>1, <3>2
    <3> QED
      BY <1>9, <3>1, <3>2, <3>3, <3>4 DEF LaneFits
  <2>3. StartFits(s)'
    <3>1. todo'[Timer(s)] = <<>>
      BY <1>2, <1>6, <1>11
    <3> QED
      BY <1>4, <1>6, <1>7, <1>8, <1>11, <3>1 DEF StartFits
  <2>4. ChildFits(s)'
    BY <1>4, <1>11 DEF ChildFits
  <2>5. VerdictFits(s)'
    BY <1>4, <1>6, <1>7, <1>11 DEF VerdictFits
  <2>6. ShutFits(s)'
    <3>1. s \notin toReject' /\ s \notin toClose' /\ step'[Closer] = "serving"
      BY <1>2, <1>4, <1>8, <1>10 DEF Control, ShutFits, Serving
    <3> QED
      BY <1>6, <3>1 DEF ShutFits
  <2> QED
    BY <2>1, <2>2, <2>3, <2>4, <2>5, <2>6 DEF Control
<1>17. ASSUME NEW y \in Session \ {s} PROVE Control(y)'
  <2>1. SameRecord(y)
    BY <1>0, <1>6 DEF SameRecord
  <2>2. SameSession(y)
    BY <1>4, <1>8 DEF SameSession
  <2>3. SameServer(y)
    BY <1>4, <1>6, <1>8, <1>9 DEF SameServer
  <2>4. todo'[Timer(y)] = todo[Timer(y)] /\ Control(y)
    BY <1>2, <1>6
  <2> QED
    BY <2>1, <2>2, <2>3, <2>4, ControlFrame
<1>18. \A y \in Session : Told(y)'
  <2>1. \A kind \in {"created", "starting"} : ~Past(s, kind) /\ Past(s, kind)'
    <3>1. \A kind \in {"created", "starting"} : kind \in Kinds /\ (Past(s, kind)' <=> state'[s] # "none")
      BY DEF Past, Kinds, States
    <3> QED
      BY <1>6, <1>12, <3>1
  <2>2. \A y \in Session : Advance(state[y], state'[y]) /\ notified[y] \subseteq notified'[y]
    BY <1>0, <1>4, <1>6 DEF Advance
  <2>3. Returned => Returned'
    BY <1>8 DEF Returned
  <2>4. \A y \in Session : Told(y) /\ Advance(state[y], state'[y]) /\ notified[y] \subseteq notified'[y]
    BY <1>2, <2>2
  <2>5. told' = told
    BY <1>4
  <2>6. PICK K : K = {"created", "starting"}
    OBVIOUS
  <2>7. Tidy(q, s, K) /\ \A kind \in K : ~Past(s, kind) /\ Past(s, kind)'
    BY <1>5, <2>1, <2>6
  <2> QED
    BY <1>0, <1>2, <2>3, <2>4, <2>5, <2>7, ToldSection
<1>19. FreshFits(s)'
  <2>1. Serving' /\ Unclaimed(s)' /\ lane'[s] = <<>>
    BY <1>4, <1>6, <1>7, <1>8, <1>10 DEF Serving, Unclaimed
  <2>2. \A t \in Thread \ {Selector} : Quiet(t, s)'
    BY <1>6, <1>10 DEF Quiet
  <2>3. told'[s]["created"] = 0 /\ told'[s]["starting"] = 0
    <3>1. "created" \in Kinds /\ "starting" \in Kinds
      BY DEF Kinds, States
    <3> QED
      BY <1>4, <1>12, <3>1
  <2>4. /\ Len(todo'[Selector]) = 2
        /\ todo'[Selector][1] = Effect("publish", s, "created", 0)
        /\ todo'[Selector][2] = Effect("publish", s, "starting", 0)
    BY <1>5, <1>6
  <2>5. Submitting(s, "submitStart")' /\ state'[s] # "none"
    BY <1>6, <1>9
  <2> QED
    BY <2>1, <2>2, <2>3, <2>4, <2>5 DEF FreshFits
<1>20. ASSUME NEW y \in Session \ {s} PROVE FreshFits(y)'
  <2>1. ~Submitting(y, "submitStart")' /\ ~Submitting(y, "submitClose")' /\ ~Submitting(y, "submitStart")
    BY <1>9
  <2>2. FreshFits(y) /\ state'[y] = state[y] /\ rec'[y] = rec[y]
    BY <1>2, <1>6
  <2>3. \A t \in Thread : Quiet(t, y) => Quiet(t, y)'
    <3>1. Quiet(Selector, y)'
      BY <1>5, <1>6 DEF Quiet, Tidy
    <3>2. \A t \in Thread \ {Selector} : Quiet(t, y) => Quiet(t, y)'
      BY <1>6 DEF Quiet
    <3> QED
      BY <3>1, <3>2
  <2> QED
    BY <1>4, <2>1, <2>2, <2>3 DEF FreshFits
<1>21. OutputFits(s)'
  <2>1. \A n \in Nat : n \notin 1..chunks[s]
    BY <1>11
  <2>2. \A n \in Nat : ~Delivered(s, n)'
    <3>1. \A n \in Nat : ~Delivered(s, n)
      BY <1>2, <2>1 DEF OutputFits
    <3> QED
      BY <1>4, <3>1 DEF Delivered
  <2>3. Len(rec'[s].deferred) = 0 /\ rec'[s].deferred = <<>>
    BY <1>6, <1>7
  <2>4. \A t \in Thread : \A i \in 1..Len(todo'[t]) : \A n \in Nat : ~Sends(todo'[t][i], s, n)
    <3>1. ASSUME NEW t \in Thread, NEW i \in 1..Len(todo'[t]), NEW n \in Nat
          PROVE  ~Sends(todo'[t][i], s, n)
      <4>1. CASE t = Selector
        BY <1>5, <1>6, <3>1, <4>1 DEF Mute, Sends
      <4>2. CASE t # Selector
        BY <1>6, <1>10, <3>1, <4>2 DEF Quiet, Sends
      <4> QED
        BY <4>1, <4>2
    <3> QED
      BY <3>1
  <2>5. \A n \in Nat : ~Sending(s, n)' /\ ~Deferred(s, n)'
    BY <2>3, <2>4 DEF Sending, Deferred
  <2>6. \A i, j \in 1..Len(delivered'[s]) : delivered'[s][i] = delivered'[s][j] => i = j
    BY <1>2, <1>4 DEF OutputFits
  <2>7. state'[s] # "running" /\ \A n \in 1..chunks'[s] : FALSE
    BY <1>4, <1>6, <1>11
  <2> QED
    BY <2>2, <2>3, <2>4, <2>5, <2>6, <2>7 DEF OutputFits
<1>22. ASSUME NEW y \in Session \ {s} PROVE OutputFits(y)'
  <2>1. \A i \in 1..Len(q) : q[i].session = y => q[i].do # "output"
    BY <1>5 DEF Mute
  <2>2. OutputFits(y) /\ state'[y] = state[y] /\ rec'[y].deferred = rec[y].deferred
    BY <1>2, <1>6
  <2>3. delivered'[y] = delivered[y] /\ chunks'[y] = chunks[y]
    BY <1>4
  <2>4. state'[y] = "running" /\ rec'[y].deferred # <<>> => Flushes(q, y) \/ state[y] = "running"
    BY <2>2
  <2>5. state'[y] \in {"starting", "running"} =>
           state[y] \in {"starting", "running"} /\ rec'[y].deferred = rec[y].deferred
    BY <2>2
  <2>6. TypeOK /\ todo[Selector] = <<>> /\ todo' = [todo EXCEPT ![Selector] = q] /\ Selector \in Thread
    BY <1>0, <1>2
  <2> HIDE DEF OutputFits
  <2> QED
    BY <2>1, <2>2, <2>3, <2>4, <2>5, <2>6, OutputSection
<1>23. EffectFits'
  <2>1. \A t \in Thread : \A i \in 1..Len(todo'[t]) :
           todo'[t][i].do = "publish" => todo'[t][i].what \in Kinds
    <3>1. ASSUME NEW t \in Thread, NEW i \in 1..Len(todo'[t]), todo'[t][i].do = "publish"
          PROVE  todo'[t][i].what \in Kinds
      <4>1. CASE t = Selector
        BY <1>5, <1>6, <3>1, <4>1 DEF Tidy
      <4>2. CASE t # Selector
        BY <1>6, <3>1, <4>2 DEF IInv, EffectFits
      <4> QED
        BY <4>1, <4>2
    <3> QED
      BY <3>1
  <2> QED
    BY <1>6, <2>1 DEF EffectFits
<1>24. TypeOK' /\ LaneTypes' /\ ~fault'
  <2>1. fault' \in BOOLEAN
    BY <1>13
  <2> QED
    BY <1>13, <1>14, <2>1 DEF TypeOK, OtherTypes, Pcs
<1> QED
  BY <1>15, <1>16, <1>17, <1>18, <1>19, <1>20, <1>21, <1>22, <1>23, <1>24 DEF IInv

\* The selector as a whole.
LEMMA SelectorStepStep == ASSUME IInv, SelectorStep PROVE IInv'
  BY OpenStep, CloseRequestStep, CancelStartStep, SubmitAcceptedStep, SubmitStartRejectedStep,
     SubmitCloseRejectedStep, ServerStopsStep DEF SelectorStep

-----------------------------------------------------------------------------
(* One effect is done.  What stands in the queue c of thread t is shifted by *)
(* off against what stood there.                                             *)

\* Queue c holds what thread t still owes, moved by off.
Shifted(t, c, off) ==
    /\ \A i \in 1..Len(c) : c[i].do = "publish" =>
          i - off \in 2..Len(todo[t]) /\ c[i] = todo[t][i - off]
    /\ \A k \in 2..Len(todo[t]) : k + off \in 1..Len(c) /\ c[k + off] = todo[t][k]

\* What the effect that is done adds to the history of session y.
Heard(e, y) ==
    \A kind \in Kinds :
        /\ told'[y][kind] = told[y][kind] \/ (Says(e, y, kind) /\ told'[y][kind] = told[y][kind] + 1)
        /\ Says(e, y, kind) /\ ~Returned => told'[y][kind] = told[y][kind] + 1

\* The events that are left keep their order, and what was told is not owed.
LEMMA ToldShift ==
    ASSUME TypeOK, NEW t \in Thread, NEW c, NEW off \in Int, todo[t] # <<>>,
           todo' = [todo EXCEPT ![t] = c], Shifted(t, c, off),
           NEW y \in Session, Told(y), Heard(todo[t][1], y),
           state'[y] = state[y], notified'[y] = notified[y], step' = step
    PROVE  Told(y)'
<1>1. /\ todo'[t] = c /\ (\A u \in Thread \ {t} : todo'[u] = todo[u])
      /\ \A u \in Thread : Len(todo[u]) \in Nat
      /\ 1 \in 1..Len(todo[t]) /\ \A kind \in Kinds : told[y][kind] \in Nat
  <2>1. todo \in [Thread -> Seq(EffectType)] /\ told \in [Session -> [Kinds -> Nat]]
    BY DEF TypeOK
  <2> QED
    BY <2>1
<1>2. ASSUME NEW kind \in Kinds, NEW u \in Thread, NEW i \in 1..Len(todo'[u]), Says(todo'[u][i], y, kind)
      PROVE  \/ u = t /\ i - off \in 2..Len(todo[t]) /\ Says(todo[t][i - off], y, kind)
             \/ u # t /\ i \in 1..Len(todo[u]) /\ Says(todo[u][i], y, kind)
  <2>1. CASE u = t
    <3>1. i \in 1..Len(c) /\ Says(c[i], y, kind) /\ c[i].do = "publish"
      BY <1>1, <1>2, <2>1 DEF Says
    <3>2. i - off \in 2..Len(todo[t]) /\ c[i] = todo[t][i - off]
      BY <3>1 DEF Shifted
    <3> QED
      BY <2>1, <3>1, <3>2
  <2>2. CASE u # t
    BY <1>1, <1>2, <2>2
  <2> QED
    BY <2>1, <2>2
<1>3. \A k \in 2..Len(todo[t]) : k \in 1..Len(todo[t])
  BY <1>1
<1>4. ASSUME NEW kind \in Kinds PROVE Owed(y, kind)' => Owed(y, kind)
  <2>1. ASSUME NEW u \in Thread, NEW i \in 1..Len(todo'[u]), Says(todo'[u][i], y, kind)
        PROVE  Owed(y, kind)
    <3>1. \/ u = t /\ i - off \in 2..Len(todo[t]) /\ Says(todo[t][i - off], y, kind)
          \/ u # t /\ i \in 1..Len(todo[u]) /\ Says(todo[u][i], y, kind)
      BY <1>2, <2>1
    <3> QED
      BY <1>3, <3>1 DEF Owed
  <2> QED
    BY <2>1 DEF Owed
<1>5. ASSUME NEW kind \in Kinds PROVE KindFits(y, kind)'
  <2>0. KindFits(y, kind)
    BY DEF Told
  <2>1. \A u, v \in Thread : \A i \in 1..Len(todo[u]), j \in 1..Len(todo[v]) :
           Says(todo[u][i], y, kind) /\ Says(todo[v][j], y, kind) => u = v /\ i = j
    BY <2>0 DEF KindFits
  <2>2. ASSUME NEW u \in Thread, NEW v \in Thread, NEW i \in 1..Len(todo'[u]), NEW j \in 1..Len(todo'[v]),
               Says(todo'[u][i], y, kind), Says(todo'[v][j], y, kind)
        PROVE  u = v /\ i = j
    <3>1. \/ u = t /\ i - off \in 2..Len(todo[t]) /\ Says(todo[t][i - off], y, kind)
          \/ u # t /\ i \in 1..Len(todo[u]) /\ Says(todo[u][i], y, kind)
      BY <1>2, <2>2
    <3>2. \/ v = t /\ j - off \in 2..Len(todo[t]) /\ Says(todo[t][j - off], y, kind)
          \/ v # t /\ j \in 1..Len(todo[v]) /\ Says(todo[v][j], y, kind)
      BY <1>2, <2>2
    <3>3. u = t /\ v = t => i = j
      <4>1. u = t /\ v = t => i - off = j - off
        BY <1>3, <2>1, <3>1, <3>2
      <4>2. i \in Int /\ j \in Int
        OBVIOUS
      <4> QED
        BY <4>1, <4>2
    <3>4. u = t /\ v # t => FALSE
      BY <1>3, <2>1, <3>1, <3>2
    <3>5. u # t /\ v = t => FALSE
      BY <1>3, <2>1, <3>1, <3>2
    <3>6. u # t /\ v # t => u = v /\ i = j
      BY <2>1, <3>1, <3>2
    <3> QED
      BY <3>3, <3>4, <3>5, <3>6
  <2>3. Says(todo[t][1], y, kind) => Owed(y, kind) /\ ~Owed(y, kind)' /\ told[y][kind] = 0
    <3> SUFFICES ASSUME Says(todo[t][1], y, kind)
                 PROVE  Owed(y, kind) /\ ~Owed(y, kind)' /\ told[y][kind] = 0
      OBVIOUS
    <3>1. Owed(y, kind)
      BY <1>1 DEF Owed
    <3>2. told[y][kind] = 0
      BY <1>1, <2>0, <3>1 DEF KindFits
    <3>3. ASSUME NEW u \in Thread, NEW i \in 1..Len(todo'[u]), Says(todo'[u][i], y, kind) PROVE FALSE
      <4>1. \/ u = t /\ i - off \in 2..Len(todo[t]) /\ Says(todo[t][i - off], y, kind)
            \/ u # t /\ i \in 1..Len(todo[u]) /\ Says(todo[u][i], y, kind)
        BY <1>2, <3>3
      <4>2. CASE u = t
        <5>1. i - off = 1
          BY <1>1, <1>3, <2>1, <4>1, <4>2
        <5> QED
          BY <4>1, <4>2, <5>1
      <4>3. CASE u # t
        BY <1>1, <2>1, <4>1, <4>3
      <4> QED
        BY <4>2, <4>3
    <3> QED
      BY <3>1, <3>2, <3>3 DEF Owed
  <2>4. told'[y][kind] <= 1 /\ (told'[y][kind] # 0 => told[y][kind] # 0 \/ Says(todo[t][1], y, kind))
    BY <1>1, <2>0, <2>3 DEF Heard, KindFits
  <2>5. told'[y][kind] # 0 => ~Owed(y, kind)'
    BY <1>4, <2>0, <2>3, <2>4 DEF KindFits
  <2>6. Past(y, kind) => Past(y, kind)'
    BY DEF Past, Over
  <2>7. told'[y][kind] # 0 \/ Owed(y, kind)' => Past(y, kind)'
    BY <1>4, <2>0, <2>3, <2>4, <2>6 DEF KindFits
  <2> QED
    BY <2>2, <2>4, <2>5, <2>7 DEF KindFits
<1>6. "running" \in Kinds /\ "authenticated" \in Kinds /\ "exited" \in Kinds /\ "closed" \in Kinds
  BY DEF Kinds, States
<1>7. told[y]["running"] # 0 => told'[y]["running"] # 0
  BY <1>1, <1>6 DEF Heard
<1>8. ASSUME ~Returned, NEW u \in Thread, NEW i \in 1..Len(todo'[u]), Says(todo'[u][i], y, "authenticated")
      PROVE  told'[y]["running"] # 0 \/ \E j \in 1..(i-1) : Says(todo'[u][j], y, "running")
  <2>0. OrderFits(y)
    BY DEF Told
  <2>1. \/ u = t /\ i - off \in 2..Len(todo[t]) /\ Says(todo[t][i - off], y, "authenticated")
        \/ u # t /\ i \in 1..Len(todo[u]) /\ Says(todo[u][i], y, "authenticated")
    BY <1>2, <1>6, <1>8
  <2>2. CASE u # t
    <3>1. told[y]["running"] # 0 \/ \E j \in 1..(i-1) : Says(todo[u][j], y, "running")
      BY <1>8, <2>0, <2>1, <2>2 DEF OrderFits
    <3> QED
      BY <1>1, <1>7, <2>2, <3>1
  <2>3. CASE u = t
    <3>1. told[y]["running"] # 0 \/ \E j \in 1..(i-off-1) : Says(todo[t][j], y, "running")
      BY <1>3, <1>8, <2>0, <2>1, <2>3 DEF OrderFits
    <3>2. ASSUME NEW j \in 1..(i-off-1), Says(todo[t][j], y, "running")
          PROVE  told'[y]["running"] # 0 \/ \E k \in 1..(i-1) : Says(todo'[u][k], y, "running")
      <4>1. CASE j = 1
        BY <1>1, <1>6, <1>8, <3>2, <4>1 DEF Heard
      <4>2. CASE j # 1
        <5>1. j \in 2..Len(todo[t])
          BY <1>1, <2>1, <2>3, <4>2
        <5>2. j + off \in 1..Len(c) /\ c[j + off] = todo[t][j]
          BY <5>1 DEF Shifted
        <5>3. j + off \in 1..(i-1)
          BY <5>1, <5>2
        <5> QED
          BY <1>1, <2>3, <3>2, <5>2, <5>3
      <4> QED
        BY <4>1, <4>2
    <3> QED
      BY <1>7, <3>1, <3>2
  <2> QED
    BY <2>2, <2>3
<1>9. ASSUME ~Returned, NEW u \in Thread, NEW i \in 1..Len(todo'[u]), Says(todo'[u][i], y, "exited")
      PROVE  \E j \in (i+1)..Len(todo'[u]) : Says(todo'[u][j], y, "closed")
  <2>0. OrderFits(y)
    BY DEF Told
  <2>1. \/ u = t /\ i - off \in 2..Len(todo[t]) /\ Says(todo[t][i - off], y, "exited")
        \/ u # t /\ i \in 1..Len(todo[u]) /\ Says(todo[u][i], y, "exited")
    BY <1>2, <1>6, <1>9
  <2>2. CASE u # t
    <3>1. \E j \in (i+1)..Len(todo[u]) : Says(todo[u][j], y, "closed")
      BY <1>9, <2>0, <2>1, <2>2 DEF OrderFits
    <3> QED
      BY <1>1, <2>2, <3>1
  <2>3. CASE u = t
    <3>1. PICK j \in (i-off+1)..Len(todo[t]) : Says(todo[t][j], y, "closed")
      BY <1>3, <1>9, <2>0, <2>1, <2>3 DEF OrderFits
    <3>2. j \in 2..Len(todo[t])
      BY <1>1, <2>1, <2>3
    <3>3. j + off \in 1..Len(c) /\ c[j + off] = todo[t][j]
      BY <3>2 DEF Shifted
    <3>4. j + off \in (i+1)..Len(c)
      BY <3>2, <3>3
    <3> QED
      BY <1>1, <2>3, <3>1, <3>3, <3>4
  <2> QED
    BY <2>2, <2>3
<1>10. OrderFits(y)'
  <2>1. ~Returned' => ~Returned
    BY DEF Returned
  <2> QED
    BY <1>8, <1>9, <2>1 DEF OrderFits
<1> QED
  BY <1>5, <1>10 DEF Told

\* The announcement of a session that is being opened goes on.
LEMMA FreshShift ==
    ASSUME TypeOK, NEW t \in Thread, NEW c, todo[t] # <<>>, todo' = [todo EXCEPT ![t] = c],
           NEW y \in Session, FreshFits(y), Heard(todo[t][1], y),
           \A i \in 1..Len(c) : c[i].session = y =>
              \E k \in 1..Len(todo[t]) : todo[t][k].session = y,
           todo[t][1].do = "publish" =>
              Len(c) = Len(todo[t]) - 1 /\ \A i \in 1..Len(c) : c[i] = todo[t][i + 1],
           state' = state, rec'[y].started = rec[y].started, step' = step, lane' = lane,
           target' = target, toReject' = toReject
    PROVE  FreshFits(y)'
<1>1. /\ todo'[t] = c /\ (\A u \in Thread \ {t} : todo'[u] = todo[u])
      /\ Len(todo[t]) \in Nat /\ 1 \in 1..Len(todo[t]) /\ \A kind \in Kinds : told[y][kind] \in Nat
  <2>1. todo \in [Thread -> Seq(EffectType)] /\ told \in [Session -> [Kinds -> Nat]]
    BY DEF TypeOK
  <2> QED
    BY <2>1
<1>2. \A u \in Thread : Quiet(u, y) => Quiet(u, y)'
  <2>1. Quiet(t, y) => Quiet(t, y)'
    BY <1>1 DEF Quiet
  <2>2. \A u \in Thread \ {t} : Quiet(u, y) => Quiet(u, y)'
    BY <1>1 DEF Quiet
  <2> QED
    BY <2>1, <2>2
<1>3. /\ Submitting(y, "submitStart")' <=> Submitting(y, "submitStart")
      /\ Submitting(y, "submitClose")' <=> Submitting(y, "submitClose")
      /\ Serving' <=> Serving
      /\ Unclaimed(y)' <=> Unclaimed(y)
  BY DEF Submitting, Serving, Unclaimed
<1>4. "created" \in Kinds /\ "starting" \in Kinds /\ "created" # "starting"
  BY DEF Kinds, States
<1>5. /\ told[y]["created"] # 0 => told'[y]["created"] # 0
      /\ told[y]["starting"] # 0 => told'[y]["starting"] # 0
      /\ told[y]["created"] \in Nat /\ told[y]["starting"] \in Nat
  BY <1>1, <1>4 DEF Heard
<1>6. CASE ~Submitting(y, "submitStart")
  BY <1>2, <1>3, <1>5, <1>6 DEF FreshFits
<1>7. CASE Submitting(y, "submitStart")
  <2>0. state[y] # "none" /\ Serving /\ Unclaimed(y) /\ lane[y] = <<>>
    BY <1>7 DEF FreshFits
  <2>1. \A u \in Thread \ {Selector} : Quiet(u, y)'
    BY <1>2, <1>7 DEF FreshFits
  <2>2. CASE t # Selector
    <3>1. todo'[Selector] = todo[Selector]
      BY <1>1, <2>2, ThreadFacts DEF Lone
    <3>2. todo[t][1].session # y
      BY <1>1, <1>7, <2>2 DEF FreshFits, Quiet
    <3>3. told'[y]["created"] = told[y]["created"] /\ told'[y]["starting"] = told[y]["starting"]
      BY <1>4, <3>2 DEF Heard, Says
    <3> QED
      BY <1>3, <1>7, <2>0, <2>1, <3>1, <3>3 DEF FreshFits
  <2>3. CASE t = Selector
    <3>1. \/ /\ told[y]["created"] = 0 /\ told[y]["starting"] = 0 /\ Len(todo[t]) = 2
             /\ todo[t][1] = Effect("publish", y, "created", 0)
             /\ todo[t][2] = Effect("publish", y, "starting", 0)
          \/ /\ told[y]["created"] # 0 /\ told[y]["starting"] = 0 /\ Len(todo[t]) = 1
             /\ todo[t][1] = Effect("publish", y, "starting", 0)
      BY <1>1, <1>7, <2>3 DEF FreshFits
    <3>2. ~Returned
      BY <2>0 DEF Serving, Returned
    <3>3. CASE /\ told[y]["created"] = 0 /\ told[y]["starting"] = 0 /\ Len(todo[t]) = 2
               /\ todo[t][1] = Effect("publish", y, "created", 0)
               /\ todo[t][2] = Effect("publish", y, "starting", 0)
      <4>1. todo[t][1].do = "publish" /\ Says(todo[t][1], y, "created") /\ ~Says(todo[t][1], y, "starting")
        BY <3>3 DEF Says, Effect
      <4>2. told'[y]["created"] = 1 /\ told'[y]["starting"] = 0
        BY <1>4, <3>2, <3>3, <4>1 DEF Heard
      <4>3. Len(c) = 1 /\ c[1] = todo[t][2]
        <5>1. Len(c) = Len(todo[t]) - 1 /\ \A i \in 1..Len(c) : c[i] = todo[t][i + 1]
          BY <4>1
        <5> QED
          BY <3>3, <5>1
      <4> QED
        BY <1>1, <1>3, <1>7, <2>0, <2>1, <2>3, <3>3, <4>2, <4>3 DEF FreshFits
    <3>4. CASE /\ told[y]["created"] # 0 /\ told[y]["starting"] = 0 /\ Len(todo[t]) = 1
               /\ todo[t][1] = Effect("publish", y, "starting", 0)
      <4>1. todo[t][1].do = "publish" /\ Says(todo[t][1], y, "starting") /\ ~Says(todo[t][1], y, "created")
        BY <3>4 DEF Says, Effect
      <4>2. told'[y]["created"] # 0 /\ told'[y]["starting"] = 1
        BY <1>4, <1>5, <3>2, <3>4, <4>1 DEF Heard
      <4>3. Len(c) = 0
        <5>1. Len(c) = Len(todo[t]) - 1
          BY <4>1
        <5> QED
          BY <3>4, <5>1
      <4> QED
        BY <1>1, <1>3, <1>7, <2>0, <2>1, <2>3, <4>2, <4>3 DEF FreshFits
    <3> QED
      BY <3>1, <3>3, <3>4
  <2> QED
    BY <2>2, <2>3
<1> QED
  BY <1>6, <1>7

\* So is the terminal output of session y in it.
OutputShifted(t, c, off, y) ==
    \A i \in 1..Len(c) : \A n \in Nat : Sends(c[i], y, n) =>
        i - off \in 2..Len(todo[t]) /\ c[i] = todo[t][i - off]

\* What the effect that is done adds to the output delivered for session y.
Seen(e, y) ==
    \/ delivered'[y] = delivered[y] /\ \A n \in Nat : ~Sends(e, y, n)
    \/ \E n \in Nat : Sends(e, y, n) /\ delivered'[y] = Append(delivered[y], n)

\* Terminal output that is delivered moves from the queue to the callbacks;
\* everything else stays where it is.
LEMMA OutputShift ==
    ASSUME TypeOK, NEW t \in Thread, NEW c, NEW off \in Int, todo[t] # <<>>,
           todo' = [todo EXCEPT ![t] = c], NEW y \in Session, OutputFits(y),
           Shifted(t, c, off), OutputShifted(t, c, off, y), Seen(todo[t][1], y),
           todo[t][1].do = "flush" /\ todo[t][1].session = y => state[y] # "running",
           chunks'[y] = chunks[y], state'[y] = state[y], rec'[y].deferred = rec[y].deferred
    PROVE  OutputFits(y)'
<1> DEFINE e == todo[t][1]
<1>1. /\ todo'[t] = c /\ (\A u \in Thread \ {t} : todo'[u] = todo[u])
      /\ \A u \in Thread : Len(todo[u]) \in Nat
      /\ 1 \in 1..Len(todo[t]) /\ \A k \in 2..Len(todo[t]) : k \in 1..Len(todo[t])
  <2>1. todo \in [Thread -> Seq(EffectType)]
    BY DEF TypeOK
  <2> QED
    BY <2>1
<1>0. /\ \A i \in 1..Len(c) : \A n \in Nat : Sends(c[i], y, n) =>
            i - off \in 2..Len(todo[t]) /\ c[i] = todo[t][i - off]
      /\ \A k \in 2..Len(todo[t]) : k + off \in 1..Len(c) /\ c[k + off] = todo[t][k]
  BY DEF Shifted, OutputShifted
<1>2. delivered[y] \in Seq(Nat) /\ chunks[y] \in Nat
  BY DEF TypeOK
<1>3. ASSUME NEW n \in Nat, NEW u \in Thread, NEW i \in 1..Len(todo'[u]), Sends(todo'[u][i], y, n)
      PROVE  \/ u = t /\ i - off \in 2..Len(todo[t]) /\ Sends(todo[t][i - off], y, n)
             \/ u # t /\ i \in 1..Len(todo[u]) /\ Sends(todo[u][i], y, n)
  <2>1. CASE u = t
    <3>1. i \in 1..Len(c) /\ Sends(c[i], y, n)
      BY <1>1, <1>3, <2>1
    <3>2. i - off \in 2..Len(todo[t]) /\ c[i] = todo[t][i - off]
      BY <1>0, <3>1
    <3> QED
      BY <2>1, <3>1, <3>2
  <2>2. CASE u # t
    BY <1>1, <1>3, <2>2
  <2> QED
    BY <2>1, <2>2
<1>4. \A n \in Nat : \A u, v \in Thread : \A i \in 1..Len(todo[u]), j \in 1..Len(todo[v]) :
         Sends(todo[u][i], y, n) /\ Sends(todo[v][j], y, n) => u = v /\ i = j
  BY DEF OutputFits
<1>5. ASSUME NEW n \in Nat PROVE Sending(y, n)' => Sending(y, n)
  <2>1. ASSUME NEW u \in Thread, NEW i \in 1..Len(todo'[u]), Sends(todo'[u][i], y, n)
        PROVE  Sending(y, n)
    <3>1. \/ u = t /\ i - off \in 2..Len(todo[t]) /\ Sends(todo[t][i - off], y, n)
          \/ u # t /\ i \in 1..Len(todo[u]) /\ Sends(todo[u][i], y, n)
      BY <1>3, <2>1
    <3> QED
      BY <1>1, <3>1 DEF Sending
  <2> QED
    BY <2>1 DEF Sending
<1>6. ASSUME NEW n \in Nat, Sending(y, n), ~Sends(e, y, n) PROVE Sending(y, n)'
  <2>1. PICK u \in Thread : \E i \in 1..Len(todo[u]) : Sends(todo[u][i], y, n)
    BY <1>6 DEF Sending
  <2>2. PICK i \in 1..Len(todo[u]) : Sends(todo[u][i], y, n)
    BY <2>1
  <2>3. CASE u = t
    <3>1. i # 1 /\ i \in 2..Len(todo[t])
      BY <1>1, <1>6, <2>2, <2>3
    <3>2. i + off \in 1..Len(c) /\ c[i + off] = todo[t][i]
      BY <1>0, <3>1
    <3> QED
      BY <1>1, <2>2, <2>3, <3>2 DEF Sending
  <2>4. CASE u # t
    BY <1>1, <2>2, <2>4 DEF Sending
  <2> QED
    BY <2>3, <2>4
<1>7. ASSUME NEW n \in Nat, Sends(e, y, n) PROVE Sending(y, n) /\ ~Sending(y, n)'
  <2>1. Sending(y, n)
    BY <1>1, <1>7 DEF Sending
  <2>2. ASSUME NEW u \in Thread, NEW i \in 1..Len(todo'[u]), Sends(todo'[u][i], y, n) PROVE FALSE
    <3>1. \/ u = t /\ i - off \in 2..Len(todo[t]) /\ Sends(todo[t][i - off], y, n)
          \/ u # t /\ i \in 1..Len(todo[u]) /\ Sends(todo[u][i], y, n)
      BY <1>3, <2>2
    <3>2. CASE u = t
      <4>1. i - off = 1
        BY <1>1, <1>4, <1>7, <3>1, <3>2
      <4> QED
        BY <3>1, <3>2, <4>1
    <3>3. CASE u # t
      BY <1>1, <1>4, <1>7, <3>1, <3>3
    <3> QED
      BY <3>2, <3>3
  <2> QED
    BY <2>1, <2>2 DEF Sending
<1>8. ASSUME NEW n \in Nat, NEW u \in Thread, NEW v \in Thread,
             NEW i \in 1..Len(todo'[u]), NEW j \in 1..Len(todo'[v]),
             Sends(todo'[u][i], y, n), Sends(todo'[v][j], y, n)
      PROVE  u = v /\ i = j
  <2>1. \/ u = t /\ i - off \in 2..Len(todo[t]) /\ Sends(todo[t][i - off], y, n)
        \/ u # t /\ i \in 1..Len(todo[u]) /\ Sends(todo[u][i], y, n)
    BY <1>3, <1>8
  <2>2. \/ v = t /\ j - off \in 2..Len(todo[t]) /\ Sends(todo[t][j - off], y, n)
        \/ v # t /\ j \in 1..Len(todo[v]) /\ Sends(todo[v][j], y, n)
    BY <1>3, <1>8
  <2>3. u = t /\ v = t => i = j
    <3>1. u = t /\ v = t => i - off = j - off
      BY <1>1, <1>4, <2>1, <2>2
    <3>2. i \in Int /\ j \in Int
      OBVIOUS
    <3> QED
      BY <3>1, <3>2
  <2>4. u = t /\ v # t => FALSE
    BY <1>1, <1>4, <2>1, <2>2
  <2>5. u # t /\ v = t => FALSE
    BY <1>1, <1>4, <2>1, <2>2
  <2>6. u # t /\ v # t => u = v /\ i = j
    BY <1>4, <2>1, <2>2
  <2> QED
    BY <2>3, <2>4, <2>5, <2>6
<1>9. ASSUME state[y] = "running", Flushing(y) PROVE Flushing(y)'
  <2>1. PICK u \in Thread : \E i \in 1..Len(todo[u]) : todo[u][i].do = "flush" /\ todo[u][i].session = y
    BY <1>9 DEF Flushing
  <2>2. PICK i \in 1..Len(todo[u]) : todo[u][i].do = "flush" /\ todo[u][i].session = y
    BY <2>1
  <2>3. CASE u = t
    <3>1. i # 1 /\ i \in 2..Len(todo[t])
      BY <1>1, <1>9, <2>2, <2>3
    <3>2. i + off \in 1..Len(c) /\ c[i + off] = todo[t][i]
      BY <1>0, <3>1
    <3> QED
      BY <1>1, <2>2, <2>3, <3>2 DEF Flushing
  <2>4. CASE u # t
    BY <1>1, <2>2, <2>4 DEF Flushing
  <2> QED
    BY <2>3, <2>4
<1>10. \A n \in Nat : Deferred(y, n)' <=> Deferred(y, n)
  BY DEF Deferred
<1>11. /\ \A n \in Nat : Delivered(y, n)' <=> Delivered(y, n) \/ Sends(e, y, n)
       /\ \A i, j \in 1..Len(delivered'[y]) : delivered'[y][i] = delivered'[y][j] => i = j
  <2>0. /\ \A i, j \in 1..Len(delivered[y]) : delivered[y][i] = delivered[y][j] => i = j
        /\ \A n \in Nat : ~(Sending(y, n) /\ Delivered(y, n))
    BY DEF OutputFits
  <2>1. CASE delivered'[y] = delivered[y] /\ \A n \in Nat : ~Sends(e, y, n)
    BY <2>0, <2>1 DEF Delivered
  <2>2. ASSUME NEW n \in Nat, Sends(e, y, n), delivered'[y] = Append(delivered[y], n)
        PROVE  /\ \A k \in Nat : Delivered(y, k)' <=> Delivered(y, k) \/ Sends(e, y, k)
               /\ \A i, j \in 1..Len(delivered'[y]) : delivered'[y][i] = delivered'[y][j] => i = j
    <3>1. /\ Len(delivered[y]) \in Nat /\ Len(delivered'[y]) = Len(delivered[y]) + 1
          /\ \A i \in 1..Len(delivered[y]) : delivered'[y][i] = delivered[y][i]
          /\ delivered'[y][Len(delivered[y]) + 1] = n
      BY <1>2, <2>2, AppendProperties
    <3>2. ~Delivered(y, n)
      BY <1>7, <2>0, <2>2
    <3>3. \A k \in Nat : Sends(e, y, k) <=> k = n
      BY <2>2 DEF Sends
    <3>4. \A i \in 1..Len(delivered'[y]) : i \in 1..Len(delivered[y]) \/ i = Len(delivered[y]) + 1
      BY <3>1
    <3>5. /\ \A i \in 1..Len(delivered[y]) : i \in 1..Len(delivered'[y])
          /\ Len(delivered[y]) + 1 \in 1..Len(delivered'[y])
      BY <3>1
    <3>6. \A k \in Nat : Delivered(y, k)' <=> Delivered(y, k) \/ k = n
      BY <3>1, <3>4, <3>5 DEF Delivered
    <3>7. \A i \in 1..Len(delivered[y]) : delivered[y][i] # n
      BY <3>2 DEF Delivered
    <3>8. \A i, j \in 1..Len(delivered'[y]) : delivered'[y][i] = delivered'[y][j] => i = j
      BY <2>0, <3>1, <3>4, <3>7, SMTT(30)
    <3> QED
      BY <3>3, <3>6, <3>8
  <2> QED
    BY <2>1, <2>2 DEF Seen
<1> HIDE DEF e
<1>12. /\ \A n \in Nat : Deferred(y, n) \/ Sending(y, n) \/ Delivered(y, n) => n \in 1..chunks[y]
       /\ \A n \in Nat : ~(Deferred(y, n) /\ Sending(y, n)) /\ ~(Deferred(y, n) /\ Delivered(y, n))
                         /\ ~(Sending(y, n) /\ Delivered(y, n))
       /\ \A i, j \in 1..Len(rec[y].deferred) : rec[y].deferred[i] = rec[y].deferred[j] => i = j
       /\ state[y] \in {"starting", "running"} =>
             \A n \in 1..chunks[y] : Deferred(y, n) \/ Sending(y, n) \/ Delivered(y, n)
       /\ state[y] = "running" /\ rec[y].deferred # <<>> => Flushing(y)
  BY DEF OutputFits
<1>13. \A n \in Nat : Deferred(y, n)' \/ Sending(y, n)' \/ Delivered(y, n)' => n \in 1..chunks'[y]
  BY <1>5, <1>7, <1>10, <1>11, <1>12
<1>14. \A n \in Nat : ~(Deferred(y, n)' /\ Sending(y, n)') /\ ~(Deferred(y, n)' /\ Delivered(y, n)')
                      /\ ~(Sending(y, n)' /\ Delivered(y, n)')
  BY <1>5, <1>7, <1>10, <1>11, <1>12
<1>15. state'[y] \in {"starting", "running"} =>
          \A n \in 1..chunks'[y] : Deferred(y, n)' \/ Sending(y, n)' \/ Delivered(y, n)'
  <2>1. \A n \in 1..chunks[y] : n \in Nat
    BY <1>2
  <2> QED
    BY <1>6, <1>10, <1>11, <1>12, <2>1
<1>16. state'[y] = "running" /\ rec'[y].deferred # <<>> => Flushing(y)'
  BY <1>9, <1>12
<1>17. \A i, j \in 1..Len(rec'[y].deferred) : rec'[y].deferred[i] = rec'[y].deferred[j] => i = j
  BY <1>12
<1> QED
  BY <1>8, <1>11, <1>13, <1>14, <1>15, <1>16, <1>17 DEF OutputFits

\* An effect that is done leaves the control of the sessions alone.
LEMMA EffectControl ==
    ASSUME NEW y \in Session, Control(y),
           UNCHANGED <<state, known, laneVars, step, serverVars, procVars, ptyVars>>,
           decisive' = decisive, inflight' = inflight,
           grace'[y] \in {grace[y], "off"},
           todo'[Timer(y)] # <<>> => todo[Timer(y)] # <<>>,
           \/ rec' = rec
           \/ \E s \in Session : rec' = [rec EXCEPT ![s].deferred = <<>>] /\ rec \in [Session -> RecordType]
    PROVE  Control(y)'
<1>1. /\ rec'[y].started = rec[y].started /\ rec'[y].exit = rec[y].exit
      /\ rec'[y].handle = rec[y].handle /\ rec'[y].result = rec[y].result
      /\ rec'[y].capable = rec[y].capable
  <2>1. CASE rec' = rec
    BY <2>1
  <2>2. ASSUME NEW s \in Session, rec' = [rec EXCEPT ![s].deferred = <<>>], rec \in [Session -> RecordType]
        PROVE  /\ rec'[y].started = rec[y].started /\ rec'[y].exit = rec[y].exit
               /\ rec'[y].handle = rec[y].handle /\ rec'[y].result = rec[y].result
               /\ rec'[y].capable = rec[y].capable
    <3>1. rec[y] \in RecordType
      BY <2>2
    <3>2. rec'[y] = rec[y] \/ rec'[y] = [rec[y] EXCEPT !.deferred = <<>>]
      BY <2>2
    <3> QED
      BY <3>1, <3>2 DEF RecordType
  <2> QED
    BY <2>1, <2>2
<1>2. /\ state' = state /\ known' = known /\ lane' = lane /\ busy' = busy /\ step' = step
      /\ target' = target /\ toReject' = toReject /\ toClose' = toClose
      /\ proc' = proc /\ notified' = notified /\ chunks' = chunks
      /\ decisive' = decisive /\ inflight' = inflight
  BY DEF laneVars, serverVars, procVars, ptyVars
<1>3. StateFits(y)'
  BY <1>2 DEF Control, StateFits
<1>4. LaneFits(y)'
  <2>1. LaneFits(y)
    BY DEF Control
  <2> QED
    BY <1>1, <1>2, <2>1 DEF LaneFits, InLane, Submitting, Over, Unclaimed
<1>5. StartFits(y)'
  <2>1. StartFits(y)
    BY DEF Control
  <2> QED
    BY <1>1, <1>2, <2>1 DEF StartFits
<1>6. ChildFits(y)'
  BY <1>1, <1>2 DEF Control, ChildFits, Serving
<1>7. VerdictFits(y)'
  BY <1>1, <1>2 DEF Control, VerdictFits
<1>8. ShutFits(y)'
  BY <1>1, <1>2 DEF Control, ShutFits, Serving
<1> QED
  BY <1>3, <1>4, <1>5, <1>6, <1>7, <1>8 DEF Control

\* What a thread still owes once it has done the first of its effects.
LEMMA Drained ==
    ASSUME TypeOK, NEW t \in Thread, todo[t] # <<>>
    PROVE  /\ todo[t][1] \in EffectType /\ Head(todo[t]) = todo[t][1]
           /\ Tail(todo[t]) \in Seq(EffectType)
           /\ Len(todo[t]) \in Nat \ {0} /\ Len(Tail(todo[t])) = Len(todo[t]) - 1
           /\ \A i \in 1..Len(Tail(todo[t])) :
                 /\ i - (-1) \in 2..Len(todo[t]) /\ i + 1 \in 1..Len(todo[t])
                 /\ Tail(todo[t])[i] = todo[t][i - (-1)] /\ Tail(todo[t])[i] = todo[t][i + 1]
           /\ \A k \in 2..Len(todo[t]) :
                 k + (-1) \in 1..Len(Tail(todo[t])) /\ Tail(todo[t])[k + (-1)] = todo[t][k]
           /\ Shifted(t, Tail(todo[t]), -1)
<1>1. todo[t] \in Seq(EffectType)
  BY DEF TypeOK
<1>2. Head(todo[t]) = todo[t][1]
  BY <1>1
<1>3. Len(todo[t]) \in Nat \ {0} /\ 1 \in 1..Len(todo[t])
  BY <1>1
<1>4. todo[t][1] \in EffectType
  BY <1>1, <1>3
<1>5. /\ Tail(todo[t]) \in Seq(EffectType) /\ Len(Tail(todo[t])) = Len(todo[t]) - 1
      /\ \A i \in 1 .. Len(Tail(todo[t])) : Tail(todo[t])[i] = todo[t][i + 1]
  BY <1>1, HeadTailProperties
<1> DEFINE z == Tail(todo[t])
           m == Len(todo[t])
<1> HIDE DEF z, m
<1>6. m \in Nat /\ Len(z) = m - 1 /\ \A i \in 1..Len(z) : z[i] = todo[t][i + 1]
  BY <1>3, <1>5 DEF z, m
<1>7. ASSUME NEW i \in 1..Len(z)
      PROVE  i - (-1) \in 2..m /\ i + 1 \in 1..m /\ z[i] = todo[t][i - (-1)] /\ z[i] = todo[t][i + 1]
  <2>1. i - (-1) = i + 1 /\ i + 1 \in 2..m /\ i + 1 \in 1..m
    BY <1>6
  <2> QED
    BY <1>6, <2>1
<1>8. ASSUME NEW k \in 2..m PROVE k + (-1) \in 1..Len(z) /\ z[k + (-1)] = todo[t][k]
  <2>1. k + (-1) \in 1..Len(z) /\ (k + (-1)) + 1 = k
    BY <1>6
  <2> QED
    BY <1>6, <2>1
<1>9. Shifted(t, z, -1)
  BY <1>7, <1>8 DEF Shifted, m
<1> QED
  BY <1>2, <1>3, <1>4, <1>5, <1>7, <1>8, <1>9 DEF z, m

\* The invariant after an effect, from what it did to each session.
LEMMA EffectInvariant ==
    ASSUME IInv, NEW t \in Thread, NEW c \in Seq(EffectType), todo' = [todo EXCEPT ![t] = c],
           UNCHANGED <<state, known, born, fault, laneVars, step, serverVars, procVars, ptyVars>>,
           OtherTypes', rec' \in [Session -> RecordType],
           \A i \in 1..Len(c) : c[i].do = "publish" =>
              \E k \in 1..Len(todo[t]) : c[i] = todo[t][k],
           \A y \in Session : Control(y)' /\ FreshFits(y)' /\ Told(y)' /\ OutputFits(y)'
    PROVE  IInv'
<1>0. /\ state' = state /\ known' = known /\ born' = born /\ fault' = fault /\ lane' = lane
      /\ step' = step /\ target' = target
  BY DEF laneVars, serverVars
<1>1. TypeOK /\ LaneTypes /\ ~fault /\ Retained /\ EffectFits
  BY DEF IInv
<1>2. todo' \in [Thread -> Seq(EffectType)]
  <2>1. todo \in [Thread -> Seq(EffectType)]
    BY <1>1 DEF TypeOK
  <2> QED
    BY <2>1
<1>3. /\ state' \in [Session -> States \union {"none"}] /\ known' \subseteq Session
      /\ born' \in [Session -> Nat] /\ fault' \in BOOLEAN
  BY <1>0, <1>1 DEF TypeOK
<1>4. TypeOK'
  BY <1>2, <1>3 DEF TypeOK, OtherTypes, Pcs
<1>5. Retained'
  BY <1>0, <1>1 DEF Retained
<1>6. EffectFits'
  <2>1. todo'[t] = c /\ \A u \in Thread \ {t} : todo'[u] = todo[u]
    BY <1>1 DEF TypeOK
  <2>2. ASSUME NEW u \in Thread, NEW i \in 1..Len(todo'[u]), todo'[u][i].do = "publish"
        PROVE  todo'[u][i].what \in Kinds
    <3>1. CASE u = t
      <4>1. PICK k \in 1..Len(todo[t]) : c[i] = todo[t][k]
        BY <2>1, <2>2, <3>1
      <4> QED
        BY <1>1, <2>1, <2>2, <3>1, <4>1 DEF EffectFits
    <3>2. CASE u # t
      BY <1>1, <2>1, <2>2, <3>2 DEF EffectFits
    <3> QED
      BY <3>1, <3>2
  <2>3. step'[Selector] \in {"submitStart", "submitClose"} => target'[Selector] \in Session
    BY <1>0, <1>1 DEF EffectFits
  <2> QED
    BY <2>2, <2>3 DEF EffectFits
<1>7. LaneTypes'
  BY DEF OtherTypes
<1> QED
  BY <1>0, <1>1, <1>4, <1>5, <1>6, <1>7 DEF IInv

\* An effect that adds nothing to the queue: it loses its head.
LEMMA DrainInvariant ==
    ASSUME IInv, NEW t \in Thread, todo[t] # <<>>, Rest(t),
           UNCHANGED <<recordVars, laneVars, step, serverVars, procVars, ptyVars,
                       decisive, inflight>>,
           OtherTypes', \A y \in Session : grace'[y] \in {grace[y], "off"},
           \A y \in Session : todo[t][1].do = "flush" /\ todo[t][1].session = y => state[y] # "running",
           \A y \in Session : Heard(todo[t][1], y) /\ Seen(todo[t][1], y)
    PROVE  IInv'
<1> DEFINE c == Tail(todo[t])
<1>0. /\ state' = state /\ rec' = rec /\ known' = known /\ born' = born /\ fault' = fault
      /\ lane' = lane /\ target' = target /\ toReject' = toReject
      /\ notified' = notified /\ chunks' = chunks
  BY DEF recordVars, laneVars, serverVars, procVars, ptyVars
<1>1. TypeOK
  BY DEF IInv
<1>2. todo' = [todo EXCEPT ![t] = c]
  BY DEF Rest
<1>3. /\ c \in Seq(EffectType)
      /\ Len(todo[t]) \in Nat \ {0} /\ Len(c) = Len(todo[t]) - 1
      /\ \A i \in 1..Len(c) :
            /\ i - (-1) \in 2..Len(todo[t]) /\ i + 1 \in 1..Len(todo[t])
            /\ c[i] = todo[t][i - (-1)] /\ c[i] = todo[t][i + 1]
      /\ \A k \in 2..Len(todo[t]) : k + (-1) \in 1..Len(c) /\ c[k + (-1)] = todo[t][k]
      /\ Shifted(t, c, -1)
  BY <1>1, Drained
<1>4. -1 \in Int
  OBVIOUS
<1> HIDE DEF c
<1>5. ASSUME NEW y \in Session PROVE Control(y)' /\ FreshFits(y)' /\ Told(y)' /\ OutputFits(y)'
  <2>0. Control(y) /\ FreshFits(y) /\ Told(y) /\ OutputFits(y) /\ Heard(todo[t][1], y)
    BY DEF IInv
  <2>1. Control(y)'
    <3>1. UNCHANGED <<state, known, laneVars, step, serverVars, procVars, ptyVars>>
          /\ decisive' = decisive /\ inflight' = inflight /\ grace'[y] \in {grace[y], "off"}
      BY <1>0
    <3>2. todo'[Timer(y)] # <<>> => todo[Timer(y)] # <<>>
      BY <1>1, <1>2, ThreadFacts DEF TypeOK
    <3> QED
      BY <1>0, <2>0, <3>1, <3>2, EffectControl
  <2>2. FreshFits(y)'
    <3>1. \A i \in 1..Len(c) : c[i].session = y => \E k \in 1..Len(todo[t]) : todo[t][k].session = y
      BY <1>3, ZenonT(30)
    <3>2. Len(c) = Len(todo[t]) - 1 /\ \A i \in 1..Len(c) : c[i] = todo[t][i + 1]
      BY <1>3
    <3>3. step' = step /\ rec'[y].started = rec[y].started
      BY <1>0
    <3> QED
      BY <1>0, <1>1, <1>2, <2>0, <3>1, <3>2, <3>3, FreshShift
  <2>3. Told(y)'
    BY <1>0, <1>1, <1>2, <1>3, <1>4, <2>0, ToldShift
  <2>4. OutputFits(y)'
    <3>1. OutputShifted(t, c, -1, y)
      BY <1>3 DEF OutputShifted
    <3>2. Seen(todo[t][1], y) /\ Shifted(t, c, -1)
      BY <1>3
    <3>3. todo[t][1].do = "flush" /\ todo[t][1].session = y => state[y] # "running"
      OBVIOUS
    <3>4. chunks'[y] = chunks[y] /\ state'[y] = state[y] /\ rec'[y].deferred = rec[y].deferred
      BY <1>0
    <3> QED
      BY <1>1, <1>2, <1>4, <2>0, <3>1, <3>2, <3>3, <3>4, OutputShift
  <2> QED
    BY <2>1, <2>2, <2>3, <2>4
<1>6. \A i \in 1..Len(c) : c[i].do = "publish" => \E k \in 1..Len(todo[t]) : c[i] = todo[t][k]
  BY <1>3
<1>7. rec' \in [Session -> RecordType]
  BY <1>0, <1>1 DEF TypeOK
<1>8. UNCHANGED <<state, known, born, fault, laneVars, step, serverVars, procVars, ptyVars>>
  BY <1>0
<1> QED
  BY <1>2, <1>3, <1>5, <1>6, <1>7, <1>8, EffectInvariant

\* The types after an effect, from those of the variables it may change.
LEMMA EffectTypes ==
    ASSUME IInv, UNCHANGED <<laneVars, step, serverVars, procVars, ptyVars, decisive, inflight>>,
           lease' \in [Session -> {"none", "subscribed", "engaged", "orphan"}],
           grace' \in [Session -> {"off", "armed", "fired"}],
           told' \in [Session -> [Kinds -> Nat]], delivered' \in [Session -> Seq(Nat)]
    PROVE  OtherTypes'
<1>1. /\ lane' = lane /\ busy' = busy /\ step' = step
      /\ target' = target /\ toReject' = toReject /\ toClose' = toClose /\ closes' = closes
      /\ proc' = proc /\ exitCode' = exitCode /\ notified' = notified
      /\ evidence' = evidence /\ chunks' = chunks /\ decisive' = decisive /\ inflight' = inflight
  BY DEF laneVars, serverVars, procVars, ptyVars
<1>2. OtherTypes
  BY DEF IInv, TypeOK, OtherTypes, Pcs
<1>3. LaneTypes'
  BY <1>1, <1>2 DEF OtherTypes, LaneTypes
<1> QED
  BY <1>1, <1>2, <1>3 DEF OtherTypes

\* publisher.publish tells the subscribers of an event.
LEMMA DoPublishStep ==
    ASSUME IInv, NEW t \in Thread, DoPublish(t) PROVE IInv'
<1>1. TypeOK /\ EffectFits /\ todo[t] # <<>>
  BY DEF IInv, DoPublish
<1>2. todo[t][1] \in EffectType /\ Head(todo[t]) = todo[t][1] /\ 1 \in 1..Len(todo[t])
  BY <1>1, Drained
<1>3. PICK e \in EffectType : e = todo[t][1]
  BY <1>2
<1>4. /\ e.do = "publish" /\ Rest(t)
      /\ told' = IF step[Closer] = "returned" THEN told
                 ELSE [told EXCEPT ![e.session][e.what] = @ + 1]
      /\ UNCHANGED <<recordVars, laneVars, step, serverVars, procVars, ptyVars, diagVars, delivered>>
  BY <1>2, <1>3 DEF DoPublish
<1>5. e.what \in Kinds
  BY <1>1, <1>2, <1>3, <1>4 DEF EffectFits
<1>6. e.session \in Session
  BY DEF EffectType
<1>7. /\ told \in [Session -> [Kinds -> Nat]] /\ delivered \in [Session -> Seq(Nat)]
      /\ lease \in [Session -> {"none", "subscribed", "engaged", "orphan"}]
      /\ grace \in [Session -> {"off", "armed", "fired"}]
  BY <1>1 DEF TypeOK
<1>8. told' \in [Session -> [Kinds -> Nat]]
  <2>1. CASE step[Closer] = "returned"
    BY <1>4, <1>7, <2>1
  <2>2. CASE step[Closer] # "returned"
    <3>1. told' = [told EXCEPT ![e.session][e.what] = @ + 1]
      BY <1>4, <2>2
    <3>2. told[e.session] \in [Kinds -> Nat]
      BY <1>6, <1>7
    <3>3. [told[e.session] EXCEPT ![e.what] = @ + 1] \in [Kinds -> Nat]
      BY <1>5, <3>2
    <3> QED
      BY <1>6, <1>7, <3>1, <3>3
  <2> QED
    BY <2>1, <2>2
<1>9. delivered' = delivered /\ lease' = lease /\ grace' = grace
      /\ decisive' = decisive /\ inflight' = inflight
  BY <1>4 DEF diagVars
<1>10. OtherTypes'
  BY <1>4, <1>7, <1>8, <1>9, EffectTypes
<1>11. ASSUME NEW y \in Session PROVE Heard(e, y) /\ Seen(e, y)
  <2>1. \A n \in Nat : ~Sends(e, y, n)
    BY <1>4 DEF Sends
  <2>2. Seen(e, y)
    BY <1>9, <2>1 DEF Seen
  <2>3. ASSUME NEW kind \in Kinds
        PROVE  /\ told'[y][kind] = told[y][kind]
                  \/ (Says(e, y, kind) /\ told'[y][kind] = told[y][kind] + 1)
               /\ Says(e, y, kind) /\ ~Returned => told'[y][kind] = told[y][kind] + 1
    <3>1. CASE step[Closer] = "returned"
      BY <1>4, <3>1 DEF Returned
    <3>2. CASE step[Closer] # "returned"
      <4>1. told' = [told EXCEPT ![e.session][e.what] = @ + 1]
        BY <1>4, <3>2
      <4>2. Says(e, y, kind) <=> e.session = y /\ e.what = kind
        BY <1>4 DEF Says
      <4>3. CASE e.session = y
        <5>1. told'[y] = [told[y] EXCEPT ![e.what] = @ + 1] /\ told[y] \in [Kinds -> Nat]
          BY <1>6, <1>7, <4>1, <4>3
        <5>2. told'[y][kind] = IF kind = e.what THEN told[y][kind] + 1 ELSE told[y][kind]
          BY <1>5, <5>1
        <5> QED
          BY <4>2, <4>3, <5>2
      <4>4. CASE e.session # y
        <5>1. told'[y] = told[y]
          BY <1>6, <1>7, <4>1, <4>4
        <5> QED
          BY <4>2, <4>4, <5>1
      <4> QED
        BY <4>3, <4>4
    <3> QED
      BY <3>1, <3>2
  <2> QED
    BY <2>2, <2>3 DEF Heard
<1>12. /\ \A y \in Session : Heard(todo[t][1], y) /\ Seen(todo[t][1], y)
       /\ \A y \in Session : todo[t][1].do = "flush" /\ todo[t][1].session = y => state[y] # "running"
       /\ \A y \in Session : grace'[y] \in {grace[y], "off"}
  BY <1>3, <1>4, <1>9, <1>11
<1>13. UNCHANGED <<recordVars, laneVars, step, serverVars, procVars, ptyVars, decisive, inflight>>
  BY <1>4, <1>9
<1> QED
  BY <1>1, <1>4, <1>10, <1>12, <1>13, DrainInvariant

\* Effects that publish nothing leave what was told alone.
LEMMA HeardNothing ==
    ASSUME NEW e, e.do # "publish", told' = told
    PROVE  \A y \in Session : Heard(e, y)
  BY DEF Heard, Says

\* A terminal callback gets its chunk.
LEMMA DoOutputStep ==
    ASSUME IInv, NEW t \in Thread, DoOutput(t) PROVE IInv'
<1>1. TypeOK /\ todo[t] # <<>>
  BY DEF IInv, DoOutput
<1>2. todo[t][1] \in EffectType /\ Head(todo[t]) = todo[t][1]
  BY <1>1, Drained
<1>3. PICK e \in EffectType : e = todo[t][1]
  BY <1>2
<1>4. /\ e.do = "output" /\ Rest(t)
      /\ delivered' = [delivered EXCEPT ![e.session] = Append(@, e.chunk)]
      /\ UNCHANGED <<recordVars, laneVars, step, serverVars, procVars, ptyVars, diagVars, told>>
  BY <1>2, <1>3 DEF DoOutput
<1>5. e.session \in Session /\ e.chunk \in Nat
  BY DEF EffectType
<1>6. /\ told \in [Session -> [Kinds -> Nat]] /\ delivered \in [Session -> Seq(Nat)]
      /\ lease \in [Session -> {"none", "subscribed", "engaged", "orphan"}]
      /\ grace \in [Session -> {"off", "armed", "fired"}]
  BY <1>1 DEF TypeOK
<1>7. delivered' \in [Session -> Seq(Nat)]
  <2>1. Append(delivered[e.session], e.chunk) \in Seq(Nat)
    BY <1>5, <1>6, AppendProperties
  <2> QED
    BY <1>4, <1>6, <2>1
<1>8. told' = told /\ lease' = lease /\ grace' = grace /\ decisive' = decisive /\ inflight' = inflight
  BY <1>4 DEF diagVars
<1>9. OtherTypes'
  BY <1>4, <1>6, <1>7, <1>8, EffectTypes
<1>10. ASSUME NEW y \in Session PROVE Seen(e, y)
  <2>1. CASE e.session = y
    <3>1. Sends(e, y, e.chunk) /\ delivered'[y] = Append(delivered[y], e.chunk)
      BY <1>4, <1>6, <2>1 DEF Sends
    <3> QED
      BY <1>5, <3>1 DEF Seen
  <2>2. CASE e.session # y
    <3>1. delivered'[y] = delivered[y] /\ \A n \in Nat : ~Sends(e, y, n)
      BY <1>4, <1>6, <2>2 DEF Sends
    <3> QED
      BY <3>1 DEF Seen
  <2> QED
    BY <2>1, <2>2
<1>11. \A y \in Session : Heard(e, y)
  BY <1>4, <1>8, HeardNothing
<1>12. /\ \A y \in Session : Heard(todo[t][1], y) /\ Seen(todo[t][1], y)
       /\ \A y \in Session : todo[t][1].do = "flush" /\ todo[t][1].session = y => state[y] # "running"
       /\ \A y \in Session : grace'[y] \in {grace[y], "off"}
  BY <1>3, <1>4, <1>8, <1>10, <1>11
<1>13. UNCHANGED <<recordVars, laneVars, step, serverVars, procVars, ptyVars, decisive, inflight>>
  BY <1>4, <1>8
<1> QED
  BY <1>1, <1>4, <1>9, <1>12, <1>13, DrainInvariant

\* readiness.finish releases the lease and its timer.
LEMMA DoFinishStep ==
    ASSUME IInv, NEW t \in Thread, DoFinish(t) PROVE IInv'
<1>1. TypeOK /\ todo[t] # <<>>
  BY DEF IInv, DoFinish
<1>2. todo[t][1] \in EffectType /\ Head(todo[t]) = todo[t][1]
  BY <1>1, Drained
<1>3. PICK e \in EffectType : e = todo[t][1]
  BY <1>2
<1>4. /\ e.do = "finish" /\ Rest(t)
      /\ lease' = [lease EXCEPT ![e.session] = "none"]
      /\ grace' = [grace EXCEPT ![e.session] = IF @ = "armed" THEN "off" ELSE @]
      /\ UNCHANGED <<recordVars, laneVars, step, serverVars, procVars, ptyVars,
                     decisive, inflight, toldVars>>
  BY <1>2, <1>3 DEF DoFinish
<1>5. /\ told \in [Session -> [Kinds -> Nat]] /\ delivered \in [Session -> Seq(Nat)]
      /\ lease \in [Session -> {"none", "subscribed", "engaged", "orphan"}]
      /\ grace \in [Session -> {"off", "armed", "fired"}]
  BY <1>1 DEF TypeOK
<1>6. told' = told /\ delivered' = delivered
  BY <1>4 DEF toldVars
<1>7. lease' \in [Session -> {"none", "subscribed", "engaged", "orphan"}]
  BY <1>4, <1>5
<1>8. grace' \in [Session -> {"off", "armed", "fired"}]
      /\ \A y \in Session : grace'[y] \in {grace[y], "off"}
  BY <1>4, <1>5
<1>9. OtherTypes'
  BY <1>4, <1>5, <1>6, <1>7, <1>8, EffectTypes
<1>10. ASSUME NEW y \in Session PROVE Seen(e, y)
  BY <1>4, <1>6 DEF Seen, Sends
<1>11. \A y \in Session : Heard(e, y)
  BY <1>4, <1>6, HeardNothing
<1>12. /\ \A y \in Session : Heard(todo[t][1], y) /\ Seen(todo[t][1], y)
       /\ \A y \in Session : todo[t][1].do = "flush" /\ todo[t][1].session = y => state[y] # "running"
  BY <1>3, <1>4, <1>10, <1>11
<1> QED
  BY <1>1, <1>4, <1>8, <1>9, <1>12, DrainInvariant

\* What the flush of session s by thread t does.
Flushed(t, s) ==
    /\ rec' = [rec EXCEPT ![s].deferred = <<>>]
    /\ todo' = [todo EXCEPT ![t] = DeferredOutputs(s, rec[s].deferred) \o Tail(todo[t])]

\* _flush_deferred_output dispatches what was held back while the session
\* was STARTING.
LEMMA FlushStep ==
    ASSUME IInv, NEW t \in Thread, NEW s \in Session, todo[t] # <<>>,
           todo[t][1].do = "flush", todo[t][1].session = s, state[s] = "running", ~Cleared,
           Flushed(t, s),
           UNCHANGED <<state, known, born, fault, laneVars, step, serverVars, procVars,
                       ptyVars, diagVars, toldVars>>
    PROVE  IInv'
<1> DEFINE z == Tail(todo[t])
<1>1. TypeOK /\ rec \in [Session -> RecordType] /\ rec[s] \in RecordType
  BY DEF IInv, TypeOK
<1>2. PICK d \in Seq(Nat) : d = rec[s].deferred
  BY <1>1 DEF RecordType
<1>3. PICK p \in Seq(EffectType) : p = DeferredOutputs(s, d)
  BY DeferredList
<1>4. /\ Len(p) = Len(d) /\ Len(d) \in Nat
      /\ \A i \in 1..Len(d) : p[i].do = "output" /\ p[i].session = s /\ p[i].chunk = d[i]
  BY <1>3, DeferredList
<1>5. /\ z \in Seq(EffectType)
      /\ Len(todo[t]) \in Nat \ {0} /\ Len(z) = Len(todo[t]) - 1
      /\ \A i \in 1..Len(z) : i + 1 \in 1..Len(todo[t]) /\ z[i] = todo[t][i + 1]
  BY <1>1, Drained
<1> HIDE DEF z
<1>6. PICK c \in Seq(EffectType) : c = p \o z
  BY <1>5, CatFacts
<1>7. /\ Len(c) = Len(d) + Len(z)
      /\ \A i \in 1..Len(d) : i \in 1..Len(c) /\ c[i] = p[i]
      /\ \A i \in 1..Len(z) : c[Len(d) + i] = z[i]
      /\ \A i \in 1..Len(c) : i \in 1..Len(d) \/ \E j \in 1..Len(z) : i = Len(d) + j
  <2>1. /\ Len(c) = Len(p) + Len(z) /\ Len(z) \in Nat
        /\ \A i \in 1..Len(p) : c[i] = p[i]
        /\ \A i \in 1..Len(z) : c[Len(p) + i] = z[i]
        /\ \A i \in 1..Len(c) : i \in 1..Len(p) \/ \E j \in 1..Len(z) : i = Len(p) + j
    <3>1. z \in Seq(EffectType)
      BY <1>5
    <3> QED
      BY <1>6, <3>1, CatFacts
  <2>2. \A i \in 1..Len(d) : i \in 1..Len(c)
    BY <1>4, <2>1
  <2> QED
    BY <1>4, <2>1, <2>2
<1>8. PICK off \in Int : off = Len(d) - 1
  BY <1>4
<1>9. ASSUME NEW i \in 1..Len(c)
      PROVE  \/ i \in 1..Len(d) /\ c[i].do = "output" /\ c[i].session = s /\ c[i].chunk = d[i]
             \/ i - off \in 2..Len(todo[t]) /\ c[i] = todo[t][i - off]
  <2>1. CASE i \in 1..Len(d)
    BY <1>4, <1>7, <2>1
  <2>2. ASSUME NEW j \in 1..Len(z), i = Len(d) + j
        PROVE  i - off \in 2..Len(todo[t]) /\ c[i] = todo[t][i - off]
    <3>1. i - off = j + 1 /\ j + 1 \in 2..Len(todo[t])
      BY <1>4, <1>5, <1>8, <2>2
    <3>2. c[i] = todo[t][j + 1]
      BY <1>5, <1>7, <2>2
    <3> QED
      BY <3>1, <3>2
  <2> QED
    BY <1>7, <2>1, <2>2
<1>10. ASSUME NEW k \in 2..Len(todo[t]) PROVE k + off \in 1..Len(c) /\ c[k + off] = todo[t][k]
  <2>1. PICK j \in 1..Len(z) : j = k - 1
    BY <1>5
  <2>2. k + off = Len(d) + j /\ j + 1 = k /\ Len(d) + j \in 1..Len(c)
    <3>1. Len(c) = Len(d) + Len(z) /\ Len(d) \in Nat /\ Len(z) \in Nat
      BY <1>4, <1>5, <1>7
    <3>2. Len(d) + j \in 1..Len(c)
      BY <3>1
    <3>3. PICK a \in Nat : a = Len(d)
      BY <3>1
    <3>4. k \in Int /\ j = k - 1 /\ off = a - 1
      BY <1>8, <2>1, <3>3
    <3>5. k + off = a + j /\ j + 1 = k
      BY <3>4
    <3> QED
      BY <3>2, <3>3, <3>5
  <2> QED
    BY <1>5, <1>7, <2>2
<1>11. Shifted(t, c, off)
  <2>1. \A i \in 1..Len(c) : c[i].do = "publish" =>
           i - off \in 2..Len(todo[t]) /\ c[i] = todo[t][i - off]
    BY <1>9
  <2> QED
    BY <1>10, <2>1 DEF Shifted
<1>12. todo' = [todo EXCEPT ![t] = c]
  BY <1>2, <1>3, <1>6 DEF z, Flushed
<1>13. /\ state' = state /\ step' = step /\ lane' = lane /\ target' = target
       /\ toReject' = toReject /\ notified' = notified /\ chunks' = chunks
       /\ decisive' = decisive /\ inflight' = inflight /\ grace' = grace /\ lease' = lease
       /\ told' = told /\ delivered' = delivered
  BY DEF laneVars, serverVars, procVars, ptyVars, diagVars, toldVars
<1>14. /\ \A y \in Session : rec'[y].started = rec[y].started
       /\ \A y \in Session \ {s} : rec'[y] = rec[y]
       /\ rec'[s].deferred = <<>> /\ rec'[s] \in RecordType
  <2>1. rec'[s] = [rec[s] EXCEPT !.deferred = <<>>]
    BY <1>1 DEF Flushed
  <2>2. rec'[s].deferred = <<>> /\ rec'[s].started = rec[s].started
    BY <1>1, <2>1 DEF RecordType
  <2>3. <<>> \in Seq(Nat)
    OBVIOUS
  <2>4. rec'[s] \in RecordType
    BY <1>1, <2>1, <2>3, ZenonT(30) DEF RecordType
  <2>5. \A y \in Session \ {s} : rec'[y] = rec[y]
    BY <1>1 DEF Flushed
  <2> QED
    BY <2>2, <2>4, <2>5
<1>15. rec' \in [Session -> RecordType]
  <2>1. PICK r \in RecordType : r = rec'[s]
    BY <1>14
  <2>2. rec' = [rec EXCEPT ![s] = r]
    BY <1>1, <2>1 DEF Flushed
  <2> QED
    BY <1>1, <2>2
<1>16. OutputFits(s)'
  <2>1. PICK m \in Int : m = 0
    OBVIOUS
  <2>2. ASSUME NEW i \in 1..Len(c), NEW n \in Nat, Sends(c[i], s, n)
        PROVE  \/ \E k \in 1..Len(d) : i = m + k /\ n = d[k]
               \/ i - off \in 1..Len(todo[t]) /\ c[i] = todo[t][i - off]
    <3>1. CASE i \in 1..Len(d) /\ c[i].do = "output" /\ c[i].session = s /\ c[i].chunk = d[i]
      <4>1. i = m + i /\ n = d[i]
        BY <2>1, <2>2, <3>1 DEF Sends
      <4> QED
        BY <3>1, <4>1
    <3>2. CASE i - off \in 2..Len(todo[t]) /\ c[i] = todo[t][i - off]
      BY <1>5, <3>2
    <3> QED
      BY <1>9, <3>1, <3>2
  <2>3. ASSUME NEW k \in 1..Len(d) PROVE m + k \in 1..Len(c) /\ Sends(c[m + k], s, d[k])
    <3>1. m + k = k /\ k \in 1..Len(c)
      BY <1>7, <2>1
    <3>2. c[m + k] = p[k]
      BY <1>7, <3>1
    <3>3. Sends(p[k], s, d[k])
      BY <1>4 DEF Sends
    <3> QED
      BY <3>1, <3>2, <3>3
  <2>4. ASSUME NEW k \in 1..Len(todo[t]), NEW n \in Nat, Sends(todo[t][k], s, n)
        PROVE  k + off \in 1..Len(c) /\ c[k + off] = todo[t][k]
    <3>1. k # 1
      BY <2>4 DEF Sends
    <3>2. k \in 2..Len(todo[t])
      BY <1>5, <3>1
    <3> QED
      BY <1>10, <3>2
  <2>5. d = rec[s].deferred /\ rec'[s].deferred = <<>> /\ delivered'[s] = delivered[s]
        /\ chunks'[s] = chunks[s]
    BY <1>2, <1>13, <1>14
  <2>6. state'[s] \in {"starting", "running"} => state[s] \in {"starting", "running"}
    BY <1>13
  <2>7. OutputFits(s)
    BY DEF IInv
  <2>8. \A i \in 1..Len(c) : \A n \in Nat : Sends(c[i], s, n) =>
           \/ \E k \in 1..Len(d) : i = m + k /\ n = d[k]
           \/ i - off \in 1..Len(todo[t]) /\ c[i] = todo[t][i - off]
    BY <2>2
  <2>9. \A k \in 1..Len(d) : m + k \in 1..Len(c) /\ Sends(c[m + k], s, d[k])
    BY <2>3
  <2>10. \A k \in 1..Len(todo[t]) : \A n \in Nat : Sends(todo[t][k], s, n) =>
            k + off \in 1..Len(c) /\ c[k + off] = todo[t][k]
    BY <2>4
  <2>11. TypeOK /\ todo' = [todo EXCEPT ![t] = c]
    BY <1>1, <1>12
  <2>12. Released(t, s, c, d, m, off)
    BY <2>8, <2>9, <2>10 DEF Released
  <2> QED
    BY <2>5, <2>6, <2>7, <2>11, <2>12, OutputReleased
<1>17. ASSUME NEW y \in Session PROVE Control(y)' /\ FreshFits(y)' /\ Told(y)' /\ OutputFits(y)'
  <2>0. Control(y) /\ FreshFits(y) /\ Told(y) /\ OutputFits(y)
    BY DEF IInv
  <2>1. Control(y)'
    <3>1. UNCHANGED <<state, known, laneVars, step, serverVars, procVars, ptyVars>>
          /\ decisive' = decisive /\ inflight' = inflight /\ grace'[y] \in {grace[y], "off"}
      BY <1>13
    <3>2. todo'[Timer(y)] # <<>> => todo[Timer(y)] # <<>>
      BY <1>1, <1>12, ThreadFacts DEF TypeOK
    <3>3. rec' = [rec EXCEPT ![s].deferred = <<>>] /\ rec \in [Session -> RecordType]
      BY <1>1 DEF Flushed
    <3> QED
      BY <2>0, <3>1, <3>2, <3>3, EffectControl
  <2>2. Heard(todo[t][1], y) /\ todo[t][1].do # "publish"
    BY <1>13, HeardNothing
  <2>3. FreshFits(y)'
    <3>1. ASSUME NEW i \in 1..Len(c), c[i].session = y
          PROVE  \E k \in 1..Len(todo[t]) : todo[t][k].session = y
      <4>1. 1 \in 1..Len(todo[t]) /\ \A k \in 2..Len(todo[t]) : k \in 1..Len(todo[t])
        BY <1>5
      <4>2. CASE i - off \in 2..Len(todo[t]) /\ c[i] = todo[t][i - off]
        BY <3>1, <4>1, <4>2
      <4>3. CASE i \in 1..Len(d) /\ c[i].do = "output" /\ c[i].session = s /\ c[i].chunk = d[i]
        BY <3>1, <4>1, <4>3
      <4> QED
        BY <1>9, <4>2, <4>3
    <3>2. rec'[y].started = rec[y].started
      BY <1>14
    <3>3. todo[t][1].do = "publish" =>
             Len(c) = Len(todo[t]) - 1 /\ \A i \in 1..Len(c) : c[i] = todo[t][i + 1]
      BY <2>2
    <3> QED
      BY <1>1, <1>12, <1>13, <2>0, <2>2, <3>1, <3>2, <3>3, FreshShift
  <2>4. Told(y)'
    <3>1. state'[y] = state[y] /\ notified'[y] = notified[y] /\ step' = step
      BY <1>13
    <3> QED
      BY <1>1, <1>11, <1>12, <2>0, <2>2, <3>1, ToldShift
  <2>5. CASE y # s
    <3>1. OutputShifted(t, c, off, y)
      BY <1>9, <2>5 DEF OutputShifted, Sends
    <3>2. Seen(todo[t][1], y)
      BY <1>13 DEF Seen, Sends
    <3>3. todo[t][1].do = "flush" /\ todo[t][1].session = y => state[y] # "running"
      BY <2>5
    <3>4. chunks'[y] = chunks[y] /\ state'[y] = state[y] /\ rec'[y].deferred = rec[y].deferred
      BY <1>13, <1>14, <2>5
    <3>5. OutputFits(y)'
      BY <1>1, <1>11, <1>12, <2>0, <3>1, <3>2, <3>3, <3>4, OutputShift
    <3> QED
      BY <2>1, <2>3, <2>4, <3>5
  <2>6. CASE y = s
    <3>1. OutputFits(s)'
      BY <1>16
    <3> QED
      BY <2>1, <2>3, <2>4, <2>6, <3>1
  <2> QED
    BY <2>5, <2>6
<1>18. \A i \in 1..Len(c) : c[i].do = "publish" => \E k \in 1..Len(todo[t]) : c[i] = todo[t][k]
  <2>1. \A k \in 2..Len(todo[t]) : k \in 1..Len(todo[t])
    BY <1>5
  <2> QED
    BY <1>9, <2>1
<1>19. OtherTypes'
  <2>1. /\ told \in [Session -> [Kinds -> Nat]] /\ delivered \in [Session -> Seq(Nat)]
        /\ lease \in [Session -> {"none", "subscribed", "engaged", "orphan"}]
        /\ grace \in [Session -> {"off", "armed", "fired"}]
    BY <1>1 DEF TypeOK
  <2> QED
    BY <1>13, <2>1, EffectTypes
<1> QED
  BY <1>12, <1>15, <1>17, <1>18, <1>19, EffectInvariant

\* The flush is a critical section of its own, about a session that may have
\* left RUNNING since it was owed.
LEMMA DoFlushStep ==
    ASSUME IInv, NEW t \in Thread, DoFlush(t) PROVE IInv'
<1>1. TypeOK /\ todo[t] # <<>>
  BY DEF IInv, DoFlush
<1>2. todo[t][1] \in EffectType /\ Head(todo[t]) = todo[t][1]
  BY <1>1, Drained
<1>3. PICK s \in Session : s = todo[t][1].session
  BY <1>2 DEF EffectType
<1> DEFINE flushes == s \in known /\ state[s] = "running"
<1>4. /\ todo[t][1].do = "flush"
      /\ rec' = IF flushes THEN [rec EXCEPT ![s].deferred = <<>>] ELSE rec
      /\ todo' = [todo EXCEPT ![t] =
                    (IF flushes /\ ~Cleared THEN DeferredOutputs(s, rec[s].deferred) ELSE <<>>)
                        \o Tail(@)]
      /\ UNCHANGED <<state, known, born, fault, laneVars, step, serverVars, procVars,
                     ptyVars, diagVars, toldVars>>
  BY <1>2, <1>3 DEF DoFlush
<1>5. Control(s)
  BY DEF IInv
<1>6. CASE flushes
  <2>1. ~Cleared
    BY <1>5, <1>6 DEF Control, ShutFits, Cleared
  <2>2. Flushed(t, s)
    BY <1>4, <1>6, <2>1 DEF Flushed
  <2> QED
    BY <1>1, <1>3, <1>4, <1>6, <2>1, <2>2, FlushStep
<1>7. CASE ~flushes
  <2>1. state[s] # "running"
    BY <1>5, <1>7 DEF Control, StateFits
  <2>2. Tail(todo[t]) \in Seq(EffectType)
    BY <1>1, Drained
  <2>3. <<>> \o Tail(todo[t]) = Tail(todo[t])
    BY <2>2, ConcatEmptySeq
  <2>4. Rest(t) /\ rec' = rec
    BY <1>4, <1>7, <2>3 DEF Rest
  <2>5. told' = told /\ delivered' = delivered /\ lease' = lease /\ grace' = grace
        /\ decisive' = decisive /\ inflight' = inflight
    BY <1>4 DEF toldVars, diagVars
  <2>6. UNCHANGED <<recordVars, laneVars, step, serverVars, procVars, ptyVars, decisive, inflight>>
    BY <1>4, <2>4, <2>5 DEF recordVars
  <2>7. OtherTypes'
    <3>1. /\ told \in [Session -> [Kinds -> Nat]] /\ delivered \in [Session -> Seq(Nat)]
          /\ lease \in [Session -> {"none", "subscribed", "engaged", "orphan"}]
          /\ grace \in [Session -> {"off", "armed", "fired"}]
      BY <1>1 DEF TypeOK
    <3> QED
      BY <2>5, <2>6, <3>1, EffectTypes
  <2>8. ASSUME NEW y \in Session PROVE Heard(todo[t][1], y) /\ Seen(todo[t][1], y)
    <3>1. Heard(todo[t][1], y)
      BY <1>4, <2>5, HeardNothing
    <3>2. Seen(todo[t][1], y)
      BY <1>4, <2>5 DEF Seen, Sends
    <3> QED
      BY <3>1, <3>2
  <2>9. /\ \A y \in Session : todo[t][1].do = "flush" /\ todo[t][1].session = y => state[y] # "running"
        /\ \A y \in Session : grace'[y] \in {grace[y], "off"}
    BY <1>3, <2>1, <2>5
  <2> QED
    BY <1>1, <2>4, <2>6, <2>7, <2>8, <2>9, DrainInvariant
<1> QED
  BY <1>6, <1>7

\* What a thread does after its critical section.
LEMMA DoEffectStep ==
    ASSUME IInv, NEW t \in Thread, DoEffect(t) PROVE IInv'
  BY DoPublishStep, DoOutputStep, DoFinishStep, DoFlushStep DEF DoEffect

-----------------------------------------------------------------------------
(* The invariant holds initially and is kept by every step.                *)

\* The types in the initial state.
LEMMA InitTypes ==
    ASSUME Init PROVE TypeOK /\ LaneTypes
<1>1. NewRecord \in RecordType
  <2>1. <<>> \in Seq(Nat)
    OBVIOUS
  <2> QED
    BY <2>1 DEF NewRecord, RecordType
<1>2. rec \in [Session -> RecordType]
  BY <1>1 DEF Init
<1>3. /\ state \in [Session -> States \union {"none"}]
      /\ known \subseteq Session /\ born \in [Session -> Nat] /\ fault \in BOOLEAN
  BY DEF Init
<1>4. step \in [Thread -> Pcs]
  BY DEF Init, Pcs
<1>5. todo \in [Thread -> Seq(EffectType)]
  <2>1. <<>> \in Seq(EffectType)
    OBVIOUS
  <2> QED
    BY <2>1 DEF Init
<1>6. /\ target \in [{Selector, Closer} -> Session \union {NoSession}]
      /\ toReject \subseteq Session /\ toClose \subseteq Session
      /\ closes \in [Session -> Nat]
  BY DEF Init
<1>7. /\ proc \in [Session -> {"none", "alive", "signalled", "exited"}]
      /\ exitCode \in [Session -> {"none", "clean", "error", "fatal"}]
      /\ notified \in [Session -> SUBSET {"exit", "eof"}]
      /\ evidence \in [Session -> {"pending", "connected", "failed"}]
      /\ chunks \in [Session -> Nat]
  BY DEF Init
<1>8. /\ lease \in [Session -> {"none", "subscribed", "engaged", "orphan"}]
      /\ decisive \in [Session -> SUBSET {"auth", "failed"}]
      /\ inflight \in [Session -> {"none", "auth", "failed"}]
      /\ grace \in [Session -> {"off", "armed", "fired"}]
  BY DEF Init
<1>9. told \in [Session -> [Kinds -> Nat]] /\ delivered \in [Session -> Seq(Nat)]
  <2>1. <<>> \in Seq(Nat) /\ [kind \in Kinds |-> 0] \in [Kinds -> Nat]
    OBVIOUS
  <2> QED
    BY <2>1 DEF Init
<1>10. LaneTypes
  <2>1. <<>> \in Seq(Session \X {"start", "close"})
    OBVIOUS
  <2> QED
    BY <2>1 DEF Init, LaneTypes
<1>11. TypeOK
  BY <1>2, <1>3, <1>4, <1>5, <1>6, <1>7, <1>8, <1>9 DEF TypeOK, Pcs
<1> QED
  BY <1>10, <1>11

\* Initially no session is open, nothing is owed and nothing was told.
LEMMA InitInvariant ==
    ASSUME Init PROVE IInv
<1>1. TypeOK /\ LaneTypes
  BY InitTypes
<1>2. ~fault
  BY DEF Init
<1>3. Retained
  <2>1. {s \in known : state[s] = "closed"} = {}
    BY DEF Init
  <2>2. Cardinality({}) = 0 /\ 0 <= MaxRetained
    BY FS_EmptySet, RuntimeAssumption
  <2> QED
    BY <2>1, <2>2 DEF Retained
<1>4. \A t \in Thread : todo[t] = <<>> /\ Len(todo[t]) = 0 /\ 1..Len(todo[t]) = {}
  BY DEF Init
<1>5. step[Selector] = "idle" /\ step[Closer] = "serving"
      /\ \A s \in Session : step[Lane(s)] = "idle"
  BY ThreadFacts DEF Init, Lone
<1>6. EffectFits
  BY <1>4, <1>5 DEF EffectFits
<1>7. ASSUME NEW s \in Session PROVE Control(s) /\ FreshFits(s) /\ Told(s) /\ OutputFits(s)
  <2>0. /\ state[s] = "none" /\ rec[s] = NewRecord /\ known = {} /\ busy = {} /\ lane[s] = <<>>
        /\ toReject = {} /\ toClose = {} /\ proc[s] = "none" /\ notified[s] = {} /\ chunks[s] = 0
        /\ inflight[s] = "none" /\ grace[s] = "off" /\ delivered[s] = <<>>
        /\ \A kind \in Kinds : told[s][kind] = 0
    BY DEF Init
  <2>1. /\ ~rec[s].started /\ rec[s].exit = "none" /\ rec[s].result = "none"
        /\ rec[s].deferred = <<>> /\ ~rec[s].handle
    BY <2>0 DEF NewRecord
  <2>2. ~Submitting(s, "submitStart") /\ ~Submitting(s, "submitClose") /\ Timer(s) \in Thread
    BY <1>5, ThreadFacts DEF Submitting
  <2>3. target[Closer] # s
    BY RuntimeAssumption DEF Init
  <2>4. StateFits(s)
    BY <2>0 DEF StateFits
  <2>5. LaneFits(s)
    <3>1. lane[s] \in Seq({<<s, "start">>, <<s, "close">>}) /\ 1..Len(lane[s]) = {}
      BY <2>0
    <3>2. ~Unclaimed(s)
      BY <2>0 DEF Unclaimed
    <3> QED
      BY <1>5, <2>0, <2>2, <3>1, <3>2 DEF LaneFits, InLane
  <2>6. StartFits(s)
    BY <1>4, <1>5, <2>0, <2>1, <2>2 DEF StartFits
  <2>7. ChildFits(s) /\ VerdictFits(s)
    BY <2>0, <2>1 DEF ChildFits, VerdictFits
  <2>8. ShutFits(s)
    BY <1>5, <2>0, <2>3 DEF ShutFits, Serving
  <2>9. FreshFits(s)
    BY <1>4, <2>0, <2>1, <2>2 DEF FreshFits, Quiet
  <2>10. Told(s)
    <3>1. OrderFits(s)
      BY <1>4 DEF OrderFits
    <3>2. ASSUME NEW kind \in Kinds PROVE KindFits(s, kind)
      <4>1. ~Owed(s, kind)
        BY <1>4 DEF Owed
      <4> QED
        BY <1>4, <2>0, <4>1 DEF KindFits
    <3> QED
      BY <3>1, <3>2 DEF Told
  <2>11. OutputFits(s)
    <3>1. \A n \in Nat : ~Deferred(s, n) /\ ~Sending(s, n) /\ ~Delivered(s, n)
      BY <1>4, <2>0, <2>1 DEF Deferred, Sending, Delivered
    <3>2. 1..Len(rec[s].deferred) = {} /\ 1..Len(delivered[s]) = {}
      BY <2>0, <2>1
    <3> QED
      BY <1>4, <2>0, <2>1, <3>1, <3>2 DEF OutputFits
  <2> QED
    BY <2>4, <2>5, <2>6, <2>7, <2>8, <2>9, <2>10, <2>11 DEF Control
<1> QED
  BY <1>1, <1>2, <1>3, <1>6, <1>7 DEF IInv

\* The command worker that starts a session.
LEMMA StartStepStep == ASSUME IInv, NEW s \in Session, StartStep(s) PROVE IInv'
<1>1. CASE StartClaim(s) \/ StartSubscribe(s) \/ StartLaunch(s) \/ StartSpawn(s) \/ StartFailed(s)
  BY <1>1, StartClaimStep, StartSubscribeStep, StartLaunchStep, StartSpawnStep, StartFailedStep
<1>2. CASE StartEngage(s) \/ StartGate(s) \/ StartAttach(s) \/ StartReap(s) \/ StartReaped(s)
  BY <1>2, StartEngageStep, StartGateStep, StartAttachStep, StartReapStep, StartReapedStep
<1> QED
  BY <1>1, <1>2 DEF StartStep

\* The lane of a session as a whole.
LEMMA LaneStepStep == ASSUME IInv, NEW s \in Session, LaneStep(s) PROVE IInv'
<1>1. CASE LaneBegin(s) \/ LaneEnd(s) \/ StartStep(s)
  BY <1>1, LaneBeginStep, LaneEndStep, StartStepStep
<1>2. CASE CloseStep(Lane(s), s)
  <2>1. PICK t \in {Lane(s), Closer} : t = Lane(s)
    OBVIOUS
  <2>2. t = Closer => target[Closer] = s
    BY <2>1, ThreadFacts DEF Lone
  <2>3. CloseStep(t, s)
    BY <1>2, <2>1
  <2> QED
    BY <2>2, <2>3, CloseStepStep
<1> QED
  BY <1>1, <1>2 DEF LaneStep

\* The diagnostics monitor and the grace timer.
LEMMA DiagnosticsStepStep == ASSUME IInv, NEW s \in Session, DiagnosticsStep(s) PROVE IInv'
<1>1. CASE DiagnosticsParsed(s, "auth") \/ DiagnosticsParsed(s, "failed")
  BY <1>1, DiagnosticsParsedStep
<1>2. CASE DiagnosticResult(s) \/ GraceFires(s) \/ GraceExpired(s)
  BY <1>2, DiagnosticResultStep, GraceFiresStep, GraceExpiredStep
<1> QED
  BY <1>1, <1>2 DEF DiagnosticsStep

\* The child of a session, its terminal and the reaper.
LEMMA ChildStepStep == ASSUME IInv, NEW s \in Session, ChildStep(s) PROVE IInv'
<1>1. CASE \E code \in ExitCodes : ChildExits(s, code)
  BY <1>1, ChildExitsStep
<1>2. CASE \E verdict \in {"pending", "connected", "failed"} : TerminalOutput(s, verdict)
  BY <1>2, TerminalOutputStep
<1>3. CASE TerminalEof(s) \/ ReaperNotify(s)
  BY <1>3, TerminalEofStep, ReaperNotifyStep
<1> QED
  BY <1>1, <1>2, <1>3 DEF ChildStep

\* Every step of the daemon keeps the invariant.
LEMMA NextStep == ASSUME IInv, Next PROVE IInv'
<1>1. CASE SelectorStep \/ CloserStep
  BY <1>1, SelectorStepStep, CloserStepStep
<1>2. CASE \E s \in Session : LaneStep(s) \/ DiagnosticsStep(s) \/ ChildStep(s)
  BY <1>2, LaneStepStep, DiagnosticsStepStep, ChildStepStep
<1>3. CASE \E t \in Thread : DoEffect(t)
  BY <1>3, DoEffectStep
<1> QED
  BY <1>1, <1>2, <1>3 DEF Next

\* A step that changes nothing keeps the invariant.
LEMMA StutterStep == ASSUME IInv, UNCHANGED vars PROVE IInv'
<1>1. UNCHANGED <<recordVars, laneVars, step, todo, serverVars, procVars, ptyVars, diagVars, toldVars>>
  BY DEF vars
<1>2. /\ state' = state /\ rec' = rec /\ known' = known /\ born' = born /\ fault' = fault
      /\ lane' = lane /\ busy' = busy /\ step' = step /\ todo' = todo
      /\ target' = target /\ toReject' = toReject /\ toClose' = toClose /\ closes' = closes
      /\ proc' = proc /\ exitCode' = exitCode /\ notified' = notified
      /\ evidence' = evidence /\ chunks' = chunks
      /\ lease' = lease /\ decisive' = decisive /\ inflight' = inflight /\ grace' = grace
      /\ told' = told /\ delivered' = delivered
  BY <1>1 DEF recordVars, laneVars, serverVars, procVars, ptyVars, diagVars, toldVars
<1>3. OtherTypes'
  <2>1. /\ told \in [Session -> [Kinds -> Nat]] /\ delivered \in [Session -> Seq(Nat)]
        /\ lease \in [Session -> {"none", "subscribed", "engaged", "orphan"}]
        /\ grace \in [Session -> {"off", "armed", "fired"}]
    BY DEF IInv, TypeOK
  <2> QED
    BY <1>1, <1>2, <2>1, EffectTypes
<1>4. ASSUME NEW y \in Session PROVE Control(y)'
  <2>1. Control(y)
    BY DEF IInv
  <2>2. SameRecord(y) /\ SameSession(y) /\ SameServer(y) /\ todo'[Timer(y)] = todo[Timer(y)]
    BY <1>2 DEF SameRecord, SameSession, SameServer, Submitting
  <2> QED
    BY <2>1, <2>2, ControlFrame
<1>5. \A y \in Session :
         /\ Control(y)'
         /\ state[y] = "none" \/ Submitting(y, "submitStart")' => lane'[y] = lane[y]
         /\ state[y] = "none" /\ y \in toReject' => y \in toReject
         /\ state[y] = "none" /\ Submitting(y, "submitClose")' => Submitting(y, "submitClose")
         /\ Submitting(y, "submitStart")' => Submitting(y, "submitStart") /\ (Serving => Serving')
         /\ Submitting(y, "submitStart") /\ ~Submitting(y, "submitStart")' => todo[Selector] = <<>>
  BY <1>2, <1>4 DEF Submitting, Serving
<1>6. (Returned => Returned')
      /\ (step'[Selector] \in {"submitStart", "submitClose"} => target'[Selector] \in Session)
  BY <1>2 DEF Returned, IInv, EffectFits
<1>7. UNCHANGED <<recordVars, todo, toldVars, notified, chunks>>
  BY <1>1, <1>2
<1> QED
  BY <1>3, <1>5, <1>6, <1>7, PlainInvariant

\* Whatever the sessions do, in whatever order the selector, the lanes, the
\* monitor, the timers, the PTY runner and the shutdown go on, the invariant holds.
THEOREM SessionInvariant == Spec => []IInv
<1>1. Init => IInv
  BY InitInvariant
<1>2. IInv /\ [Next]_vars => IInv'
  BY NextStep, StutterStep
<1> QED
  BY <1>1, <1>2, PTL DEF Spec

-----------------------------------------------------------------------------
(* The properties of the runs.                                             *)

\* The records of the runtime are well formed, _transition_locked never raises
\* and no subscriber is told twice, for any number of sessions and closes.
THEOREM RecordsSoundAlways == Spec => []RecordsSound
<1>1. IInv => RecordsSound
  <2> SUFFICES ASSUME IInv PROVE RecordsSound
    OBVIOUS
  <2>1. ASSUME NEW s \in Session, NEW kind \in Kinds PROVE told[s][kind] <= 1
    <3>1. KindFits(s, kind)
      BY DEF IInv, Told
    <3> QED
      BY <3>1 DEF KindFits
  <2>2. TypeOK /\ ~fault
    BY DEF IInv
  <2> QED
    BY <2>1, <2>2 DEF RecordsSound, NoInvalidTransition, ToldOnce
<1> QED
  BY <1>1, SessionInvariant, PTL

\* A child that runs unsignalled is in the hands of a record, of the worker that
\* spawned it or of the shutdown: no interleaving of start, close, exit and
\* eviction lets go of it.
THEOREM NoAbandonedAlways == Spec => []NoAbandonedProcess
<1>1. IInv => NoAbandonedProcess
  BY DEF IInv, Control, ChildFits, NoAbandonedProcess
<1> QED
  BY <1>1, SessionInvariant, PTL

\* An accepted sessions.open is neither evicted nor forgotten by a refused or
\* cancelled command, and _evict_closed_locked keeps the retention bound.
THEOREM OpensKeptAlways == Spec => []OpensKept
<1>1. IInv => RetentionExact
  BY DEF IInv, Control, StateFits, Retained, RetentionExact
<1>2. IInv => NoOrphanedOpen
  <2> SUFFICES ASSUME IInv, NEW s \in Session, state[s] = "starting", ~rec[s].started
               PROVE  \/ step[Selector] = "submitStart" /\ target[Selector] = s
                      \/ \E i \in DOMAIN lane[s] : lane[s][i] = <<s, "start">>
                      \/ s \in toReject
    BY DEF NoOrphanedOpen
  <2>1. LaneFits(s) /\ lane \in [Session -> Seq(Session \X {"start", "close"})]
    BY DEF IInv, Control, LaneTypes
  <2>2. Submitting(s, "submitStart") \/ InLane(s, "start") \/ s \in toReject
    BY <2>1 DEF LaneFits, Unclaimed
  <2>3. DOMAIN lane[s] = 1..Len(lane[s])
    <3>1. lane[s] \in Seq(Session \X {"start", "close"})
      BY <2>1
    <3> QED
      BY <3>1, LenProperties
  <2> QED
    BY <2>2, <2>3 DEF Submitting, InLane
<1> QED
  BY <1>1, <1>2, RecordsSoundAlways, SessionInvariant, PTL DEF OpensKept

\* A sequence without repetitions that holds exactly 1..n has n elements.
LEMMA Permutation ==
    ASSUME NEW d \in Seq(Nat), NEW n \in Nat,
           \A i, j \in 1..Len(d) : d[i] = d[j] => i = j,
           \A i \in 1..Len(d) : d[i] \in 1..n,
           \A k \in 1..n : \E i \in 1..Len(d) : d[i] = k
    PROVE  Len(d) = n /\ {d[i] : i \in DOMAIN d} = 1..n
<1>1. Len(d) \in Nat /\ DOMAIN d = 1..Len(d)
  BY LenProperties
<1> DEFINE f == [i \in 1..Len(d) |-> d[i]]
<1>2. f \in [1..Len(d) -> 1..n] /\ (\A i \in 1..Len(d) : f[i] = d[i])
  OBVIOUS
<1>3. f \in Injection(1..Len(d), 1..n)
  BY <1>2 DEF Injection, IsInjective
<1>4. f \in Surjection(1..Len(d), 1..n)
  BY <1>2 DEF Surjection
<1>5. /\ IsFiniteSet(1..Len(d)) /\ Cardinality(1..Len(d)) = Len(d)
      /\ IsFiniteSet(1..n) /\ Cardinality(1..n) = n
  <2>1. /\ IsFiniteSet(1..Len(d))
        /\ Cardinality(1..Len(d)) = IF 1 > Len(d) THEN 0 ELSE Len(d) - 1 + 1
    BY <1>1, FS_Interval
  <2>2. IsFiniteSet(1..n) /\ Cardinality(1..n) = IF 1 > n THEN 0 ELSE n - 1 + 1
    BY FS_Interval
  <2> QED
    BY <1>1, <2>1, <2>2
<1> HIDE DEF f
<1>6. Cardinality(1..Len(d)) = Cardinality(1..n)
  BY <1>3, <1>4, <1>5, FS_Injection
<1>7. {d[i] : i \in DOMAIN d} = 1..n
  <2>1. ASSUME NEW i \in DOMAIN d PROVE d[i] \in 1..n
    BY <1>1
  <2>2. ASSUME NEW k \in 1..n PROVE k \in {d[i] : i \in DOMAIN d}
    <3>1. PICK i \in 1..Len(d) : d[i] = k
      OBVIOUS
    <3> QED
      BY <1>1, <3>1
  <2> QED
    BY <2>1, <2>2
<1> QED
  BY <1>5, <1>6, <1>7

\* Once nothing is on its way, every chunk read from the PTY of a RUNNING
\* session has reached the terminal callbacks exactly once, whoever promoted it.
THEOREM OutputCompleteAlways == Spec => []OutputComplete
<1>1. IInv => OutputComplete
  <2> SUFFICES ASSUME IInv, NEW s \in Session, state[s] = "running",
                      \A t \in Thread : \A i \in DOMAIN todo[t] :
                         todo[t][i].session = s => todo[t][i].do \notin {"output", "flush"}
               PROVE  /\ Len(delivered[s]) = chunks[s]
                      /\ {delivered[s][i] : i \in DOMAIN delivered[s]} = 1..chunks[s]
    BY DEF OutputComplete
  <2>1. /\ todo \in [Thread -> Seq(EffectType)] /\ delivered[s] \in Seq(Nat) /\ chunks[s] \in Nat
        /\ OutputFits(s) /\ rec[s] \in RecordType
    BY DEF IInv, TypeOK
  <2>2. \A t \in Thread : DOMAIN todo[t] = 1..Len(todo[t])
    BY <2>1, LenProperties
  <2>3. ~Flushing(s)
    BY <2>2 DEF Flushing
  <2>4. \A n \in Nat : ~Sending(s, n)
    BY <2>2 DEF Sending, Sends
  <2>5. rec[s].deferred = <<>>
    BY <2>1, <2>3 DEF OutputFits
  <2>6. \A n \in Nat : ~Deferred(s, n)
    <3>1. 1..Len(rec[s].deferred) = {}
      BY <2>5
    <3> QED
      BY <3>1 DEF Deferred
  <2>7. \A k \in 1..chunks[s] : \E i \in 1..Len(delivered[s]) : delivered[s][i] = k
    <3>1. \A k \in 1..chunks[s] : k \in Nat
      BY <2>1
    <3>2. \A k \in 1..chunks[s] : Delivered(s, k)
      BY <2>1, <2>4, <2>6, <3>1 DEF OutputFits
    <3> QED
      BY <3>2 DEF Delivered
  <2>8. \A i \in 1..Len(delivered[s]) : delivered[s][i] \in 1..chunks[s]
    <3>1. ASSUME NEW i \in 1..Len(delivered[s]) PROVE delivered[s][i] \in 1..chunks[s]
      <4>1. PICK n \in Nat : n = delivered[s][i]
        BY <2>1, ElementOfSeq
      <4>2. Delivered(s, n)
        BY <4>1 DEF Delivered
      <4> QED
        BY <2>1, <4>1, <4>2 DEF OutputFits
    <3> QED
      BY <3>1
  <2>9. \A i, j \in 1..Len(delivered[s]) : delivered[s][i] = delivered[s][j] => i = j
    BY <2>1 DEF OutputFits
  <2> QED
    BY <2>1, <2>7, <2>8, <2>9, Permutation
<1> QED
  BY <1>1, SessionInvariant, PTL

\* Only the publication of an event adds to what the subscribers were told.
LEMMA ToldBy ==
    ASSUME TypeOK, [Next]_vars, NEW s \in Session, NEW kind \in Kinds,
           told'[s][kind] > told[s][kind]
    PROVE  ~Returned /\ \E t \in Thread : todo[t] # <<>> /\ Says(todo[t][1], s, kind)
<1>0. told \in [Session -> [Kinds -> Nat]]
  BY DEF TypeOK
<1>1. told' # told
  <2>1. told[s][kind] \in Nat
    BY <1>0
  <2> QED
    BY <2>1
<1>2. ~(UNCHANGED vars)
  BY <1>1 DEF vars, toldVars
<1>3. ~SelectorStep
  BY <1>1 DEF SelectorStep, Open, CloseRequest, CancelStart, SubmitAccepted, SubmitStartRejected,
     SubmitCloseRejected, ServerStops, toldVars
<1>4. \A y \in Session : ~StartStep(y)
  BY <1>1 DEF StartStep, StartClaim, StartSubscribe, StartLaunch, StartSpawn, StartFailed,
     StartEngage, StartGate, StartAttach, StartReap, StartReaped, toldVars
<1>5. \A t, y : ~CloseStep(t, y)
  BY <1>1 DEF CloseStep, CloseBegin, CloseBare, CloseSignal, CloseExited, CloseTimeout, toldVars
<1>6. \A y \in Session : ~LaneStep(y)
  BY <1>1, <1>4, <1>5 DEF LaneStep, LaneBegin, LaneEnd, toldVars
<1>7. ~CloserStep
  BY <1>1, <1>5 DEF CloserStep, ShutdownBegin, ShutdownNext, ShutdownClear, RunnerCloses,
     ShutdownReturns, toldVars
<1>8. \A y \in Session : ~DiagnosticsStep(y)
  BY <1>1 DEF DiagnosticsStep, DiagnosticsParsed, DiagnosticResult, GraceFires, GraceExpired,
     toldVars
<1>9. \A y \in Session : ~ChildStep(y)
  BY <1>1 DEF ChildStep, ChildExits, TerminalOutput, TerminalEof, ReaperNotify, toldVars
<1>10. PICK t \in Thread : DoEffect(t)
  BY <1>2, <1>3, <1>6, <1>7, <1>8, <1>9 DEF Next
<1>11. DoPublish(t)
  BY <1>1, <1>10 DEF DoEffect, DoOutput, DoFinish, DoFlush, toldVars
<1>12. todo[t] # <<>>
  BY <1>11 DEF DoPublish
<1>13. todo[t][1] \in EffectType /\ Head(todo[t]) = todo[t][1]
  BY <1>12, Drained
<1>14. PICK e \in EffectType : e = todo[t][1]
  BY <1>13
<1>15. /\ e.do = "publish" /\ step[Closer] # "returned"
       /\ told' = [told EXCEPT ![e.session][e.what] = @ + 1]
  BY <1>1, <1>11, <1>13, <1>14, SMTT(30) DEF DoPublish
<1>16. e.session = s
  <2>1. e.session # s => told'[s] = told[s]
    BY <1>0, <1>15
  <2>2. told[s][kind] \in Nat
    BY <1>0
  <2> QED
    BY <2>1, <2>2
<1>17. e.what = kind
  <2>1. told'[s] = [told[s] EXCEPT ![e.what] = @ + 1] /\ told[s] \in [Kinds -> Nat]
    BY <1>0, <1>15, <1>16
  <2>2. e.what # kind => told'[s][kind] = told[s][kind]
    BY <2>1
  <2>3. told[s][kind] \in Nat
    BY <1>0
  <2> QED
    BY <2>2, <2>3
<1>18. Says(todo[t][1], s, kind)
  BY <1>14, <1>15, <1>16, <1>17 DEF Says
<1> QED
  BY <1>12, <1>15, <1>18 DEF Returned

\* session.created is told before every other event of the session,
\* session.exited never after session.closed, and the authenticated callback
\* after session.running, in whatever order the threads publish.
THEOREM EventOrderAlways == Spec => EventOrder
<1> DEFINE Ordered ==
       \A s \in Session : \A kind \in Kinds : told'[s][kind] > told[s][kind] =>
         /\ \A before \in Preamble(kind) : told[s][before] > 0
         /\ kind = "exited" => told[s]["closed"] = 0
<1>1. IInv /\ [Next]_vars => Ordered
  <2> SUFFICES ASSUME IInv, [Next]_vars, NEW s \in Session, NEW kind \in Kinds,
                      told'[s][kind] > told[s][kind]
               PROVE  /\ \A before \in Preamble(kind) : told[s][before] > 0
                      /\ kind = "exited" => told[s]["closed"] = 0
    OBVIOUS
  <2>1. TypeOK /\ FreshFits(s) /\ Told(s)
    BY DEF IInv
  <2>2. ~Returned /\ \E t \in Thread : todo[t] # <<>> /\ Says(todo[t][1], s, kind)
    BY <2>1, ToldBy
  <2>3. PICK t \in Thread : todo[t] # <<>> /\ Says(todo[t][1], s, kind)
    BY <2>2
  <2>4. /\ {"created", "starting", "running", "closed", "exited", "authenticated"} \subseteq Kinds
        /\ \A k \in Kinds : told[s][k] \in Nat
    <3>1. told \in [Session -> [Kinds -> Nat]]
      BY <2>1 DEF TypeOK
    <3>2. {"created", "starting", "running", "closed", "exited", "authenticated"} \subseteq Kinds
      BY DEF Kinds, States
    <3> QED
      BY <3>1, <3>2
  <2>5. Len(todo[t]) \in Nat \ {0} /\ 1 \in 1..Len(todo[t])
    BY <2>1, <2>3, Drained
  <2>6. ~Quiet(t, s)
    BY <2>3, <2>5 DEF Quiet, Says
  <2>7. state[s] # "none" /\ (Submitting(s, "submitStart") => t = Selector)
    BY <2>1, <2>6 DEF FreshFits
  <2>8. \/ kind = "created"
        \/ told[s]["created"] # 0 /\ (kind = "starting" \/ told[s]["starting"] # 0)
    <3>1. CASE ~Submitting(s, "submitStart")
      BY <2>1, <2>7, <3>1 DEF FreshFits
    <3>2. CASE Submitting(s, "submitStart")
      <4>1. t = Selector
        BY <2>7, <3>2
      <4>2. CASE told[s]["created"] = 0
        <5>1. todo[t][1] = Effect("publish", s, "created", 0)
          BY <2>1, <3>2, <4>1, <4>2 DEF FreshFits
        <5> QED
          BY <2>3, <5>1 DEF Says, Effect
      <4>3. CASE told[s]["created"] # 0 /\ told[s]["starting"] = 0
        <5>1. todo[t][1] = Effect("publish", s, "starting", 0)
          BY <2>1, <3>2, <4>1, <4>3 DEF FreshFits
        <5> QED
          BY <2>3, <4>3, <5>1 DEF Says, Effect
      <4> QED
        BY <4>2, <4>3
    <3> QED
      BY <3>1, <3>2
  <2>9. kind = "authenticated" => told[s]["running"] # 0
    <3>1. OrderFits(s)
      BY <2>1 DEF Told
    <3>2. 1..(1-1) = {}
      OBVIOUS
    <3> QED
      BY <2>2, <2>3, <2>5, <3>1, <3>2 DEF OrderFits
  <2>10. \A before \in Preamble(kind) : told[s][before] # 0 /\ told[s][before] \in Nat
    <3>1. CASE kind = "created"
      BY <3>1 DEF Preamble
    <3>2. CASE kind = "authenticated"
      <4>1. Preamble(kind) = {"created", "starting", "running"}
        BY <3>2 DEF Preamble
      <4> QED
        BY <2>4, <2>8, <2>9, <3>2, <4>1
    <3>3. CASE kind # "created" /\ kind # "authenticated"
      <4>1. Preamble(kind) = {"created"}
        BY <3>3 DEF Preamble
      <4> QED
        BY <2>4, <2>8, <3>3, <4>1
    <3> QED
      BY <3>1, <3>2, <3>3
  <2>11. kind = "exited" => told[s]["closed"] = 0
    <3> SUFFICES ASSUME kind = "exited" PROVE told[s]["closed"] = 0
      OBVIOUS
    <3>1. OrderFits(s) /\ KindFits(s, "closed")
      BY <2>1, <2>4 DEF Told
    <3>2. PICK j \in (1+1)..Len(todo[t]) : Says(todo[t][j], s, "closed")
      BY <2>2, <2>3, <2>5, <3>1 DEF OrderFits
    <3>3. j \in 1..Len(todo[t])
      BY <2>5
    <3>4. Owed(s, "closed")
      BY <3>2, <3>3 DEF Owed
    <3> QED
      BY <3>1, <3>4 DEF KindFits
  <2>12. \A before \in Preamble(kind) : told[s][before] > 0
    BY <2>10
  <2> QED
    BY <2>11, <2>12
<1> HIDE DEF Ordered
<1>2. Spec => [][Ordered]_vars
  BY <1>1, SessionInvariant, PTL DEF Spec
<1>3. [][Ordered]_vars => EventOrder
  BY PTL DEF Ordered, EventOrder
<1> QED
  BY <1>2, <1>3

\* No session becomes RUNNING.
NoneRuns == \A y \in Session : state'[y] = "running" => state[y] = "running"

\* Session s became RUNNING on a decisive verdict or on PTY evidence.
Proven(s) ==
    \/ "auth" \in decisive[s]
    \/ evidence'[s] = "connected" /\ (~rec[s].diagPrimary \/ rec'[s].fallback)

\* Only session s may become RUNNING, and if it does it is proven.
RunsProven(s) ==
    \A y \in Session : state[y] # "running" /\ state'[y] = "running" =>
        y = s /\ (EvidenceGate /\ TerminalCapable => Proven(y))

\* The state a critical section leaves is the last of its path.
LEMMA LockedState ==
    ASSUME TypeOK, NEW t, NEW s \in Session, NEW r, NEW q, NEW x
    PROVE  /\ Locked(t, s, <<>>, r, q) => state' = state
           /\ Locked(t, s, <<x>>, r, q) => state' = [state EXCEPT ![s] = x]
           /\ Locked(t, s, <<x, "closed">>, r, q) => state' = [state EXCEPT ![s] = "closed"]
           /\ LeavesRecord(t, s, q) => state' = state
<1>1. state \in [Session -> States \union {"none"}]
  BY DEF TypeOK
<1>2. Locked(t, s, <<>>, r, q) => state' = state
  <2>1. Len(<<>>) = 0
    OBVIOUS
  <2> QED
    BY <1>1, <2>1 DEF Locked, Transition
<1>3. Locked(t, s, <<x>>, r, q) => state' = [state EXCEPT ![s] = x]
  <2>1. Len(<<x>>) = 1 /\ <<x>>[1] = x
    OBVIOUS
  <2> QED
    BY <2>1 DEF Locked, Transition
<1>4. Locked(t, s, <<x, "closed">>, r, q) => state' = [state EXCEPT ![s] = "closed"]
  <2>1. Len(<<x, "closed">>) = 2 /\ <<x, "closed">>[2] = "closed"
    OBVIOUS
  <2> QED
    BY <2>1 DEF Locked, Transition
<1>5. LeavesRecord(t, s, q) => state' = state
  <2>1. Len(<<>>) = 0
    OBVIOUS
  <2> QED
    BY <1>1, <2>1 DEF LeavesRecord, Locked, Transition
<1> QED
  BY <1>2, <1>3, <1>4, <1>5

\* A critical section that makes no transition, or one to a state other than RUNNING.
LEMMA LockedQuiet ==
    ASSUME TypeOK, NEW t, NEW s \in Session, NEW r, NEW q, NEW x, x # "running",
           \/ Locked(t, s, <<>>, r, q) \/ LeavesRecord(t, s, q)
           \/ Locked(t, s, <<x>>, r, q) \/ Locked(t, s, <<x, "closed">>, r, q)
    PROVE  NoneRuns
<1>1. state \in [Session -> States \union {"none"}]
  BY DEF TypeOK
<1>2. \/ state' = state \/ state' = [state EXCEPT ![s] = x]
      \/ state' = [state EXCEPT ![s] = "closed"]
  BY LockedState
<1> QED
  BY <1>1, <1>2 DEF NoneRuns

\* The end of a session does not make another one RUNNING.
LEMMA ExitQuiet ==
    ASSUME TypeOK, NEW t, NEW s \in Session, NEW z
    PROVE  /\ \A a, hint, p : FinalExit(t, s, a, hint, p, z) => NoneRuns
           /\ ProcessExited(t, s, z) => NoneRuns
<1>1. ASSUME NEW a, NEW hint, NEW p, FinalExit(t, s, a, hint, p, z) PROVE NoneRuns
  <2> DEFINE f == ExitFails(s, a.exit, hint)
             r == [a EXCEPT !.handle = FALSE, !.failure = @ \/ f]
             q == p \o (IF f THEN Publish(s, "failed") ELSE <<>>)
                    \o Publish(s, "exited") \o Publish(s, "closed") \o z
  <2>1. Locked(t, s, IF state[s] = "failed" THEN <<"closed">>
                     ELSE IF f THEN <<"failed", "closed">> ELSE <<"exited", "closed">>, r, q)
    BY <1>1 DEF FinalExit
  <2> HIDE DEF f, r, q
  <2>2. \/ Locked(t, s, <<"closed">>, r, q) \/ Locked(t, s, <<"failed", "closed">>, r, q)
        \/ Locked(t, s, <<"exited", "closed">>, r, q)
    BY <2>1
  <2>3. CASE Locked(t, s, <<"closed">>, r, q)
    BY <2>3, LockedQuiet
  <2>4. CASE Locked(t, s, <<"failed", "closed">>, r, q)
    BY <2>4, LockedQuiet
  <2>5. CASE Locked(t, s, <<"exited", "closed">>, r, q)
    BY <2>5, LockedQuiet
  <2> QED
    BY <2>2, <2>3, <2>4, <2>5
<1>2. ASSUME ProcessExited(t, s, z) PROVE NoneRuns
  <2> DEFINE a == [rec[s] EXCEPT !.exit = exitCode[s]]
  <2>1. \/ LeavesRecord(t, s, z) \/ Locked(t, s, <<>>, a, z)
        \/ \E hint \in BOOLEAN : FinalExit(t, s, a, hint, FinishReadiness(s), z)
    BY <1>2 DEF ProcessExited
  <2> HIDE DEF a
  <2>2. CASE LeavesRecord(t, s, z) \/ Locked(t, s, <<>>, a, z)
    BY <2>2, LockedState DEF NoneRuns
  <2>3. CASE \E hint \in BOOLEAN : FinalExit(t, s, a, hint, FinishReadiness(s), z)
    BY <1>1, <2>3
  <2> QED
    BY <2>1, <2>2, <2>3
<1> QED
  BY <1>1, <1>2

\* A startup that fails.
LEMMA FailQuiet ==
    ASSUME TypeOK, NEW t, NEW s \in Session
    PROVE  (FailPendingStart(t, s) => NoneRuns) /\ (StartupFailed(s) => NoneRuns)
<1>1. ASSUME NEW u, LeavesRecord(u, s, <<>>) PROVE NoneRuns
  BY <1>1, LockedState DEF NoneRuns
<1>2. ASSUME NEW u, NEW r, NEW q, Locked(u, s, <<"failed">>, r, q) PROVE NoneRuns
  <2>1. "failed" # "running"
    OBVIOUS
  <2> QED
    BY <1>2, <2>1, LockedQuiet
<1>3. ASSUME FailPendingStart(t, s) PROVE NoneRuns
  BY <1>1, <1>2, <1>3 DEF FailPendingStart
<1>4. ASSUME StartupFailed(s) PROVE NoneRuns
  BY <1>1, <1>2, <1>4 DEF StartupFailed
<1> QED
  BY <1>3, <1>4

\* The selector never promotes.
LEMMA SelectorQuiet ==
    ASSUME IInv, SelectorStep PROVE NoneRuns
<1>1. TypeOK /\ state \in [Session -> States \union {"none"}]
  BY DEF IInv, TypeOK
<1>2. ASSUME NEW s \in Session, Open(s) PROVE NoneRuns
  BY <1>1, <1>2 DEF Open, NoneRuns
<1>3. ASSUME NEW s \in Session, CloseRequest(s) PROVE NoneRuns
  <2>1. \E r, q : \/ Locked(Selector, s, <<>>, r, q) \/ Locked(Selector, s, <<"closed">>, r, q)
                  \/ Locked(Selector, s, <<"closing">>, r, q)
    BY <1>3 DEF CloseRequest
  <2>2. PICK r, q : \/ Locked(Selector, s, <<>>, r, q) \/ Locked(Selector, s, <<"closed">>, r, q)
                    \/ Locked(Selector, s, <<"closing">>, r, q)
    BY <2>1
  <2>3. CASE Locked(Selector, s, <<>>, r, q)
    BY <1>1, <2>3, LockedState DEF NoneRuns
  <2>4. CASE Locked(Selector, s, <<"closed">>, r, q)
    BY <1>1, <2>4, LockedQuiet
  <2>5. CASE Locked(Selector, s, <<"closing">>, r, q)
    BY <1>1, <2>5, LockedQuiet
  <2> QED
    BY <2>2, <2>3, <2>4, <2>5
<1>4. ASSUME NEW s \in Session, CancelStart(s) PROVE NoneRuns
  BY <1>1, <1>4, FailQuiet DEF CancelStart
<1>5. ASSUME SubmitAccepted("start") \/ SubmitAccepted("close") PROVE NoneRuns
  BY <1>5 DEF SubmitAccepted, recordVars, NoneRuns
<1>6. ASSUME SubmitStartRejected PROVE NoneRuns
  <2>1. step[Selector] = "submitStart"
    BY <1>6 DEF SubmitStartRejected, At
  <2>2. PICK s \in Session : s = target[Selector]
    BY <2>1 DEF IInv, EffectFits
  <2> QED
    BY <1>1, <1>6, <2>2, FailQuiet DEF SubmitStartRejected
<1>7. ASSUME SubmitCloseRejected PROVE NoneRuns
  <2>1. step[Selector] = "submitClose"
    BY <1>7 DEF SubmitCloseRejected, At
  <2>2. PICK s \in Session : s = target[Selector]
    BY <2>1 DEF IInv, EffectFits
  <2>3. \E r, q : Locked(Selector, s, <<>>, r, q) \/ Locked(Selector, s, <<"failed">>, r, q)
    BY <1>7, <2>2 DEF SubmitCloseRejected
  <2>4. PICK r, q : Locked(Selector, s, <<>>, r, q) \/ Locked(Selector, s, <<"failed">>, r, q)
    BY <2>3
  <2>5. CASE Locked(Selector, s, <<>>, r, q)
    BY <1>1, <2>5, LockedState DEF NoneRuns
  <2>6. CASE Locked(Selector, s, <<"failed">>, r, q)
    BY <1>1, <2>6, LockedQuiet
  <2> QED
    BY <2>4, <2>5, <2>6
<1>8. ASSUME ServerStops PROVE NoneRuns
  BY <1>8 DEF ServerStops, recordVars, NoneRuns
<1> QED
  BY <1>2, <1>3, <1>4, <1>5, <1>6, <1>7, <1>8 DEF SelectorStep

\* The one transition that promotes.
LEMMA LockedRuns ==
    ASSUME TypeOK, NEW t, NEW s \in Session, NEW r, NEW q, Locked(t, s, <<"running">>, r, q)
    PROVE  state' = [state EXCEPT ![s] = "running"]
<1>1. Len(<<"running">>) = 1 /\ <<"running">>[1] = "running"
  OBVIOUS
<1> QED
  BY <1>1 DEF Locked, Transition

\* A close, by the lane or by the shutdown, never promotes.
LEMMA CloseQuiet ==
    ASSUME TypeOK, NEW t, NEW s \in Session, CloseStep(t, s) PROVE NoneRuns
<1>1. state \in [Session -> States \union {"none"}]
  BY DEF TypeOK
<1>2. ASSUME NEW u, NEW r, NEW q, Locked(u, s, <<>>, r, q) \/ LeavesRecord(u, s, q)
      PROVE NoneRuns
  BY <1>2, LockedState DEF NoneRuns
<1>3. ASSUME NEW u, NEW r, NEW q, NEW x, x # "running", Locked(u, s, <<x>>, r, q)
      PROVE NoneRuns
  BY <1>3, LockedQuiet
<1>4. ASSUME CloseBegin(t, s) PROVE NoneRuns
  <2>1. \/ state' = state
        \/ \E r, q : \/ Locked(t, s, <<>>, r, q) \/ Locked(t, s, <<"closed">>, r, q)
                     \/ Locked(t, s, <<"closing">>, r, q)
    BY <1>4 DEF CloseBegin, recordVars
  <2>2. CASE state' = state
    BY <2>2 DEF NoneRuns
  <2>3. CASE \E r, q : Locked(t, s, <<>>, r, q)
    BY <1>2, <2>3
  <2>4. CASE \E r, q : Locked(t, s, <<"closed">>, r, q)
    BY <1>3, <2>4
  <2>5. CASE \E r, q : Locked(t, s, <<"closing">>, r, q)
    BY <1>3, <2>5
  <2> QED
    BY <2>1, <2>2, <2>3, <2>4, <2>5
<1>5. ASSUME CloseBare(t, s) PROVE NoneRuns
  BY <1>2, <1>3, <1>5 DEF CloseBare
<1>6. ASSUME CloseSignal(t, s) PROVE NoneRuns
  BY <1>6 DEF CloseSignal, recordVars, NoneRuns
<1>7. ASSUME CloseExited(t, s) PROVE NoneRuns
  BY <1>7, ExitQuiet DEF CloseExited
<1>8. ASSUME CloseTimeout(t, s) PROVE NoneRuns
  <2>1. \E r, q : Locked(t, s, <<>>, r, q) \/ Locked(t, s, <<"failed">>, r, q)
    BY <1>8 DEF CloseTimeout
  <2> QED
    BY <1>2, <1>3, <2>1
<1> QED
  BY <1>4, <1>5, <1>6, <1>7, <1>8 DEF CloseStep

\* The shutdown never promotes.
LEMMA CloserQuiet ==
    ASSUME TypeOK, CloserStep PROVE NoneRuns
<1>1. ASSUME NEW s \in Session, CloseStep(Closer, s) PROVE NoneRuns
  BY <1>1, CloseQuiet
<1>2. ASSUME \/ ShutdownBegin \/ ShutdownClear \/ RunnerCloses \/ ShutdownReturns
             \/ \E s \in Session : ShutdownNext(s)
      PROVE NoneRuns
  BY <1>2 DEF ShutdownBegin, ShutdownClear, RunnerCloses, ShutdownReturns, ShutdownNext,
     recordVars, NoneRuns
<1> QED
  BY <1>1, <1>2 DEF CloserStep

\* On its lane a session is promoted only by the worker that attaches it, on the
\* verdict that was parked or on the evidence the PTY has given so far.
LEMMA LaneRunsProven ==
    ASSUME IInv, NEW s \in Session, LaneStep(s) PROVE RunsProven(s)
<1>1. TypeOK /\ state \in [Session -> States \union {"none"}]
  BY DEF IInv, TypeOK
<1>2. NoneRuns => RunsProven(s)
  BY DEF NoneRuns, RunsProven
<1>3. ASSUME NEW r, NEW q, Locked(Lane(s), s, <<>>, r, q) \/ LeavesRecord(Lane(s), s, q)
      PROVE NoneRuns
  BY <1>1, <1>3, LockedState DEF NoneRuns
<1>4. ASSUME LaneBegin(s) \/ LaneEnd(s) \/ StartSubscribe(s) \/ StartLaunch(s) \/ StartSpawn(s)
             \/ StartReap(s)
      PROVE NoneRuns
  BY <1>4 DEF LaneBegin, LaneEnd, StartSubscribe, StartLaunch, StartSpawn, StartReap,
     recordVars, NoneRuns
<1>5. ASSUME StartClaim(s) PROVE NoneRuns
  <2>1. \/ FailPendingStart(Lane(s), s) \/ \E r, q : Locked(Lane(s), s, <<>>, r, q)
    BY <1>5 DEF StartClaim
  <2> QED
    BY <1>1, <1>3, <2>1, FailQuiet
<1>6. ASSUME StartFailed(s) PROVE NoneRuns
  BY <1>1, <1>6, FailQuiet DEF StartFailed
<1>7. ASSUME StartEngage(s) PROVE NoneRuns
  <2>1. \E r, q : Locked(Lane(s), s, <<>>, r, q)
    BY <1>7 DEF StartEngage
  <2> QED
    BY <1>3, <2>1
<1>8. ASSUME StartGate(s) PROVE NoneRuns
  <2>1. state' = state \/ StartupFailed(s)
    BY <1>8 DEF StartGate, recordVars
  <2> QED
    BY <1>1, <2>1, FailQuiet DEF NoneRuns
<1>9. ASSUME StartReaped(s) PROVE NoneRuns
  <2>1. state' = state \/ ProcessExited(Lane(s), s, <<>>)
    BY <1>9 DEF StartReaped, recordVars
  <2> QED
    BY <1>1, <2>1, ExitQuiet DEF NoneRuns
<1>10. ASSUME AttachFailed(s) PROVE NoneRuns
  <2>1. \E r, q : Locked(Lane(s), s, <<"failed">>, r, q)
    BY <1>10 DEF AttachFailed
  <2>2. PICK r, q : Locked(Lane(s), s, <<"failed">>, r, q)
    BY <2>1
  <2> QED
    BY <1>1, <2>2, LockedQuiet
<1>11. ASSUME AttachWaiting(s) \/ AttachClosing(s) \/ AttachLate(s) PROVE NoneRuns
  <2>1. \E r, q : Locked(Lane(s), s, <<>>, r, q) \/ LeavesRecord(Lane(s), s, q)
    BY <1>11 DEF AttachWaiting, AttachClosing, AttachLate
  <2> QED
    BY <1>3, <2>1
<1>12. ASSUME StartAttach(s), AttachRunning(s) PROVE RunsProven(s)
  <2>1. /\ state[s] = "starting" /\ Promotes(s) /\ step[Lane(s)] = "attach"
        /\ evidence' = evidence
    BY <1>12 DEF AttachRunning, StartAttach, At, ptyVars
  <2>2. \E r, q : Locked(Lane(s), s, <<"running">>, r, q)
    BY <1>12 DEF AttachRunning
  <2>3. PICK r, q : Locked(Lane(s), s, <<"running">>, r, q)
    BY <2>2
  <2>4. state' = [state EXCEPT ![s] = "running"]
    BY <1>1, <2>3, LockedRuns
  <2>5. VerdictFits(s) /\ StartFits(s)
    BY DEF IInv, Control
  <2>6. rec[s].started
    BY <2>1, <2>5 DEF StartFits
  <2>7. rec[s].capable = TerminalCapable
    BY <2>1, <2>5, <2>6 DEF VerdictFits
  <2>8. CASE rec[s].diagPrimary
    <3>1. rec[s].result = "auth"
      BY <2>1, <2>8 DEF Promotes
    <3>2. "auth" \in decisive[s]
      BY <2>5, <3>1 DEF VerdictFits
    <3> QED
      BY <1>1, <2>4, <3>2 DEF RunsProven, Proven
  <2>9. CASE ~rec[s].diagPrimary
    <3>1. EvidenceGate /\ TerminalCapable => evidence'[s] = "connected"
      BY <2>1, <2>7, <2>9 DEF Promotes
    <3> QED
      BY <1>1, <2>4, <2>9, <3>1 DEF RunsProven, Proven
  <2> QED
    BY <2>8, <2>9
<1>13. StartAttach(s) => RunsProven(s)
  <2>1. StartAttach(s) => AttachFailed(s) \/ AttachRunning(s) \/ AttachWaiting(s)
                          \/ AttachClosing(s) \/ AttachLate(s)
    BY DEF StartAttach
  <2> QED
    BY <1>2, <1>10, <1>11, <1>12, <2>1
<1>14. CloseStep(Lane(s), s) => NoneRuns
  BY <1>1, CloseQuiet
<1> QED
  BY <1>2, <1>4, <1>5, <1>6, <1>7, <1>8, <1>9, <1>13, <1>14 DEF LaneStep, StartStep

\* The monitor promotes on a decisive verdict, the grace timer on the evidence
\* the PTY has given so far.
LEMMA DiagnosticsRunsProven ==
    ASSUME IInv, NEW s \in Session, DiagnosticsStep(s) PROVE RunsProven(s)
<1>1. TypeOK /\ state \in [Session -> States \union {"none"}] /\ VerdictFits(s)
  BY DEF IInv, Control, TypeOK
<1>2. NoneRuns => RunsProven(s)
  BY DEF NoneRuns, RunsProven
<1>3. ASSUME NEW u, NEW r, NEW q, Locked(u, s, <<>>, r, q) \/ LeavesRecord(u, s, q)
      PROVE NoneRuns
  BY <1>1, <1>3, LockedState DEF NoneRuns
<1>4. ASSUME DiagnosticsParsed(s, "auth") \/ DiagnosticsParsed(s, "failed") \/ GraceFires(s)
      PROVE NoneRuns
  BY <1>4 DEF DiagnosticsParsed, GraceFires, recordVars, NoneRuns
<1>5. ASSUME DiagnosticResult(s) PROVE RunsProven(s)
  <2>1. \/ \E r, q : Locked(Monitor, s, <<>>, r, q) \/ LeavesRecord(Monitor, s, q)
        \/ \E r, q : Locked(Monitor, s, <<"failed">>, r, q)
        \/ inflight[s] = "auth" /\ \E r, q : Locked(Monitor, s, <<"running">>, r, q)
    BY <1>5 DEF DiagnosticResult
  <2>2. CASE \E r, q : Locked(Monitor, s, <<>>, r, q) \/ LeavesRecord(Monitor, s, q)
    BY <1>2, <1>3, <2>2
  <2>3. CASE \E r, q : Locked(Monitor, s, <<"failed">>, r, q)
    <3>1. PICK r, q : Locked(Monitor, s, <<"failed">>, r, q)
      BY <2>3
    <3> QED
      BY <1>1, <1>2, <3>1, LockedQuiet
  <2>4. CASE inflight[s] = "auth" /\ \E r, q : Locked(Monitor, s, <<"running">>, r, q)
    <3>1. PICK r, q : Locked(Monitor, s, <<"running">>, r, q)
      BY <2>4
    <3>2. state' = [state EXCEPT ![s] = "running"]
      BY <1>1, <3>1, LockedRuns
    <3>3. "auth" \in decisive[s]
      BY <1>1, <2>4 DEF VerdictFits
    <3> QED
      BY <1>1, <3>2, <3>3 DEF RunsProven, Proven
  <2> QED
    BY <2>1, <2>2, <2>3, <2>4
<1>6. ASSUME GraceExpired(s) PROVE RunsProven(s)
  <2> DEFINE a == [rec[s] EXCEPT !.fallback = TRUE]
  <2>1. /\ evidence' = evidence
        /\ \/ \E r, q : Locked(Timer(s), s, <<>>, r, q) \/ LeavesRecord(Timer(s), s, q)
           \/ evidence[s] = "connected" /\ \E q : Locked(Timer(s), s, <<"running">>, a, q)
    BY <1>6 DEF GraceExpired, ptyVars
  <2>2. CASE \E r, q : Locked(Timer(s), s, <<>>, r, q) \/ LeavesRecord(Timer(s), s, q)
    BY <1>2, <1>3, <2>2
  <2>3. CASE evidence[s] = "connected" /\ \E q : Locked(Timer(s), s, <<"running">>, a, q)
    <3>1. PICK q : Locked(Timer(s), s, <<"running">>, a, q)
      BY <2>3
    <3>2. state' = [state EXCEPT ![s] = "running"]
      BY <1>1, <3>1, LockedRuns
    <3>3. rec \in [Session -> RecordType]
      BY <1>1 DEF TypeOK
    <3>4. rec'[s] = a
      BY <3>1, <3>3 DEF Locked
    <3>5. rec[s] \in RecordType
      BY <3>3
    <3>6. a.fallback
      BY <3>5 DEF RecordType
    <3>7. rec'[s].fallback
      BY <3>4, <3>6
    <3> QED
      BY <1>1, <2>1, <2>3, <3>2, <3>7 DEF RunsProven, Proven
  <2> QED
    BY <2>1, <2>2, <2>3
<1> QED
  BY <1>2, <1>4, <1>5, <1>6 DEF DiagnosticsStep

\* The I/O thread promotes on the evidence of the chunk it handles, when the launch is
\* not instrumented or the fallback has been taken.
LEMMA ChildRunsProven ==
    ASSUME IInv, NEW s \in Session, ChildStep(s) PROVE RunsProven(s)
<1>1. TypeOK /\ state \in [Session -> States \union {"none"}]
  BY DEF IInv, TypeOK
<1>2. NoneRuns => RunsProven(s)
  BY DEF NoneRuns, RunsProven
<1>3. ASSUME NEW u, NEW r, NEW q, Locked(u, s, <<>>, r, q) \/ LeavesRecord(u, s, q)
      PROVE NoneRuns
  BY <1>1, <1>3, LockedState DEF NoneRuns
<1>4. ASSUME NEW code \in ExitCodes, ChildExits(s, code) PROVE NoneRuns
  BY <1>4 DEF ChildExits, recordVars, NoneRuns
<1>5. ASSUME NEW verdict \in {"pending", "connected", "failed"}, TerminalOutput(s, verdict)
      PROVE RunsProven(s)
  <2> DEFINE r == rec[s]
  <2>1. /\ evidence' = [evidence EXCEPT ![s] = verdict]
        /\ \/ \E a, q : Locked(IO, s, <<>>, a, q) \/ LeavesRecord(IO, s, q)
           \/ /\ state[s] = "starting" /\ ~(r.diagPrimary /\ ~r.fallback)
              /\ verdict = "connected" /\ \E q : Locked(IO, s, <<"running">>, r, q)
    BY <1>5 DEF TerminalOutput
  <2>2. CASE \E a, q : Locked(IO, s, <<>>, a, q) \/ LeavesRecord(IO, s, q)
    BY <1>2, <1>3, <2>2
  <2>3. CASE /\ state[s] = "starting" /\ ~(r.diagPrimary /\ ~r.fallback)
             /\ verdict = "connected" /\ \E q : Locked(IO, s, <<"running">>, r, q)
    <3>1. PICK q : Locked(IO, s, <<"running">>, r, q)
      BY <2>3
    <3>2. state' = [state EXCEPT ![s] = "running"]
      BY <1>1, <3>1, LockedRuns
    <3>3. rec \in [Session -> RecordType] /\ evidence \in [Session -> {"pending", "connected", "failed"}]
      BY <1>1 DEF TypeOK
    <3>4. rec'[s] = rec[s]
      BY <3>1, <3>3 DEF Locked
    <3>5. evidence'[s] = "connected"
      BY <2>1, <2>3, <3>3
    <3>6. rec[s].diagPrimary \in BOOLEAN /\ rec[s].fallback \in BOOLEAN
      BY <3>3 DEF RecordType
    <3>7. ~rec[s].diagPrimary \/ rec'[s].fallback
      BY <2>3, <3>4, <3>6
    <3> QED
      BY <1>1, <3>2, <3>5, <3>7 DEF RunsProven, Proven
  <2> QED
    BY <2>1, <2>2, <2>3
<1>6. ASSUME TerminalEof(s) PROVE NoneRuns
  <2> DEFINE a == [rec[s] EXCEPT !.eof = TRUE]
  <2>1. \/ \E r, q : Locked(IO, s, <<>>, r, q) \/ LeavesRecord(IO, s, q)
        \/ \E hint, p, z : FinalExit(IO, s, a, hint, p, z)
    BY <1>6 DEF TerminalEof
  <2> HIDE DEF a
  <2>2. CASE \E r, q : Locked(IO, s, <<>>, r, q) \/ LeavesRecord(IO, s, q)
    BY <1>3, <2>2
  <2>3. CASE \E hint, p, z : FinalExit(IO, s, a, hint, p, z)
    <3>1. PICK hint, p, z : FinalExit(IO, s, a, hint, p, z)
      BY <2>3
    <3> QED
      BY <1>1, <3>1, ExitQuiet
  <2> QED
    BY <2>1, <2>2, <2>3
<1>7. ASSUME ReaperNotify(s) PROVE NoneRuns
  BY <1>1, <1>7, ExitQuiet DEF ReaperNotify
<1> QED
  BY <1>2, <1>4, <1>5, <1>6, <1>7 DEF ChildStep

\* A session becomes RUNNING only on a decisive OpenSSH verdict or, when its launch is
\* not instrumented or the grace deadline has passed, on the evidence of its PTY,
\* whichever of the worker, the monitor, the timer and the I/O thread promotes it.
THEOREM RunningIsProvenAlways == Spec => RunningIsProven
<1> DEFINE Authenticated ==
       EvidenceGate /\ TerminalCapable =>
         \A s \in Session : (state[s] # "running" /\ state'[s] = "running") =>
            \/ "auth" \in decisive[s]
            \/ evidence'[s] = "connected" /\ (~rec[s].diagPrimary \/ rec'[s].fallback)
<1>1. IInv /\ [Next]_vars => Authenticated
  <2> SUFFICES ASSUME IInv, [Next]_vars PROVE Authenticated
    OBVIOUS
  <2>1. NoneRuns => Authenticated
    BY DEF NoneRuns
  <2>2. ASSUME NEW s \in Session, RunsProven(s) PROVE Authenticated
    BY <2>2 DEF RunsProven, Proven
  <2>3. TypeOK
    BY DEF IInv
  <2>4. SelectorStep => NoneRuns
    BY SelectorQuiet
  <2>5. CloserStep => NoneRuns
    BY <2>3, CloserQuiet
  <2>6. \A s \in Session : LaneStep(s) \/ DiagnosticsStep(s) \/ ChildStep(s) => RunsProven(s)
    BY LaneRunsProven, DiagnosticsRunsProven, ChildRunsProven
  <2>7. \A t \in Thread : DoEffect(t) => NoneRuns
    BY DEF DoEffect, DoPublish, DoOutput, DoFinish, DoFlush, recordVars, NoneRuns
  <2>8. UNCHANGED vars => NoneRuns
    BY DEF vars, recordVars, NoneRuns
  <2> HIDE DEF Authenticated
  <2> QED
    BY <2>1, <2>2, <2>4, <2>5, <2>6, <2>7, <2>8 DEF Next
<1> HIDE DEF Authenticated
<1>2. Spec => [][Authenticated]_vars
  BY <1>1, SessionInvariant, PTL DEF Spec
<1>3. [][Authenticated]_vars => RunningIsProven
  BY PTL DEF Authenticated, RunningIsProven
<1> QED
  BY <1>2, <1>3

=============================================================================
