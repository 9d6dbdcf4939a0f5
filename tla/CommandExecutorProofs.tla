----------------------- MODULE CommandExecutorProofs -----------------------
(***************************************************************************)
(* Theorems about BoundedCommandExecutor for any pool size, any set of     *)
(* keys and any capacity.                                                  *)
(***************************************************************************)
EXTENDS CommandExecutor, FiniteSetTheorems, SequenceTheorems, TLAPS

\* A worker holds a command exactly between taking it and _finish.
HoldsCommand ==
    \A w \in Worker : worker[w] \in {"running", "finishing"} <=> current[w] # NoCommand

\* Why equal keys never run together: a key owns at most one of "ready" and
\* "held by a worker", and _occupied_keys/_running_keys say which.
LaneState ==
    /\ runningKeys \subseteq occupiedKeys
    /\ \A i, j \in DOMAIN ready : i # j => KeyOf[ready[i]] # KeyOf[ready[j]]
    /\ \A i \in DOMAIN ready : KeyOf[ready[i]] \in occupiedKeys \ runningKeys
    /\ \A w \in Worker : current[w] # NoCommand =>
          KeyOf[current[w]] \in occupiedKeys \intersect runningKeys
    /\ \A k \in Key : \A i \in DOMAIN waiting[k] : KeyOf[waiting[k][i]] = k

\* After stop_accepting nothing is queued and nothing can be.
StoppedState ==
    closer # "serving" =>
        ~accepting /\ ready = <<>> /\ \A k \in Key : waiting[k] = <<>>

\* The inductive invariant.
ExecutorInv == TypeOK /\ HoldsCommand /\ LaneState /\ LaneExclusion /\ StoppedState

\* The commands that are pending when stop_accepting takes the lock are
\* finitely many, so their number is a natural number.
LEMMA PendingFinite ==
    ASSUME TypeOK
    PROVE  Pending \subseteq Command /\ Cardinality(Pending) \in Nat
<1>1. Elements(ready) \subseteq Command
  BY DEF TypeOK, Elements
<1>2. \A k \in Key : Elements(waiting[k]) \subseteq Command
  BY DEF TypeOK, Elements
<1>3. Pending \subseteq Command
  BY <1>1, <1>2 DEF Pending
<1>4. QED
  BY <1>3, ExecutorAssumption, FS_Subset, FS_CardinalityType

\* Every step of the executor preserves the types of its fields.
LEMMA TypeStep ==
    ASSUME TypeOK, HoldsCommand, [Next]_vars
    PROVE  TypeOK'
<1> USE ExecutorAssumption DEF TypeOK, queueVars, closerVars, Final, Notify, NotifyAll
<1>1. ASSUME NEW c \in Command, Submit(c) PROVE TypeOK'
  <2> DEFINE k == KeyOf[c]
  <2>1. /\ k \in Key
        /\ Append(ready, c) \in Seq(Command)
        /\ Append(waiting[k], c) \in Seq(Command)
    BY AppendProperties
  <2>2. /\ ready' \in Seq(Command)
        /\ waiting' \in [Key -> Seq(Command)]
        /\ occupiedKeys' \subseteq Key
        /\ waitset' \subseteq Worker \union {Closer}
    <3>1. CASE k \in occupiedKeys
      <4>1. /\ waiting' = [waiting EXCEPT ![k] = Append(waiting[k], c)]
            /\ UNCHANGED <<ready, occupiedKeys, waitset>>
        BY <1>1, <3>1 DEF Submit, Enqueue
      <4>2. QED BY <2>1, <4>1
    <3>2. CASE k \notin occupiedKeys
      <4>1. /\ occupiedKeys' = occupiedKeys \union {k}
            /\ ready' = Append(ready, c)
            /\ waiting' = waiting
            /\ Notify
        BY <1>1, <3>2 DEF Submit, Enqueue
      <4>2. QED BY <2>1, <4>1
    <3>3. QED BY <3>1, <3>2
  <2>3. /\ admitted' \in Seq(Command)
        /\ outstanding' \in Int
        /\ outcome' \in [Command -> Final \union {"new", "queued"}]
    BY <1>1 DEF Submit
  <2>4. QED
    BY <1>1, <2>2, <2>3 DEF Submit
<1>2. ASSUME NEW c \in Command, SubmitRejected(c) PROVE TypeOK'
  BY <1>2 DEF SubmitRejected
<1>3. ASSUME NEW w \in Worker, WorkerWait(w) PROVE TypeOK'
  BY <1>3 DEF WorkerWait
<1>4. ASSUME NEW w \in Worker, WorkerReturn(w) PROVE TypeOK'
  BY <1>4 DEF WorkerReturn
<1>5. ASSUME NEW w \in Worker, WorkerTake(w) PROVE TypeOK'
  <2>1. Head(ready) \in Command /\ Tail(ready) \in Seq(Command)
    BY <1>5, HeadTailProperties DEF WorkerTake
  <2>2. QED
    BY <1>5, <2>1 DEF WorkerTake
<1>6. ASSUME NEW w \in Worker, NEW r \in {"completed", "failed"}, WorkerRun(w, r)
      PROVE  TypeOK'
  BY <1>6 DEF WorkerRun
<1>7. ASSUME NEW w \in Worker, WorkerFinish(w) PROVE TypeOK'
  <2> DEFINE k == KeyOf[current[w]]
  <2>0. current[w] \in Command /\ k \in Key
    BY <1>7 DEF WorkerFinish, HoldsCommand
  <2>1. /\ ready' \in Seq(Command)
        /\ waiting' \in [Key -> Seq(Command)]
        /\ occupiedKeys' \subseteq Key
    <3>1. CASE waiting[k] # <<>>
      <4>1. Head(waiting[k]) \in Command /\ Tail(waiting[k]) \in Seq(Command)
        BY <2>0, <3>1, HeadTailProperties
      <4>2. Append(ready, Head(waiting[k])) \in Seq(Command)
        BY <4>1, AppendProperties
      <4>3. QED BY <1>7, <2>0, <3>1, <4>1, <4>2 DEF WorkerFinish, AdvanceLane
    <3>2. CASE waiting[k] = <<>>
      BY <1>7, <3>2 DEF WorkerFinish, AdvanceLane
    <3>3. QED BY <3>1, <3>2
  <2>2. outstanding' \in Int
    BY <1>7 DEF WorkerFinish
  <2>3. QED
    BY <1>7, <2>1, <2>2 DEF WorkerFinish
<1>8. CASE StopAccepting
  <2>1. PICK q \in [1..Cardinality(Pending) -> Pending] :
            CancelPending(q) /\ cancelled' = q
    BY <1>8 DEF StopAccepting
  <2>2. q \in Seq(Command) /\ Len(q) \in Nat
    <3>1. Pending \subseteq Command /\ Cardinality(Pending) \in Nat
      BY PendingFinite
    <3> HIDE DEF TypeOK
    <3>2. q \in [1..Cardinality(Pending) -> Command]
      BY <3>1
    <3>3. q \in Seq(Command)
      BY <3>1, <3>2, SeqDef
    <3>4. QED BY <3>3
  <2>3. /\ ready' \in Seq(Command)
        /\ waiting' \in [Key -> Seq(Command)]
        /\ occupiedKeys' \subseteq Key
        /\ outstanding' \in Int
        /\ cancelled' \in Seq(Command)
    BY <2>1, <2>2 DEF CancelPending
  <2>4. QED
    BY <1>8, <2>3 DEF StopAccepting
<1>9. CASE RunCancel
  BY <1>9 DEF RunCancel
<1>10. CASE DrainWait
  BY <1>10 DEF DrainWait
<1>11. CASE DrainDone
  BY <1>11 DEF DrainDone, NothingOutstanding
<1>12. CASE JoinDone
  BY <1>12 DEF JoinDone
<1>13. CASE UNCHANGED vars
  BY <1>13 DEF vars
<1>14. QED
  BY <1>1, <1>2, <1>3, <1>4, <1>5, <1>6, <1>7, <1>8, <1>9, <1>10, <1>11, <1>12, <1>13
     DEF Next, WorkerStep, CloserStep

\* Every step keeps equal keys in one serial lane.
LEMMA LaneStep ==
    ASSUME TypeOK, TypeOK', HoldsCommand, LaneState, LaneExclusion, StoppedState,
           [Next]_vars
    PROVE  HoldsCommand' /\ LaneState' /\ LaneExclusion' /\ StoppedState'
<1> DEFINE Goal == HoldsCommand /\ LaneState /\ LaneExclusion /\ StoppedState
<1> SUFFICES Goal' OBVIOUS
<1> USE ExecutorAssumption DEF queueVars, closerVars
<1>1. ASSUME NEW c \in Command, Submit(c) PROVE Goal'
  <2>1. HoldsCommand' /\ LaneExclusion' /\ StoppedState'
    BY <1>1 DEF Submit, HasCapacity, HoldsCommand, LaneExclusion, StoppedState
  <2>2. LaneState'
    <3> DEFINE k == KeyOf[c]
    <3>1. CASE k \in occupiedKeys
      <4>1. /\ waiting' = [waiting EXCEPT ![k] = Append(waiting[k], c)]
            /\ UNCHANGED <<ready, occupiedKeys, runningKeys, current>>
        BY <1>1, <3>1 DEF Submit, Enqueue
      <4>2. k \in Key /\ waiting[k] \in Seq(Command)
        BY DEF TypeOK
      <4>3. \A i \in DOMAIN Append(waiting[k], c) : KeyOf[Append(waiting[k], c)[i]] = k
        BY <4>2 DEF LaneState
      <4>4. \A l \in Key : \A i \in DOMAIN waiting'[l] : KeyOf[waiting'[l][i]] = l
        BY <4>1, <4>2, <4>3, SMTT(30) DEF LaneState, TypeOK
      <4>5. QED BY <4>1, <4>4 DEF LaneState
    <3>2. CASE k \notin occupiedKeys
      <4>1. /\ occupiedKeys' = occupiedKeys \union {k}
            /\ ready' = Append(ready, c)
            /\ UNCHANGED <<waiting, runningKeys, current>>
        BY <1>1, <3>2 DEF Submit, Enqueue
      <4>2. /\ DOMAIN ready' = 1 .. (Len(ready) + 1) /\ Len(ready) \in Nat
            /\ ready'[Len(ready) + 1] = c
            /\ \A i \in 1 .. Len(ready) : ready'[i] = ready[i] /\ i \in DOMAIN ready
        BY <4>1 DEF TypeOK
      <4>3. \A i, j \in DOMAIN ready' : i # j => KeyOf[ready'[i]] # KeyOf[ready'[j]]
        BY <3>2, <4>2 DEF LaneState
      <4>4. k \notin runningKeys
        BY <3>2 DEF LaneState
      <4>5. \A i \in DOMAIN ready' : KeyOf[ready'[i]] \in occupiedKeys' \ runningKeys'
        BY <4>1, <4>2, <4>4 DEF LaneState
      <4>6. QED BY <4>1, <4>3, <4>5 DEF LaneState
    <3>3. QED BY <3>1, <3>2
  <2>3. QED BY <2>1, <2>2
<1>2. ASSUME NEW c \in Command, SubmitRejected(c) PROVE Goal'
  BY <1>2 DEF SubmitRejected, HoldsCommand, LaneState, LaneExclusion, StoppedState
<1>3. ASSUME NEW w \in Worker, WorkerWait(w) PROVE Goal'
  BY <1>3 DEF WorkerWait, HoldsCommand, LaneState, LaneExclusion, StoppedState
<1>4. ASSUME NEW w \in Worker, WorkerReturn(w) PROVE Goal'
  BY <1>4 DEF WorkerReturn, HoldsCommand, LaneState, LaneExclusion, StoppedState, TypeOK
<1>5. ASSUME NEW w \in Worker, WorkerTake(w) PROVE Goal'
  <2> DEFINE c == ready[1]
  <2>1. /\ Len(ready) \in Nat \ {0} /\ c \in Command /\ Head(ready) = c
        /\ DOMAIN ready' = 1 .. (Len(ready) - 1)
        /\ \A i \in DOMAIN ready' : ready'[i] = ready[i + 1] /\ i + 1 \in DOMAIN ready
    BY <1>5 DEF WorkerTake, TypeOK
  <2>2. HoldsCommand' /\ StoppedState'
    BY <1>5, <2>1 DEF WorkerTake, HoldsCommand, StoppedState, TypeOK
  <2>3. KeyOf[c] \in occupiedKeys \ runningKeys
    BY <2>1 DEF LaneState, TypeOK
  <2>4. LaneExclusion'
    BY <1>5, <2>1, <2>3 DEF WorkerTake, LaneExclusion, LaneState, TypeOK
  <2>5. \A i \in DOMAIN ready' : KeyOf[ready'[i]] # KeyOf[c]
    <3>1. 1 \in DOMAIN ready
      BY <2>1 DEF TypeOK
    <3>2. QED BY <2>1, <3>1 DEF LaneState
  <2>6. LaneState'
    <3>1. /\ runningKeys' = runningKeys \union {KeyOf[c]}
          /\ current' = [current EXCEPT ![w] = c]
          /\ UNCHANGED <<waiting, occupiedKeys>>
      BY <1>5, <2>1 DEF WorkerTake
    <3>2. \A i \in DOMAIN ready' : KeyOf[ready'[i]] \in occupiedKeys' \ runningKeys'
      BY <2>1, <2>5, <3>1 DEF LaneState
    <3>3. \A i, j \in DOMAIN ready' : i # j => KeyOf[ready'[i]] # KeyOf[ready'[j]]
      <4> SUFFICES ASSUME NEW i \in DOMAIN ready', NEW j \in DOMAIN ready', i # j
                   PROVE  KeyOf[ready'[i]] # KeyOf[ready'[j]]
        OBVIOUS
      <4>1. i \in Int /\ j \in Int /\ i + 1 # j + 1
        BY <2>1
      <4>2. QED BY <2>1, <4>1 DEF LaneState
    <3>4. \A v \in Worker : current'[v] # NoCommand =>
              KeyOf[current'[v]] \in occupiedKeys' \intersect runningKeys'
      BY <2>1, <2>3, <3>1 DEF LaneState, TypeOK
    <3>5. runningKeys' \subseteq occupiedKeys'
      BY <2>3, <3>1 DEF LaneState
    <3>6. QED BY <3>1, <3>2, <3>3, <3>4, <3>5 DEF LaneState
  <2>7. QED BY <2>2, <2>4, <2>6
<1>6. ASSUME NEW w \in Worker, NEW r \in {"completed", "failed"}, WorkerRun(w, r)
      PROVE  Goal'
  BY <1>6 DEF WorkerRun, HoldsCommand, LaneState, LaneExclusion, StoppedState, TypeOK
<1>7. ASSUME NEW w \in Worker, WorkerFinish(w) PROVE Goal'
  <2> DEFINE k == KeyOf[current[w]]
  <2>1. /\ current[w] \in Command /\ k \in Key /\ k \in runningKeys
        /\ \A i \in DOMAIN ready : KeyOf[ready[i]] # k
        /\ \A v \in Worker : v # w /\ current[v] # NoCommand => KeyOf[current[v]] # k
    BY <1>7 DEF WorkerFinish, HoldsCommand, LaneState, LaneExclusion, TypeOK
  <2>2. HoldsCommand' /\ LaneExclusion'
    BY <1>7 DEF WorkerFinish, HoldsCommand, LaneExclusion, TypeOK
  <2>3. CASE waiting[k] # <<>>
    <3> DEFINE h == waiting[k][1]
    <3>1. /\ Head(waiting[k]) = h /\ h \in Command /\ KeyOf[h] = k
          /\ ready' = Append(ready, h) /\ occupiedKeys' = occupiedKeys
          /\ waiting' = [waiting EXCEPT ![k] = Tail(@)]
          /\ runningKeys' = runningKeys \ {k}
          /\ current' = [current EXCEPT ![w] = NoCommand]
      BY <1>7, <2>1, <2>3, SMTT(30) DEF WorkerFinish, AdvanceLane, LaneState, TypeOK
    <3>2. /\ DOMAIN ready' = 1 .. (Len(ready) + 1) /\ Len(ready) \in Nat
          /\ ready'[Len(ready) + 1] = h
          /\ \A i \in 1 .. Len(ready) : ready'[i] = ready[i] /\ i \in DOMAIN ready
      BY <3>1, SMTT(30) DEF TypeOK
    <3>3. \A i, j \in DOMAIN ready' : i # j => KeyOf[ready'[i]] # KeyOf[ready'[j]]
      BY <2>1, <3>1, <3>2 DEF LaneState
    <3>4. \A i \in DOMAIN ready' : KeyOf[ready'[i]] \in occupiedKeys' \ runningKeys'
      BY <1>7, <2>1, <3>1, <3>2 DEF LaneState, WorkerFinish, HoldsCommand
    <3>5. \A v \in Worker : current'[v] # NoCommand =>
              KeyOf[current'[v]] \in occupiedKeys' \intersect runningKeys'
      BY <2>1, <3>1 DEF LaneState, TypeOK
    <3>6. \A l \in Key : \A i \in DOMAIN waiting'[l] : KeyOf[waiting'[l][i]] = l
      BY <2>1, <2>3, <3>1, SMTT(30) DEF LaneState, TypeOK
    <3>7. StoppedState'
      BY <1>7, <2>1, <2>3 DEF WorkerFinish, StoppedState
    <3>8. runningKeys' \subseteq occupiedKeys'
      BY <3>1 DEF LaneState
    <3>9. QED BY <2>2, <3>3, <3>4, <3>5, <3>6, <3>7, <3>8 DEF LaneState
  <2>4. CASE waiting[k] = <<>>
    <3>1. LaneState'
      BY <1>7, <2>1, <2>4 DEF WorkerFinish, AdvanceLane, LaneState, TypeOK
    <3>2. StoppedState'
      BY <1>7, <2>4 DEF WorkerFinish, AdvanceLane, StoppedState
    <3>3. QED BY <2>2, <3>1, <3>2
  <2>5. QED BY <2>3, <2>4
<1>8. CASE StopAccepting
  BY <1>8 DEF StopAccepting, CancelPending, HoldsCommand, LaneState, LaneExclusion,
     StoppedState, TypeOK
<1>9. CASE RunCancel
  BY <1>9 DEF RunCancel, HoldsCommand, LaneState, LaneExclusion, StoppedState
<1>10. CASE DrainWait
  BY <1>10 DEF DrainWait, HoldsCommand, LaneState, LaneExclusion, StoppedState
<1>11. CASE DrainDone
  BY <1>11 DEF DrainDone, HoldsCommand, LaneState, LaneExclusion, StoppedState
<1>12. CASE JoinDone
  BY <1>12 DEF JoinDone, HoldsCommand, LaneState, LaneExclusion, StoppedState
<1>13. CASE UNCHANGED vars
  BY <1>13 DEF vars, HoldsCommand, LaneState, LaneExclusion, StoppedState
<1>14. QED
  BY <1>1, <1>2, <1>3, <1>4, <1>5, <1>6, <1>7, <1>8, <1>9, <1>10, <1>11, <1>12, <1>13
     DEF Next, WorkerStep, CloserStep

\* The pool as it is constructed.
LEMMA ExecutorInit == Init => ExecutorInv
<1> SUFFICES ASSUME Init PROVE ExecutorInv
  OBVIOUS
<1>1. TypeOK
  <2>1. <<>> \in Seq(Command)
    OBVIOUS
  <2>2. waiting \in [Key -> Seq(Command)]
    BY <2>1 DEF Init
  <2>3. /\ worker \in [Worker -> {"looking", "running", "finishing", "returned"}]
        /\ current \in [Worker -> Command \union {NoCommand}]
        /\ outcome \in [Command -> Final \union {"new", "queued"}]
    BY DEF Init
  <2>4. accepting \in BOOLEAN /\ stopping \in BOOLEAN /\ drained \in BOOLEAN
    BY Zenon DEF Init
  <2>5. /\ ready \in Seq(Command) /\ cancelled \in Seq(Command) /\ admitted \in Seq(Command)
        /\ occupiedKeys \subseteq Key /\ runningKeys \subseteq Key
        /\ waitset \subseteq Worker \union {Closer}
        /\ outstanding \in Int
    BY <2>1 DEF Init
  <2>6. closer \in {"serving", "stopped", "draining", "joining", "returned"}
    BY DEF Init
  <2>7. QED BY <2>2, <2>3, <2>4, <2>5, <2>6, Zenon DEF TypeOK
<1>2. HoldsCommand /\ LaneExclusion /\ StoppedState
  <2>1. \A w \in Worker : worker[w] = "looking" /\ current[w] = NoCommand
    BY DEF Init
  <2>2. closer = "serving"
    BY DEF Init
  <2>3. QED BY <2>1, <2>2 DEF HoldsCommand, LaneExclusion, StoppedState
<1>3. LaneState
  BY DEF Init, LaneState
<1>4. QED BY <1>1, <1>2, <1>3 DEF ExecutorInv

\* The inductive invariant holds in every reachable state of the executor.
THEOREM ExecutorInvariant == Spec => []ExecutorInv
<1>1. Init => ExecutorInv
  BY ExecutorInit
<1>2. ExecutorInv /\ [Next]_vars => ExecutorInv'
  BY TypeStep, LaneStep DEF ExecutorInv
<1>3. QED
  BY <1>1, <1>2, PTL DEF Spec

\* Commands with equal keys never run at the same time, for any number of
\* workers: BoundedCommandExecutor is one serial lane per key.
THEOREM LanesExclusive == Spec => []LaneExclusion
<1>1. ExecutorInv => LaneExclusion
  BY DEF ExecutorInv
<1>2. QED
  BY <1>1, ExecutorInvariant, PTL

\* The executor's fields keep their types.
THEOREM TypeCorrect == Spec => []TypeOK
<1>1. ExecutorInv => TypeOK
  BY DEF ExecutorInv
<1>2. QED
  BY <1>1, ExecutorInvariant, PTL

\* After stop_accepting(cancel_pending=True) has released the lock, no worker
\* takes another command.
THEOREM StopIsFinal == Spec => NothingBeginsAfterStop
<1> DEFINE Quiet == closer # "serving" =>
             \A w \in Worker : current[w] = NoCommand => current'[w] = NoCommand
<1>1. ExecutorInv /\ [Next]_vars => [Quiet]_vars
  <2> SUFFICES ASSUME ExecutorInv, Next, closer # "serving",
                      NEW w \in Worker, current[w] = NoCommand
               PROVE  current'[w] = NoCommand
    OBVIOUS
  <2>1. ready = <<>> /\ ~accepting
    BY DEF ExecutorInv, StoppedState
  <2>2. \A v \in Worker : ~WorkerTake(v)
    BY <2>1 DEF WorkerTake
  <2>3. current' = current \/ \E v \in Worker : WorkerFinish(v)
    BY <2>2 DEF Next, WorkerStep, CloserStep, Submit, SubmitRejected, WorkerWait,
       WorkerReturn, WorkerRun, StopAccepting, RunCancel, DrainWait, DrainDone, JoinDone
  <2>4. QED
    BY <2>3 DEF WorkerFinish, ExecutorInv, TypeOK
<1>2. QED
  BY <1>1, ExecutorInvariant, PTL DEF Spec, NothingBeginsAfterStop

-----------------------------------------------------------------------------
(* Order, capacity and the refinement of SerialLanes.  The inductive       *)
(* invariant says where each accepted command is and what its submitter    *)
(* knows.                                                                  *)

Done == {"completed", "failed"}
Held == {current[w] : w \in Worker} \ {NoCommand}

\* A queued command is in one place, and its submitter has heard nothing.
Placed ==
    /\ \A k \in Key : \A i, j \in DOMAIN waiting[k] : i # j => waiting[k][i] # waiting[k][j]
    /\ \A k \in Key : \A c \in Elements(waiting[k]) :
          outcome[c] = "queued" /\ k \in occupiedKeys /\ c \notin Elements(ready) \union Held
    /\ \A c \in Elements(ready) : outcome[c] = "queued"
    /\ \A w \in Worker :
          /\ worker[w] = "running" => outcome[current[w]] = "queued"
          /\ worker[w] = "finishing" => outcome[current[w]] \in Done

\* An occupied lane has a command that is ready or held, a running one a
\* command that is held.
Occupied ==
    /\ \A k \in occupiedKeys : \E c \in Elements(ready) \union Held : KeyOf[c] = k
    /\ \A k \in runningKeys : \E c \in Held : KeyOf[c] = k

\* on_cancel is owed to commands that left the queues; nothing else that was
\* accepted is forgotten.
Owed ==
    /\ \A i, j \in DOMAIN cancelled : i # j => cancelled[i] # cancelled[j]
    /\ \A c \in Elements(cancelled) : outcome[c] = "queued" /\ c \notin Pending \union Held
    /\ \A c \in Command : outcome[c] = "queued" => c \in Pending \union Held \union Elements(cancelled)
    /\ \A c \in Command : c \in Elements(cancelled) \/ outcome[c] = "cancelled" => closer # "serving"

\* The history of accepted commands.
Admitted ==
    /\ \A i, j \in DOMAIN admitted : i # j => admitted[i] # admitted[j]
    /\ \A c \in Command : c \in Elements(admitted) <=> outcome[c] \notin {"new", "rejected"}

\* In a lane the commands before one that is ready, held or done are done,
\* and the waiting ones wait in the order of their submission.
Ordered ==
    /\ \A i, j \in DOMAIN admitted :
          (/\ i < j
           /\ KeyOf[admitted[i]] = KeyOf[admitted[j]]
           /\ admitted[j] \in Elements(ready) \union Held \/ outcome[admitted[j]] \in Done)
              => outcome[admitted[i]] \in Done
    /\ \A k \in Key : \A p, q \in DOMAIN waiting[k] : \A i, j \in DOMAIN admitted :
          p < q /\ admitted[i] = waiting[k][p] /\ admitted[j] = waiting[k][q] => i < j

\* The inductive invariant of the bookkeeping.
BookkeepingInv ==
    /\ ExecutorInv /\ Placed /\ Occupied /\ Owed /\ Admitted /\ Ordered
    /\ CapacityExact /\ DrainedMeansResolved

\* One step of the executor keeps ExecutorInv.
LEMMA ExecutorStep ==
    ASSUME ExecutorInv, [Next]_vars
    PROVE  ExecutorInv'
  BY TypeStep, LaneStep DEF ExecutorInv

\* What an append does to the elements of a sequence.
LEMMA AppendElements ==
    ASSUME NEW s \in Seq(Command), NEW c \in Command
    PROVE  /\ Append(s, c) \in Seq(Command) /\ Len(s) \in Nat
           /\ DOMAIN s = 1 .. Len(s) /\ DOMAIN Append(s, c) = 1 .. (Len(s) + 1)
           /\ Append(s, c)[Len(s) + 1] = c
           /\ \A i \in 1 .. Len(s) : Append(s, c)[i] = s[i]
           /\ Elements(Append(s, c)) = Elements(s) \union {c}
<1>1. PICK a : a = Append(s, c)
  OBVIOUS
<1>2. /\ a \in Seq(Command) /\ Len(s) \in Nat /\ DOMAIN s = 1 .. Len(s)
      /\ DOMAIN a = 1 .. (Len(s) + 1) /\ a[Len(s) + 1] = c
      /\ \A i \in 1 .. Len(s) : a[i] = s[i]
  BY <1>1
<1>3. Elements(a) = Elements(s) \union {c}
  <2>1. \A x \in Elements(a) : x \in Elements(s) \union {c}
    BY <1>2 DEF Elements
  <2>2. \A x \in Elements(s) : x \in Elements(a)
    BY <1>2 DEF Elements
  <2>3. c \in Elements(a)
    BY <1>2 DEF Elements
  <2>4. QED
    BY <2>1, <2>2, <2>3
<1>4. QED
  BY <1>1, <1>2, <1>3

\* What taking the head does to the elements of a sequence without repetition.
LEMMA TailElements ==
    ASSUME NEW s \in Seq(Command), s # <<>>,
           \A i, j \in DOMAIN s : i # j => s[i] # s[j]
    PROVE  /\ Head(s) \in Command /\ Head(s) = s[1] /\ Tail(s) \in Seq(Command)
           /\ DOMAIN s = 1 .. Len(s) /\ Len(s) \in Nat \ {0} /\ 1 \in DOMAIN s
           /\ DOMAIN Tail(s) = 1 .. (Len(s) - 1)
           /\ \A i \in DOMAIN Tail(s) : Tail(s)[i] = s[i + 1] /\ i + 1 \in DOMAIN s
           /\ Elements(s) = Elements(Tail(s)) \union {Head(s)}
           /\ Head(s) \notin Elements(Tail(s))
           /\ \A i, j \in DOMAIN Tail(s) : i # j => Tail(s)[i] # Tail(s)[j]
<1>1. PICK t : t = Tail(s)
  OBVIOUS
<1>2. /\ Head(s) \in Command /\ Head(s) = s[1] /\ t \in Seq(Command)
      /\ DOMAIN s = 1 .. Len(s) /\ Len(s) \in Nat \ {0} /\ 1 \in DOMAIN s
      /\ DOMAIN t = 1 .. (Len(s) - 1)
      /\ \A i \in DOMAIN t : t[i] = s[i + 1] /\ i + 1 \in DOMAIN s
  BY <1>1
<1>3. Elements(s) = Elements(t) \union {Head(s)}
  <2>1. ASSUME NEW i \in DOMAIN s PROVE s[i] \in Elements(t) \union {Head(s)}
    <3>1. CASE i = 1
      BY <1>2, <3>1
    <3>2. CASE i # 1
      <4>1. i - 1 \in DOMAIN t /\ t[i - 1] = s[i]
        BY <1>2, <2>1, <3>2
      <4>2. QED
        BY <4>1 DEF Elements
    <3>3. QED
      BY <3>1, <3>2
  <2>2. Elements(t) \subseteq Elements(s) /\ Head(s) \in Elements(s)
    BY <1>2 DEF Elements
  <2>3. Elements(s) \subseteq Elements(t) \union {Head(s)}
    BY <2>1 DEF Elements
  <2>4. QED
    BY <2>2, <2>3
<1>4. \A i \in DOMAIN t : t[i] # s[1]
  <2>1. \A i \in DOMAIN t : i \in Int /\ i + 1 # 1
    BY <1>2
  <2>2. QED
    BY <1>2, <2>1
<1>5. Head(s) \notin Elements(t)
  BY <1>2, <1>4 DEF Elements
<1>6. ASSUME NEW i \in DOMAIN t, NEW j \in DOMAIN t, i # j PROVE t[i] # t[j]
  <2>1. i \in Int /\ j \in Int /\ i + 1 # j + 1
    BY <1>2, <1>6
  <2>2. QED
    BY <1>2, <2>1
<1>7. QED
  BY <1>1, <1>2, <1>3, <1>5, <1>6

\* The commands the executor knows of.
LEMMA SetFacts ==
    ASSUME ExecutorInv
    PROVE  /\ Elements(ready) \subseteq Command /\ Held \subseteq Command
           /\ \A k \in Key : Elements(waiting[k]) \subseteq Command
           /\ Pending \subseteq Command /\ IsFiniteSet(Pending) /\ IsFiniteSet(Held)
           /\ Elements(cancelled) \subseteq Command /\ Elements(admitted) \subseteq Command
           /\ \A c \in Pending : c \in Elements(ready) \/ \E k \in Key : c \in Elements(waiting[k])
           /\ \A k \in Key : \A c \in Elements(waiting[k]) : KeyOf[c] = k /\ c \in Pending
           /\ Elements(ready) \subseteq Pending
           /\ \A c \in Elements(ready) : c \notin Held
           /\ \A c \in Held : \E w \in Worker : current[w] = c
           /\ \A w \in Worker : worker[w] \in {"running", "finishing"} => current[w] \in Held
<1>1. /\ Elements(ready) \subseteq Command /\ Held \subseteq Command
      /\ \A k \in Key : Elements(waiting[k]) \subseteq Command
      /\ Elements(cancelled) \subseteq Command /\ Elements(admitted) \subseteq Command
  BY DEF ExecutorInv, TypeOK, Elements, Held
<1>2. /\ Pending \subseteq Command /\ Elements(ready) \subseteq Pending
      /\ \A c \in Pending : c \in Elements(ready) \/ \E k \in Key : c \in Elements(waiting[k])
      /\ \A k \in Key : \A c \in Elements(waiting[k]) : c \in Pending
  BY <1>1 DEF Pending
<1>3. IsFiniteSet(Pending) /\ IsFiniteSet(Held)
  BY <1>1, <1>2, ExecutorAssumption, FS_Subset
<1>4. \A k \in Key : \A c \in Elements(waiting[k]) : KeyOf[c] = k
  BY DEF ExecutorInv, LaneState, Elements
<1>5. \A c \in Elements(ready) : c \notin Held
  BY DEF ExecutorInv, LaneState, Elements, Held
<1>6. /\ \A c \in Held : \E w \in Worker : current[w] = c
      /\ \A w \in Worker : worker[w] \in {"running", "finishing"} => current[w] \in Held
  BY DEF ExecutorInv, HoldsCommand, Held
<1>7. QED
  BY <1>1, <1>2, <1>3, <1>4, <1>5, <1>6

\* A step that moves no command.
LEMMA QuietStep ==
    ASSUME BookkeepingInv, ExecutorInv', DrainedMeansResolved',
           UNCHANGED <<ready, waiting, occupiedKeys, runningKeys, outstanding, current,
                       cancelled, admitted>>,
           \A c \in Command : outcome'[c] = outcome[c]
              \/ (outcome[c] = "new" /\ outcome'[c] = "rejected"),
           \A w \in Worker : worker'[w] = worker[w] \/ worker'[w] = "returned",
           closer # "serving" => closer' # "serving"
    PROVE  BookkeepingInv'
<1>1. /\ Held' = Held /\ Pending' = Pending /\ Elements(ready)' = Elements(ready)
      /\ Elements(cancelled)' = Elements(cancelled) /\ Elements(admitted)' = Elements(admitted)
  BY DEF Held, Pending, Elements
<1>2. ExecutorInv
  BY DEF BookkeepingInv
<1>3. /\ Elements(ready) \subseteq Command /\ Held \subseteq Command
      /\ \A k \in Key : Elements(waiting[k]) \subseteq Command
      /\ Elements(cancelled) \subseteq Command
      /\ \A w \in Worker : worker[w] \in {"running", "finishing"} => current[w] \in Held
  BY <1>2, SetFacts
<1>4. Placed'
  <2>1. \A w \in Worker :
          /\ worker'[w] = "running" => outcome'[current[w]] = "queued"
          /\ worker'[w] = "finishing" => outcome'[current[w]] \in Done
    BY <1>3 DEF BookkeepingInv, Placed, Done
  <2>2. QED
    BY <1>1, <1>3, <2>1 DEF BookkeepingInv, Placed
<1>5. Occupied'
  BY <1>1 DEF BookkeepingInv, Occupied
<1>6. Owed'
  BY <1>1, <1>3 DEF BookkeepingInv, Owed
<1>7. Admitted'
  BY <1>1 DEF BookkeepingInv, Admitted
<1>8. Ordered'
  <2>1. \A j \in DOMAIN admitted : admitted[j] \in Command
    BY <1>2 DEF ExecutorInv, TypeOK
  <2>2. \A j \in DOMAIN admitted : outcome'[admitted[j]] \in Done <=> outcome[admitted[j]] \in Done
    BY <2>1 DEF Done
  <2>3. QED
    BY <1>1, <2>2 DEF BookkeepingInv, Ordered
<1>9. CapacityExact'
  BY <1>1 DEF BookkeepingInv, CapacityExact, Held
<1>10. QED
  BY <1>4, <1>5, <1>6, <1>7, <1>8, <1>9 DEF BookkeepingInv

\* What submit() finds and does: a command nobody knows of, which joins the
\* end of its lane or, the lane being free, the ready queue.
LEMMA SubmitMoves ==
    ASSUME BookkeepingInv, NEW c \in Command, Submit(c)
    PROVE  /\ outcome[c] = "new" /\ outcome' = [outcome EXCEPT ![c] = "queued"]
           /\ closer = "serving" /\ accepting /\ KeyOf[c] \in Key
           /\ c \notin Pending \union Held \union Elements(admitted)
           /\ Elements(cancelled) = {}
           /\ Held' = Held /\ Pending' = Pending \union {c}
           /\ Elements(ready') \subseteq Elements(ready) \union {c}
           /\ Elements(ready) \subseteq Elements(ready')
           /\ \/ /\ KeyOf[c] \in occupiedKeys
                 /\ waiting' = [waiting EXCEPT ![KeyOf[c]] = Append(waiting[KeyOf[c]], c)]
                 /\ ready' = ready /\ occupiedKeys' = occupiedKeys
              \/ /\ KeyOf[c] \notin occupiedKeys
                 /\ ready' = Append(ready, c) /\ waiting' = waiting
                 /\ occupiedKeys' = occupiedKeys \union {KeyOf[c]}
                 /\ c \in Elements(ready')
<1>1. ExecutorInv /\ KeyOf[c] \in Key
  BY ExecutorAssumption DEF BookkeepingInv
<1>2. /\ outcome[c] = "new" /\ outcome' = [outcome EXCEPT ![c] = "queued"]
      /\ accepting /\ current' = current
  BY DEF Submit, HasCapacity
<1>3. closer = "serving"
  BY <1>1, <1>2 DEF ExecutorInv, StoppedState
<1>4. c \notin Pending
  BY <1>1, <1>2, SetFacts DEF BookkeepingInv, Placed
<1>5. c \notin Held
  <2>1. ASSUME NEW w \in Worker, current[w] = c PROVE FALSE
    <3>1. worker[w] \in {"running", "finishing"}
      BY <1>1, <2>1, ExecutorAssumption DEF ExecutorInv, HoldsCommand
    <3>2. QED
      BY <1>2, <2>1, <3>1 DEF BookkeepingInv, Placed, Done
  <2>2. QED
    BY <2>1 DEF Held
<1>6. c \notin Elements(admitted)
  BY <1>2 DEF BookkeepingInv, Admitted
<1>7. Elements(cancelled) = {}
  BY <1>1, <1>3, SetFacts DEF BookkeepingInv, Owed
<1>8. Held' = Held
  BY <1>2 DEF Held
<1>9. CASE KeyOf[c] \in occupiedKeys
  <2>1. /\ waiting' = [waiting EXCEPT ![KeyOf[c]] = Append(waiting[KeyOf[c]], c)]
        /\ ready' = ready /\ occupiedKeys' = occupiedKeys
    BY <1>9 DEF Submit, Enqueue
  <2>2. /\ waiting \in [Key -> Seq(Command)] /\ waiting[KeyOf[c]] \in Seq(Command)
    BY <1>1 DEF ExecutorInv, TypeOK
  <2>3. Elements(Append(waiting[KeyOf[c]], c)) = Elements(waiting[KeyOf[c]]) \union {c}
    BY <2>2, AppendElements
  <2>4. /\ \A k \in Key : k # KeyOf[c] => waiting'[k] = waiting[k]
        /\ Elements(waiting'[KeyOf[c]]) = Elements(waiting[KeyOf[c]]) \union {c}
    BY <1>1, <2>1, <2>2, <2>3
  <2>5. Pending' = Elements(ready) \union UNION {Elements(waiting'[k]) : k \in Key}
    BY <2>1 DEF Pending
  <2>6. Pending' = Pending \union {c}
    <3>1. \A x \in Pending' : x \in Pending \union {c}
      BY <2>4, <2>5 DEF Pending
    <3>2. \A x \in Pending : x \in Pending'
      <4>1. \A k \in Key : Elements(waiting[k]) \subseteq Elements(waiting'[k])
        BY <2>4
      <4>2. QED
        BY <2>5, <4>1 DEF Pending
    <3>3. c \in Pending'
      BY <1>1, <2>4, <2>5
    <3>4. QED
      BY <3>1, <3>2, <3>3
  <2>7. QED
    BY <1>1, <1>2, <1>3, <1>4, <1>5, <1>6, <1>7, <1>8, <1>9, <2>1, <2>6
<1>10. CASE KeyOf[c] \notin occupiedKeys
  <2>1. /\ occupiedKeys' = occupiedKeys \union {KeyOf[c]}
        /\ ready' = Append(ready, c) /\ waiting' = waiting
    BY <1>10 DEF Submit, Enqueue
  <2>2. Elements(ready') = Elements(ready) \union {c}
    BY <1>1, <2>1, AppendElements DEF ExecutorInv, TypeOK
  <2>3. Pending' = Pending \union {c}
    BY <2>1, <2>2 DEF Pending
  <2>4. QED
    BY <1>1, <1>2, <1>3, <1>4, <1>5, <1>6, <1>7, <1>8, <1>10, <2>1, <2>2, <2>3
<1>11. QED
  BY <1>9, <1>10

\* submit() keeps the books.
LEMMA SubmitStep ==
    ASSUME BookkeepingInv, ExecutorInv', NEW c \in Command, Submit(c)
    PROVE  BookkeepingInv'
<1> DEFINE k == KeyOf[c]
<1>1. /\ outcome[c] = "new" /\ outcome' = [outcome EXCEPT ![c] = "queued"]
      /\ closer = "serving" /\ accepting /\ k \in Key
      /\ c \notin Pending \union Held \union Elements(admitted)
      /\ Elements(cancelled) = {}
      /\ Held' = Held /\ Pending' = Pending \union {c}
      /\ Elements(ready') \subseteq Elements(ready) \union {c}
      /\ Elements(ready) \subseteq Elements(ready')
      /\ \/ /\ k \in occupiedKeys
            /\ waiting' = [waiting EXCEPT ![k] = Append(waiting[k], c)]
            /\ ready' = ready /\ occupiedKeys' = occupiedKeys
         \/ /\ k \notin occupiedKeys
            /\ ready' = Append(ready, c) /\ waiting' = waiting
            /\ occupiedKeys' = occupiedKeys \union {k}
            /\ c \in Elements(ready')
  BY SubmitMoves
<1> HIDE DEF k
<1>2. /\ ExecutorInv /\ Placed /\ Occupied /\ Owed /\ Admitted /\ Ordered /\ CapacityExact
      /\ TypeOK
  BY DEF BookkeepingInv, ExecutorInv
<1>3. /\ UNCHANGED <<runningKeys, worker, current, closer, cancelled, drained>>
      /\ outstanding' = outstanding + 1 /\ outstanding < MaxCommands
      /\ admitted' = Append(admitted, c)
  BY DEF Submit, HasCapacity, closerVars
<1>4. outcome'[c] = "queued" /\ \A d \in Command : d # c => outcome'[d] = outcome[d]
  BY <1>1, <1>2 DEF TypeOK
<1>5. /\ Elements(ready) \subseteq Command /\ Held \subseteq Command /\ Pending \subseteq Command
      /\ \A l \in Key : Elements(waiting[l]) \subseteq Command
      /\ \A l \in Key : \A d \in Elements(waiting[l]) : KeyOf[d] = l /\ d \in Pending
      /\ Elements(ready) \subseteq Pending
      /\ IsFiniteSet(Pending) /\ IsFiniteSet(Held)
      /\ \A w \in Worker : worker[w] \in {"running", "finishing"} => current[w] \in Held
  BY <1>2, SetFacts
<1>6. /\ \A l \in Key : l # k => waiting'[l] = waiting[l]
      /\ \/ waiting'[k] = waiting[k]
         \/ /\ waiting'[k] = Append(waiting[k], c) /\ k \in occupiedKeys
            /\ ready' = ready
      /\ waiting[k] \in Seq(Command)
  BY <1>1, <1>2 DEF TypeOK
<1>7. \/ waiting'[k] = waiting[k]
      \/ /\ k \in occupiedKeys /\ ready' = ready
         /\ Len(waiting[k]) \in Nat /\ DOMAIN waiting[k] = 1 .. Len(waiting[k])
         /\ DOMAIN waiting'[k] = 1 .. (Len(waiting[k]) + 1)
         /\ waiting'[k][Len(waiting[k]) + 1] = c
         /\ \A i \in 1 .. Len(waiting[k]) : waiting'[k][i] = waiting[k][i]
         /\ Elements(waiting'[k]) = Elements(waiting[k]) \union {c}
  <2>1. PICK a : a = Append(waiting[k], c)
    OBVIOUS
  <2>2. /\ Len(waiting[k]) \in Nat /\ DOMAIN waiting[k] = 1 .. Len(waiting[k])
        /\ DOMAIN a = 1 .. (Len(waiting[k]) + 1) /\ a[Len(waiting[k]) + 1] = c
        /\ \A i \in 1 .. Len(waiting[k]) : a[i] = waiting[k][i]
        /\ Elements(a) = Elements(waiting[k]) \union {c}
    BY <1>6, <2>1, AppendElements
  <2>3. CASE waiting'[k] = a /\ k \in occupiedKeys /\ ready' = ready
    BY <2>2, <2>3
  <2>4. QED
    BY <1>6, <2>1, <2>3
<1>8. Placed'
  <2>1. ASSUME NEW l \in Key, NEW i \in DOMAIN waiting'[l], NEW j \in DOMAIN waiting'[l], i # j
        PROVE  waiting'[l][i] # waiting'[l][j]
    <3>1. \A h \in DOMAIN waiting[l] : waiting[l][h] # c
      BY <1>1, <1>5 DEF Elements
    <3>2. CASE waiting'[l] = waiting[l]
      BY <1>2, <2>1, <3>2 DEF Placed
    <3>3. CASE waiting'[l] # waiting[l]
      <4>1. l = k /\ Len(waiting[k]) \in Nat
        BY <1>6, <1>7, <3>3
      <4>2. i \in 1 .. (Len(waiting[k]) + 1) /\ j \in 1 .. (Len(waiting[k]) + 1)
        BY <1>7, <2>1, <3>3, <4>1
      <4>3. CASE i \in 1 .. Len(waiting[k]) /\ j \in 1 .. Len(waiting[k])
        BY <1>2, <1>7, <2>1, <3>3, <4>1, <4>3 DEF Placed
      <4>4. CASE i = Len(waiting[k]) + 1 /\ j \in 1 .. Len(waiting[k])
        BY <1>7, <3>1, <3>3, <4>1, <4>4
      <4>5. CASE j = Len(waiting[k]) + 1 /\ i \in 1 .. Len(waiting[k])
        BY <1>7, <3>1, <3>3, <4>1, <4>5
      <4>6. QED
        BY <2>1, <4>1, <4>2, <4>3, <4>4, <4>5
    <3>4. QED
      BY <3>2, <3>3
  <2>2. ASSUME NEW l \in Key, NEW d \in Elements(waiting'[l])
        PROVE  /\ outcome'[d] = "queued" /\ l \in occupiedKeys'
               /\ d \notin Elements(ready') \union Held'
    <3>1. CASE d \in Elements(waiting[l])
      <4>1. /\ outcome[d] = "queued" /\ l \in occupiedKeys /\ d \notin Elements(ready) \union Held
            /\ d \in Pending /\ d \in Command
        BY <1>2, <1>5, <3>1 DEF Placed
      <4>2. QED
        BY <1>1, <1>4, <4>1
    <3>2. CASE d \notin Elements(waiting[l])
      <4>1. l = k /\ d = c /\ k \in occupiedKeys /\ ready' = ready
        BY <1>6, <1>7, <2>2, <3>2
      <4>2. QED
        BY <1>1, <1>4, <1>5, <4>1
    <3>3. QED
      BY <3>1, <3>2
  <2>3. \A d \in Elements(ready') : outcome'[d] = "queued"
    BY <1>1, <1>2, <1>4, <1>5 DEF Placed
  <2>4. ASSUME NEW w \in Worker
        PROVE  /\ worker'[w] = "running" => outcome'[current'[w]] = "queued"
               /\ worker'[w] = "finishing" => outcome'[current'[w]] \in Done
    BY <1>1, <1>2, <1>3, <1>4, <1>5 DEF Placed
  <2>5. QED
    BY <2>1, <2>2, <2>3, <2>4 DEF Placed
<1>9. Occupied'
  <2>1. \A l \in occupiedKeys' : \E d \in Elements(ready') \union Held' : KeyOf[d] = l
    BY <1>1, <1>2 DEF Occupied, k
  <2>2. QED
    BY <1>1, <1>2, <1>3, <2>1 DEF Occupied
<1>10. Owed'
  <2>1. cancelled' = cancelled /\ Elements(cancelled)' = {}
    BY <1>1, <1>3 DEF Elements
  <2>2. \A d \in Command : outcome'[d] = "queued" => d \in Pending' \union Held'
    BY <1>1, <1>2, <1>4 DEF Owed
  <2>3. \A d \in Command : outcome'[d] # "cancelled"
    BY <1>1, <1>2, <1>4 DEF Owed
  <2>4. \A i, j \in DOMAIN cancelled' : i # j => cancelled'[i] # cancelled'[j]
    BY <1>2, <2>1 DEF Owed
  <2>5. QED
    BY <2>1, <2>2, <2>3, <2>4 DEF Owed
<1>11. /\ Len(admitted) \in Nat /\ DOMAIN admitted = 1 .. Len(admitted)
       /\ DOMAIN admitted' = 1 .. (Len(admitted) + 1) /\ admitted'[Len(admitted) + 1] = c
       /\ \A i \in 1 .. Len(admitted) : admitted'[i] = admitted[i]
       /\ Elements(admitted') = Elements(admitted) \union {c}
  BY <1>2, <1>3, AppendElements DEF TypeOK
<1>12. \A i \in 1 .. Len(admitted) : admitted'[i] = admitted[i] /\ admitted[i] # c
          /\ admitted[i] \in Command /\ outcome'[admitted[i]] = outcome[admitted[i]]
  <2>1. \A i \in DOMAIN admitted : admitted[i] # c /\ admitted[i] \in Command
    BY <1>1, <1>2 DEF Elements, TypeOK
  <2>2. QED
    BY <1>4, <1>11, <2>1
<1>13. Admitted'
  <2>1. ASSUME NEW i \in DOMAIN admitted', NEW j \in DOMAIN admitted', i # j
        PROVE  admitted'[i] # admitted'[j]
    <3>1. CASE i \in 1 .. Len(admitted) /\ j \in 1 .. Len(admitted)
      BY <1>2, <1>11, <1>12, <2>1, <3>1 DEF Admitted
    <3>2. CASE i = Len(admitted) + 1 /\ j \in 1 .. Len(admitted)
      BY <1>11, <1>12, <3>2
    <3>3. CASE j = Len(admitted) + 1 /\ i \in 1 .. Len(admitted)
      BY <1>11, <1>12, <3>3
    <3>4. QED
      BY <1>11, <2>1, <3>1, <3>2, <3>3
  <2>2. \A d \in Command : d \in Elements(admitted') <=> outcome'[d] \notin {"new", "rejected"}
    BY <1>1, <1>2, <1>4, <1>11 DEF Admitted
  <2>3. QED
    BY <2>1, <2>2 DEF Admitted
<1>14. Ordered'
  <2>1. ASSUME NEW i \in DOMAIN admitted', NEW j \in DOMAIN admitted', i < j,
               KeyOf[admitted'[i]] = KeyOf[admitted'[j]],
               admitted'[j] \in Elements(ready') \union Held' \/ outcome'[admitted'[j]] \in Done
        PROVE  outcome'[admitted'[i]] \in Done
    <3>1. i \in 1 .. Len(admitted) /\ j \in 1 .. (Len(admitted) + 1)
      BY <1>11, <2>1
    <3>2. CASE j \in 1 .. Len(admitted)
      <4>1. /\ admitted[j] # c /\ admitted'[j] = admitted[j] /\ admitted'[i] = admitted[i]
            /\ outcome'[admitted[j]] = outcome[admitted[j]]
            /\ outcome'[admitted[i]] = outcome[admitted[i]]
        BY <1>12, <3>1, <3>2
      <4>2. admitted[j] \in Elements(ready) \union Held \/ outcome[admitted[j]] \in Done
        BY <1>1, <2>1, <4>1
      <4>3. QED
        BY <1>2, <1>11, <2>1, <3>1, <3>2, <4>1, <4>2 DEF Ordered
    <3>3. CASE j = Len(admitted) + 1
      <4>1. admitted'[j] = c /\ outcome'[c] \notin Done /\ KeyOf[admitted[i]] = k
        BY <1>4, <1>11, <1>12, <2>1, <3>1, <3>3 DEF Done, k
      <4>2. k \notin occupiedKeys
        BY <1>1, <1>5, <2>1, <4>1
      <4>3. admitted[i] \notin Pending
        <5>1. \A d \in Elements(ready) : KeyOf[d] \in occupiedKeys
          BY <1>2 DEF ExecutorInv, LaneState, Elements
        <5>2. \A l \in Key : \A d \in Elements(waiting[l]) : KeyOf[d] \in occupiedKeys
          BY <1>2, <1>5 DEF Placed
        <5>3. QED
          BY <1>2, <4>1, <4>2, <5>1, <5>2, SetFacts
      <4>4. admitted[i] \notin Held
        BY <1>2, <4>1, <4>2 DEF ExecutorInv, LaneState, Held
      <4>5. outcome[admitted[i]] \notin {"queued", "cancelled", "new", "rejected"}
        <5>1. admitted[i] \in Elements(admitted) /\ admitted[i] \in Command
          BY <1>11, <1>12, <3>1 DEF Elements
        <5>2. QED
          BY <1>1, <1>2, <4>3, <4>4, <5>1 DEF Owed, Admitted
      <4>6. outcome[admitted[i]] \in Done
        BY <1>2, <1>12, <3>1, <4>5 DEF TypeOK, Final, Done
      <4>7. QED
        BY <1>12, <3>1, <4>6
    <3>4. QED
      BY <1>11, <3>1, <3>2, <3>3
  <2>2. ASSUME NEW l \in Key, NEW p \in DOMAIN waiting'[l], NEW q \in DOMAIN waiting'[l],
               NEW i \in DOMAIN admitted', NEW j \in DOMAIN admitted',
               p < q, admitted'[i] = waiting'[l][p], admitted'[j] = waiting'[l][q]
        PROVE  i < j
    <3>1. i \in 1 .. (Len(admitted) + 1) /\ j \in 1 .. (Len(admitted) + 1) /\ Len(admitted) \in Nat
      BY <1>11
    <3>2. \A h \in DOMAIN waiting[l] : waiting[l][h] # c
      BY <1>1, <1>5 DEF Elements
    <3>3. CASE waiting'[l] = waiting[l]
      <4>1. i \in 1 .. Len(admitted) /\ j \in 1 .. Len(admitted)
        BY <1>11, <2>2, <3>1, <3>2, <3>3
      <4>2. QED
        BY <1>2, <1>11, <1>12, <2>2, <3>3, <4>1 DEF Ordered
    <3>4. CASE waiting'[l] # waiting[l]
      <4>1. l = k /\ Len(waiting[k]) \in Nat /\ p \in 1 .. Len(waiting[k])
            /\ q \in 1 .. (Len(waiting[k]) + 1)
        BY <1>6, <1>7, <2>2, <3>4
      <4>2. waiting'[k][p] = waiting[k][p] /\ waiting[k][p] # c /\ p \in DOMAIN waiting[k]
        BY <1>7, <3>2, <3>4, <4>1
      <4>3. i \in 1 .. Len(admitted)
        BY <1>11, <2>2, <3>1, <4>1, <4>2
      <4>4. CASE q = Len(waiting[k]) + 1
        <5>1. admitted'[j] = c
          BY <1>7, <2>2, <3>4, <4>1, <4>4
        <5>2. j = Len(admitted) + 1
          BY <1>12, <3>1, <5>1
        <5>3. QED
          BY <3>1, <4>3, <5>2
      <4>5. CASE q \in 1 .. Len(waiting[k])
        <5>1. waiting'[k][q] = waiting[k][q] /\ waiting[k][q] # c /\ q \in DOMAIN waiting[k]
          BY <1>7, <3>2, <3>4, <4>1, <4>5
        <5>2. j \in 1 .. Len(admitted)
          BY <1>11, <2>2, <3>1, <4>1, <5>1
        <5>3. QED
          BY <1>2, <1>11, <1>12, <2>2, <4>1, <4>2, <4>3, <5>1, <5>2 DEF Ordered
      <4>6. QED
        BY <4>1, <4>4, <4>5
    <3>5. QED
      BY <3>3, <3>4
  <2>3. QED
    BY <2>1, <2>2 DEF Ordered
<1>15. CapacityExact'
  <2>1. outstanding = Cardinality(Pending \union Held) /\ outstanding <= MaxCommands
    BY <1>2 DEF CapacityExact, Held
  <2>2. IsFiniteSet(Pending \union Held)
    BY <1>5, FS_Union
  <2>3. Cardinality((Pending \union Held) \union {c}) = Cardinality(Pending \union Held) + 1
    BY <1>1, <2>2, FS_AddElement
  <2>4. Pending' \union Held' = (Pending \union Held) \union {c}
    BY <1>1
  <2>5. outstanding \in Int /\ MaxCommands \in Nat
    BY <1>2, ExecutorAssumption DEF TypeOK
  <2>6. outstanding' <= MaxCommands
    BY <1>3, <2>5
  <2>7. outstanding' = Cardinality(Pending' \union Held')
    BY <1>3, <2>1, <2>3, <2>4
  <2>8. QED
    BY <2>6, <2>7 DEF CapacityExact, Held
<1>16. DrainedMeansResolved'
  BY <1>1, <1>3 DEF DrainedMeansResolved
<1>17. QED
  BY <1>8, <1>9, <1>10, <1>13, <1>14, <1>15, <1>16 DEF BookkeepingInv

\* A worker takes a command: it stays in the same lane, at its front.
LEMMA TakeStep ==
    ASSUME BookkeepingInv, ExecutorInv', NEW w \in Worker, WorkerTake(w)
    PROVE  BookkeepingInv'
<1>1. /\ ExecutorInv /\ Placed /\ Occupied /\ Owed /\ Admitted /\ Ordered /\ CapacityExact
      /\ TypeOK /\ LaneState /\ HoldsCommand
  BY DEF BookkeepingInv, ExecutorInv
<1>2. PICK h : h = Head(ready)
  OBVIOUS
<1>3. /\ ready # <<>> /\ ready' = Tail(ready) /\ runningKeys' = runningKeys \union {KeyOf[h]}
      /\ current' = [current EXCEPT ![w] = h] /\ worker' = [worker EXCEPT ![w] = "running"]
      /\ UNCHANGED <<waiting, occupiedKeys, outstanding, outcome, closer, cancelled, drained,
                     admitted>>
      /\ worker[w] = "looking"
  BY <1>2 DEF WorkerTake, closerVars
<1>4. /\ ready \in Seq(Command) /\ \A i, j \in DOMAIN ready : i # j => ready[i] # ready[j]
  BY <1>1 DEF TypeOK, LaneState
<1>5. /\ h \in Command /\ Elements(ready) = Elements(ready') \union {h}
      /\ h \notin Elements(ready')
  BY <1>2, <1>3, <1>4, TailElements
<1>6. Held' = Held \union {h}
  <2>1. current[w] = NoCommand /\ h # NoCommand
    BY <1>1, <1>3, <1>5, ExecutorAssumption DEF HoldsCommand
  <2>2. current'[w] = h /\ \A v \in Worker : v # w => current'[v] = current[v]
    BY <1>1, <1>3 DEF TypeOK
  <2>3. \A d \in Held' : d \in Held \union {h}
    BY <2>2 DEF Held
  <2>4. \A d \in Held : d \in Held'
    BY <2>1, <2>2 DEF Held
  <2>5. h \in Held'
    BY <2>1, <2>2 DEF Held
  <2>6. QED
    BY <2>3, <2>4, <2>5
<1>7. Elements(ready') \union Held' = Elements(ready) \union Held
  BY <1>5, <1>6
<1>8. Pending' \union Held' = Pending \union Held /\ Pending' \subseteq Pending
  BY <1>3, <1>5, <1>6 DEF Pending
<1>9. outcome[h] = "queued"
  BY <1>1, <1>5 DEF Placed
<1>10. Placed'
  <2>1. ASSUME NEW v \in Worker
        PROVE  /\ worker'[v] = "running" => outcome'[current'[v]] = "queued"
               /\ worker'[v] = "finishing" => outcome'[current'[v]] \in Done
    <3>1. CASE v = w
      BY <1>1, <1>3, <1>9, <3>1 DEF TypeOK
    <3>2. CASE v # w
      BY <1>1, <1>3, <3>2 DEF TypeOK, Placed
    <3>3. QED
      BY <3>1, <3>2
  <2>2. \A k \in Key : Elements(waiting[k])' = Elements(waiting[k])
    BY <1>3 DEF Elements
  <2>3. QED
    BY <1>1, <1>3, <1>5, <1>7, <2>1, <2>2 DEF Placed
<1>11. Occupied'
  BY <1>1, <1>3, <1>6, <1>7 DEF Occupied
<1>12. Owed'
  <2>1. Elements(cancelled)' = Elements(cancelled)
    BY <1>3 DEF Elements
  <2>2. QED
    BY <1>1, <1>3, <1>8, <2>1 DEF Owed
<1>13. Admitted'
  BY <1>1, <1>3 DEF Admitted, Elements
<1>14. Ordered'
  BY <1>1, <1>3, <1>7 DEF Ordered
<1>15. CapacityExact'
  BY <1>1, <1>3, <1>8 DEF CapacityExact, Held
<1>16. DrainedMeansResolved'
  BY <1>3 DEF BookkeepingInv, DrainedMeansResolved
<1>17. QED
  BY <1>10, <1>11, <1>12, <1>13, <1>14, <1>15, <1>16 DEF BookkeepingInv

\* A worker tells the submitter the result.
LEMMA RunStep ==
    ASSUME BookkeepingInv, ExecutorInv', NEW w \in Worker, NEW r \in Done, WorkerRun(w, r)
    PROVE  BookkeepingInv'
<1>1. /\ ExecutorInv /\ Placed /\ Occupied /\ Owed /\ Admitted /\ Ordered /\ CapacityExact
      /\ TypeOK /\ LaneExclusion /\ HoldsCommand
  BY DEF BookkeepingInv, ExecutorInv
<1>2. PICK c : c = current[w]
  OBVIOUS
<1>3. /\ worker[w] = "running" /\ outcome' = [outcome EXCEPT ![c] = r]
      /\ worker' = [worker EXCEPT ![w] = "finishing"]
      /\ UNCHANGED <<ready, waiting, occupiedKeys, runningKeys, outstanding, current, closer,
                     cancelled, drained, admitted>>
  BY <1>2 DEF WorkerRun, queueVars, closerVars
<1>4. c \in Held /\ c \in Command /\ outcome[c] = "queued"
  BY <1>1, <1>2, <1>3, SetFacts DEF Placed
<1>5. outcome'[c] = r /\ \A d \in Command : d # c => outcome'[d] = outcome[d]
  BY <1>1, <1>3, <1>4 DEF TypeOK
<1>6. /\ Held' = Held /\ Pending' = Pending /\ Elements(ready)' = Elements(ready)
      /\ \A k \in Key : Elements(waiting[k])' = Elements(waiting[k])
      /\ Elements(cancelled)' = Elements(cancelled) /\ Elements(admitted)' = Elements(admitted)
  BY <1>3 DEF Held, Pending, Elements
<1>7. /\ Elements(ready) \subseteq Command /\ c \notin Elements(ready)
      /\ \A k \in Key : Elements(waiting[k]) \subseteq Command
      /\ Elements(cancelled) \subseteq Command
  BY <1>1, <1>4, SetFacts
<1>8. Placed'
  <2>1. ASSUME NEW v \in Worker
        PROVE  /\ worker'[v] = "running" => outcome'[current'[v]] = "queued"
               /\ worker'[v] = "finishing" => outcome'[current'[v]] \in Done
    <3>1. CASE v = w
      BY <1>1, <1>2, <1>3, <1>5, <3>1 DEF TypeOK
    <3>2. CASE v # w
      <4>1. worker'[v] = worker[v] /\ current'[v] = current[v]
        BY <1>1, <1>3, <3>2 DEF TypeOK
      <4>2. worker[v] \in {"running", "finishing"} => current[v] # c /\ current[v] \in Command
        BY <1>1, <1>2, <1>3, <3>2 DEF HoldsCommand, LaneExclusion, TypeOK
      <4>3. QED
        BY <1>1, <1>5, <4>1, <4>2 DEF Placed
    <3>3. QED
      BY <3>1, <3>2
  <2>2. \A k \in Key : \A d \in Elements(waiting[k]) : outcome'[d] = "queued"
    BY <1>1, <1>4, <1>5, <1>7 DEF Placed
  <2>3. \A d \in Elements(ready) : outcome'[d] = "queued"
    BY <1>1, <1>4, <1>5, <1>7 DEF Placed
  <2>4. QED
    BY <1>1, <1>3, <1>6, <2>1, <2>2, <2>3 DEF Placed
<1>9. Occupied'
  BY <1>1, <1>3, <1>6 DEF Occupied
<1>10. Owed'
  <2>1. \A d \in Elements(cancelled) : d # c
    BY <1>1, <1>4 DEF Owed
  <2>2. \A d \in Command : /\ outcome'[d] = "queued" => outcome[d] = "queued"
                           /\ outcome'[d] = "cancelled" => outcome[d] = "cancelled"
    BY <1>5 DEF Done
  <2>3. QED
    BY <1>1, <1>3, <1>5, <1>6, <1>7, <2>1, <2>2 DEF Owed
<1>11. Admitted'
  BY <1>1, <1>3, <1>4, <1>5, <1>6 DEF Admitted, Done
<1>12. Ordered'
  <2>1. ASSUME NEW i \in DOMAIN admitted, NEW j \in DOMAIN admitted, i < j,
               KeyOf[admitted[i]] = KeyOf[admitted[j]],
               admitted[j] \in Elements(ready) \union Held \/ outcome'[admitted[j]] \in Done
        PROVE  outcome'[admitted[i]] \in Done
    <3>1. admitted[i] \in Command /\ admitted[j] \in Command
      BY <1>1 DEF TypeOK
    <3>2. admitted[j] \in Elements(ready) \union Held \/ outcome[admitted[j]] \in Done
      BY <1>4, <1>5, <2>1, <3>1
    <3>3. outcome[admitted[i]] \in Done
      BY <1>1, <2>1, <3>2 DEF Ordered
    <3>4. QED
      BY <1>5, <3>1, <3>3
  <2>2. QED
    BY <1>1, <1>3, <1>6, <2>1 DEF Ordered
<1>13. CapacityExact'
  BY <1>1, <1>3, <1>6 DEF CapacityExact, Held
<1>14. DrainedMeansResolved'
  BY <1>3, <1>5 DEF BookkeepingInv, DrainedMeansResolved, Done
<1>15. QED
  BY <1>8, <1>9, <1>10, <1>11, <1>12, <1>13, <1>14 DEF BookkeepingInv

\* The closing thread calls one on_cancel.
LEMMA CancelStep ==
    ASSUME BookkeepingInv, ExecutorInv', RunCancel
    PROVE  BookkeepingInv'
<1>1. /\ ExecutorInv /\ Placed /\ Occupied /\ Owed /\ Admitted /\ Ordered /\ CapacityExact
      /\ TypeOK
  BY DEF BookkeepingInv, ExecutorInv
<1>2. PICK c : c = Head(cancelled)
  OBVIOUS
<1>3. /\ cancelled # <<>> /\ outcome' = [outcome EXCEPT ![c] = "cancelled"]
      /\ cancelled' = Tail(cancelled)
      /\ UNCHANGED <<ready, waiting, occupiedKeys, runningKeys, outstanding, worker, current,
                     closer, drained, admitted>>
  BY <1>2 DEF RunCancel, queueVars
<1>4. /\ c \in Command /\ Elements(cancelled) = Elements(cancelled') \union {c}
      /\ c \notin Elements(cancelled')
      /\ \A i, j \in DOMAIN cancelled' : i # j => cancelled'[i] # cancelled'[j]
  BY <1>1, <1>2, <1>3, TailElements DEF TypeOK, Owed
<1>5. outcome'[c] = "cancelled" /\ \A d \in Command : d # c => outcome'[d] = outcome[d]
  BY <1>1, <1>3, <1>4 DEF TypeOK
<1>6. outcome[c] = "queued" /\ c \notin Pending \union Held /\ closer # "serving"
  BY <1>1, <1>4 DEF Owed
<1>7. /\ Held' = Held /\ Pending' = Pending /\ Elements(ready)' = Elements(ready)
      /\ \A k \in Key : Elements(waiting[k])' = Elements(waiting[k])
      /\ Elements(admitted)' = Elements(admitted)
  BY <1>3 DEF Held, Pending, Elements
<1>8. /\ Elements(ready) \subseteq Pending /\ Pending \subseteq Command
      /\ \A k \in Key : Elements(waiting[k]) \subseteq Pending
      /\ Elements(cancelled) \subseteq Command /\ Held \subseteq Command
      /\ \A w \in Worker : worker[w] \in {"running", "finishing"} => current[w] \in Held
  BY <1>1, SetFacts
<1>9. \A d \in Pending \union Held : outcome'[d] = outcome[d]
  BY <1>5, <1>6, <1>8
<1>10. Placed'
  <2>1. ASSUME NEW w \in Worker
        PROVE  /\ worker'[w] = "running" => outcome'[current'[w]] = "queued"
               /\ worker'[w] = "finishing" => outcome'[current'[w]] \in Done
    BY <1>1, <1>3, <1>8, <1>9 DEF Placed
  <2>2. \A k \in Key : \A d \in Elements(waiting[k]) : outcome'[d] = "queued"
    BY <1>1, <1>8, <1>9 DEF Placed
  <2>3. \A d \in Elements(ready) : outcome'[d] = "queued"
    BY <1>1, <1>8, <1>9 DEF Placed
  <2>4. QED
    BY <1>1, <1>3, <1>7, <2>1, <2>2, <2>3 DEF Placed
<1>11. Occupied'
  BY <1>1, <1>3, <1>7 DEF Occupied
<1>12. Owed'
  <2>1. \A d \in Elements(cancelled') :
          outcome'[d] = "queued" /\ d \notin Pending' \union Held'
    BY <1>1, <1>4, <1>5, <1>7, <1>8 DEF Owed
  <2>2. \A d \in Command : outcome'[d] = "queued" =>
          d \in Pending' \union Held' \union Elements(cancelled')
    BY <1>1, <1>4, <1>5, <1>7 DEF Owed
  <2>3. QED
    BY <1>3, <1>4, <1>6, <2>1, <2>2 DEF Owed
<1>13. Admitted'
  BY <1>1, <1>3, <1>5, <1>6, <1>7 DEF Admitted
<1>14. Ordered'
  <2>1. ASSUME NEW i \in DOMAIN admitted, NEW j \in DOMAIN admitted, i < j,
               KeyOf[admitted[i]] = KeyOf[admitted[j]],
               admitted[j] \in Elements(ready) \union Held \/ outcome'[admitted[j]] \in Done
        PROVE  outcome'[admitted[i]] \in Done
    <3>1. admitted[i] \in Command /\ admitted[j] \in Command
      BY <1>1 DEF TypeOK
    <3>2. admitted[j] \in Elements(ready) \union Held \/ outcome[admitted[j]] \in Done
      BY <1>5, <2>1, <3>1 DEF Done
    <3>3. outcome[admitted[i]] \in Done
      BY <1>1, <2>1, <3>2 DEF Ordered
    <3>4. QED
      BY <1>5, <1>6, <3>1, <3>3 DEF Done
  <2>2. QED
    BY <1>1, <1>3, <1>7, <2>1 DEF Ordered
<1>15. CapacityExact'
  BY <1>1, <1>3, <1>7 DEF CapacityExact, Held
<1>16. DrainedMeansResolved'
  BY <1>3, <1>5 DEF BookkeepingInv, DrainedMeansResolved
<1>17. QED
  BY <1>10, <1>11, <1>12, <1>13, <1>14, <1>15, <1>16 DEF BookkeepingInv

\* What _finish() does: the command leaves, and the next one of its lane
\* becomes ready.
LEMMA FinishMoves ==
    ASSUME BookkeepingInv, NEW w \in Worker, WorkerFinish(w), NEW c, c = current[w]
    PROVE  /\ c \in Command /\ c \in Held /\ outcome[c] \in Done /\ KeyOf[c] \in runningKeys
           /\ KeyOf[c] \in Key /\ c \notin Pending /\ Held' = Held \ {c} /\ Pending' = Pending
           /\ \A d \in Held : d # c => KeyOf[d] # KeyOf[c]
           /\ \A d \in Elements(ready) : KeyOf[d] # KeyOf[c]
           /\ \/ /\ waiting[KeyOf[c]] # <<>> /\ occupiedKeys' = occupiedKeys
                 /\ ready' = Append(ready, Head(waiting[KeyOf[c]]))
                 /\ waiting' = [waiting EXCEPT ![KeyOf[c]] = Tail(waiting[KeyOf[c]])]
                 /\ Elements(ready') = Elements(ready) \union {Head(waiting[KeyOf[c]])}
                 /\ Elements(waiting[KeyOf[c]]) =
                       Elements(waiting'[KeyOf[c]]) \union {Head(waiting[KeyOf[c]])}
                 /\ Head(waiting[KeyOf[c]]) \notin Elements(waiting'[KeyOf[c]])
              \/ /\ waiting[KeyOf[c]] = <<>> /\ occupiedKeys' = occupiedKeys \ {KeyOf[c]}
                 /\ ready' = ready /\ waiting' = waiting
<1>1. /\ ExecutorInv /\ Placed /\ Owed /\ TypeOK /\ LaneExclusion /\ HoldsCommand /\ LaneState
  BY DEF BookkeepingInv, ExecutorInv
<1>2. /\ worker[w] = "finishing" /\ AdvanceLane(KeyOf[c])
      /\ current' = [current EXCEPT ![w] = NoCommand]
  BY DEF WorkerFinish
<1>3. c \in Command /\ c \in Held /\ outcome[c] \in Done /\ c # NoCommand
  BY <1>1, <1>2, SetFacts, ExecutorAssumption DEF Placed
<1>4. KeyOf[c] \in runningKeys /\ KeyOf[c] \in Key
  BY <1>1, <1>3, ExecutorAssumption DEF LaneState
<1>5. c \notin Pending
  BY <1>1, <1>3, SetFacts DEF Placed, Done
<1>6. \A v \in Worker : v # w /\ current[v] # NoCommand => KeyOf[current[v]] # KeyOf[c]
  BY <1>1, <1>3 DEF LaneExclusion
<1>7. \A d \in Held : d # c => KeyOf[d] # KeyOf[c]
  BY <1>6 DEF Held
<1>8. \A d \in Elements(ready) : KeyOf[d] # KeyOf[c]
  BY <1>1, <1>4 DEF LaneState, Elements
<1>9. Held' = Held \ {c}
  <2>1. current'[w] = NoCommand /\ \A v \in Worker : v # w => current'[v] = current[v]
    BY <1>1, <1>2 DEF TypeOK
  <2>2. \A d \in Held' : d \in Held /\ d # c
    BY <1>6, <2>1 DEF Held
  <2>3. \A d \in Held : d # c => d \in Held'
    BY <2>1 DEF Held
  <2>4. QED
    BY <2>2, <2>3
<1>10. CASE waiting[KeyOf[c]] = <<>>
  <2>1. /\ occupiedKeys' = occupiedKeys \ {KeyOf[c]} /\ ready' = ready /\ waiting' = waiting
    BY <1>2, <1>10 DEF AdvanceLane
  <2>2. Pending' = Pending
    BY <2>1 DEF Pending
  <2>3. QED
    BY <1>3, <1>4, <1>5, <1>7, <1>8, <1>9, <1>10, <2>1, <2>2
<1>11. CASE waiting[KeyOf[c]] # <<>>
  <2>1. PICK k \in Key : k = KeyOf[c]
    BY <1>4
  <2>2. PICK h : h = Head(waiting[k])
    OBVIOUS
  <2>3. /\ ready' = Append(ready, h) /\ waiting' = [waiting EXCEPT ![k] = Tail(waiting[k])]
        /\ occupiedKeys' = occupiedKeys
    BY <1>2, <1>11, <2>1, <2>2 DEF AdvanceLane
  <2>4. /\ waiting[k] \in Seq(Command) /\ ready \in Seq(Command)
        /\ \A i, j \in DOMAIN waiting[k] : i # j => waiting[k][i] # waiting[k][j]
    BY <1>1 DEF TypeOK, Placed
  <2>5. /\ h \in Command /\ Elements(waiting[k]) = Elements(Tail(waiting[k])) \union {h}
        /\ h \notin Elements(Tail(waiting[k]))
    BY <1>11, <2>1, <2>2, <2>4, TailElements
  <2>6. Elements(ready') = Elements(ready) \union {h}
    BY <2>3, <2>4, <2>5, AppendElements
  <2>7. waiting'[k] = Tail(waiting[k]) /\ \A l \in Key : l # k => waiting'[l] = waiting[l]
    BY <1>1, <2>3 DEF TypeOK
  <2>8. Pending' = Pending
    <3>1. Pending' = Elements(ready') \union UNION {Elements(waiting'[l]) : l \in Key}
      BY DEF Pending
    <3>2. \A x \in Pending' : x \in Pending
      BY <2>5, <2>6, <2>7, <3>1 DEF Pending
    <3>3. \A l \in Key : \A x \in Elements(waiting[l]) : x = h \/ x \in Elements(waiting'[l])
      BY <2>5, <2>7
    <3>4. \A x \in Pending : x \in Pending'
      BY <2>6, <3>1, <3>3 DEF Pending
    <3>5. QED
      BY <3>2, <3>4
  <2>9. QED
    BY <1>3, <1>4, <1>5, <1>7, <1>8, <1>9, <1>11, <2>1, <2>2, <2>3, <2>5, <2>6, <2>7, <2>8
<1>12. QED
  BY <1>10, <1>11

\* _finish() keeps the books.
LEMMA FinishStep ==
    ASSUME BookkeepingInv, ExecutorInv', NEW w \in Worker, WorkerFinish(w)
    PROVE  BookkeepingInv'
<1>1. /\ ExecutorInv /\ Placed /\ Occupied /\ Owed /\ Admitted /\ Ordered /\ CapacityExact
      /\ TypeOK /\ HoldsCommand /\ StoppedState
  BY DEF BookkeepingInv, ExecutorInv
<1>2. PICK c : c = current[w]
  OBVIOUS
<1>3. PICK k : k = KeyOf[c]
  OBVIOUS
<1>4. PICK h : h = Head(waiting[k])
  OBVIOUS
<1>5. /\ c \in Command /\ c \in Held /\ outcome[c] \in Done /\ k \in runningKeys
      /\ k \in Key /\ c \notin Pending /\ Held' = Held \ {c} /\ Pending' = Pending
      /\ \A d \in Held : d # c => KeyOf[d] # k
      /\ \A d \in Elements(ready) : KeyOf[d] # k
      /\ \/ /\ waiting[k] # <<>> /\ occupiedKeys' = occupiedKeys
            /\ ready' = Append(ready, h)
            /\ waiting' = [waiting EXCEPT ![k] = Tail(waiting[k])]
            /\ Elements(ready') = Elements(ready) \union {h}
            /\ Elements(waiting[k]) = Elements(waiting'[k]) \union {h}
            /\ h \notin Elements(waiting'[k])
         \/ /\ waiting[k] = <<>> /\ occupiedKeys' = occupiedKeys \ {k}
            /\ ready' = ready /\ waiting' = waiting
  BY <1>2, <1>3, <1>4, FinishMoves
<1>6. /\ worker[w] = "finishing" /\ runningKeys' = runningKeys \ {k}
      /\ outstanding' = outstanding - 1
      /\ worker' = [worker EXCEPT ![w] = "looking"]
      /\ current' = [current EXCEPT ![w] = NoCommand]
      /\ UNCHANGED <<accepting, outcome, closer, cancelled, drained, admitted>>
  BY <1>2, <1>3 DEF WorkerFinish, closerVars
<1>7. /\ \A l \in Key : \A d \in Elements(waiting[l]) : KeyOf[d] = l /\ d \in Command
      /\ IsFiniteSet(Pending) /\ IsFiniteSet(Held) /\ Held \subseteq Command
      /\ \A l \in Key : Elements(waiting[l]) \subseteq Pending
  BY <1>1, SetFacts
<1>8. \A l \in Key : l # k => waiting'[l] = waiting[l]
  BY <1>1, <1>5 DEF TypeOK
<1>9. \A l \in Key : Elements(waiting'[l]) \subseteq Elements(waiting[l])
  <2>1. Elements(waiting'[k]) \subseteq Elements(waiting[k])
    BY <1>5
  <2>2. QED
    BY <1>8, <2>1
<1>10. Placed'
  <2>1. ASSUME NEW l \in Key, NEW i \in DOMAIN waiting'[l], NEW j \in DOMAIN waiting'[l], i # j
        PROVE  waiting'[l][i] # waiting'[l][j]
    <3>1. CASE waiting'[l] = waiting[l]
      BY <1>1, <2>1, <3>1 DEF Placed
    <3>2. CASE waiting'[l] # waiting[l]
      <4>1. l = k /\ waiting[k] # <<>> /\ waiting'[k] = Tail(waiting[k])
        BY <1>1, <1>5, <1>8, <3>2 DEF TypeOK
      <4>2. \A m, n \in DOMAIN Tail(waiting[k]) : m # n => Tail(waiting[k])[m] # Tail(waiting[k])[n]
        BY <1>1, <1>5, <4>1, TailElements DEF TypeOK, Placed
      <4>3. QED
        BY <2>1, <4>1, <4>2
    <3>3. QED
      BY <3>1, <3>2
  <2>2. ASSUME NEW l \in Key, NEW d \in Elements(waiting'[l])
        PROVE  /\ outcome'[d] = "queued" /\ l \in occupiedKeys'
               /\ d \notin Elements(ready') \union Held'
    <3>1. /\ d \in Elements(waiting[l]) /\ KeyOf[d] = l
      BY <1>7, <1>9, <2>2
    <3>2. outcome[d] = "queued" /\ l \in occupiedKeys /\ d \notin Elements(ready) \union Held
      BY <1>1, <3>1 DEF Placed
    <3>3. CASE waiting[k] # <<>>
      <4>1. d # h
        <5>1. KeyOf[h] = k
          BY <1>5, <1>7, <3>3
        <5>2. l = k => d # h
          BY <1>5, <2>2, <3>3
        <5>3. QED
          BY <3>1, <5>1, <5>2
      <4>2. QED
        BY <1>5, <1>6, <3>2, <3>3, <4>1
    <3>4. CASE waiting[k] = <<>>
      <4>1. l # k
        BY <3>1, <3>4 DEF Elements
      <4>2. QED
        BY <1>5, <1>6, <3>2, <3>4, <4>1
    <3>5. QED
      BY <3>3, <3>4
  <2>3. \A d \in Elements(ready') : outcome'[d] = "queued"
    BY <1>1, <1>5, <1>6 DEF Placed
  <2>4. ASSUME NEW v \in Worker
        PROVE  /\ worker'[v] = "running" => outcome'[current'[v]] = "queued"
               /\ worker'[v] = "finishing" => outcome'[current'[v]] \in Done
    BY <1>1, <1>6 DEF Placed, TypeOK
  <2>5. QED
    BY <2>1, <2>2, <2>3, <2>4 DEF Placed
<1>11. Occupied'
  <2>1. ASSUME NEW l \in occupiedKeys' PROVE \E d \in Elements(ready') \union Held' : KeyOf[d] = l
    <3>1. l \in occupiedKeys
      BY <1>5
    <3>2. PICK d \in Elements(ready) \union Held : KeyOf[d] = l
      BY <1>1, <3>1 DEF Occupied
    <3>3. CASE d # c
      BY <1>5, <3>2, <3>3
    <3>4. CASE d = c
      <4>1. l = k /\ waiting[k] # <<>>
        BY <1>3, <1>5, <2>1, <3>2, <3>4
      <4>2. h \in Elements(ready') /\ KeyOf[h] = k
        BY <1>5, <1>7, <4>1
      <4>3. QED
        BY <4>1, <4>2
    <3>5. QED
      BY <3>3, <3>4
  <2>2. ASSUME NEW l \in runningKeys' PROVE \E d \in Held' : KeyOf[d] = l
    <3>1. l \in runningKeys /\ l # k
      BY <1>6
    <3>2. PICK d \in Held : KeyOf[d] = l
      BY <1>1, <3>1 DEF Occupied
    <3>3. QED
      BY <1>3, <1>5, <3>1, <3>2
  <2>3. QED
    BY <2>1, <2>2 DEF Occupied
<1>12. Owed'
  <2>1. Elements(cancelled)' = Elements(cancelled)
    BY <1>6 DEF Elements
  <2>2. \A d \in Command : outcome[d] = "queued" => d # c
    BY <1>5 DEF Done
  <2>3. QED
    BY <1>1, <1>5, <1>6, <2>1, <2>2 DEF Owed
<1>13. Admitted'
  BY <1>1, <1>6 DEF Admitted, Elements
<1>14. Ordered'
  <2>1. ASSUME NEW i \in DOMAIN admitted, NEW j \in DOMAIN admitted, i < j,
               KeyOf[admitted[i]] = KeyOf[admitted[j]],
               admitted[j] \in Elements(ready') \union Held' \/ outcome[admitted[j]] \in Done
        PROVE  outcome[admitted[i]] \in Done
    <3>1. CASE admitted[j] \in Elements(ready) \union Held \/ outcome[admitted[j]] \in Done
      BY <1>1, <2>1, <3>1 DEF Ordered
    <3>2. CASE admitted[j] \notin Elements(ready) \union Held /\ outcome[admitted[j]] \notin Done
      <4>1. admitted[j] = h /\ waiting[k] # <<>>
        BY <1>5, <2>1, <3>2
      <4>2. h \in Elements(waiting[k]) /\ KeyOf[h] = k /\ KeyOf[admitted[i]] = k
        BY <1>5, <1>7, <2>1, <4>1
      <4>3. closer = "serving"
        BY <1>1, <1>5, <4>1 DEF StoppedState
      <4>4. admitted[i] \in Command /\ admitted[i] \in Elements(admitted) /\ admitted[i] # h
        BY <1>1, <2>1, <4>1 DEF TypeOK, Elements, Admitted
      <4>5. admitted[i] \notin Elements(ready)
        BY <1>5, <4>2
      <4>6. ASSUME NEW l \in Key, admitted[i] \in Elements(waiting[l]) PROVE FALSE
        <5>1. l = k
          BY <1>7, <4>2, <4>6
        <5>2. PICK p \in DOMAIN waiting[k] : admitted[i] = waiting[k][p]
          BY <4>6, <5>1 DEF Elements
        <5>3. /\ h = waiting[k][1] /\ 1 \in DOMAIN waiting[k]
              /\ DOMAIN waiting[k] = 1 .. Len(waiting[k]) /\ Len(waiting[k]) \in Nat
          BY <1>1, <1>4, <1>5, <4>1, TailElements DEF TypeOK, Placed
        <5>4. p # 1 /\ 1 < p
          BY <4>4, <5>2, <5>3
        <5>5. j < i
          BY <1>1, <1>5, <2>1, <4>1, <5>2, <5>3, <5>4 DEF Ordered
        <5>6. i \in Int /\ j \in Int
          BY <1>1, <2>1 DEF TypeOK
        <5>7. QED
          BY <2>1, <5>5, <5>6
      <4>7. admitted[i] \notin Pending
        BY <1>1, <4>5, <4>6, SetFacts
      <4>8. CASE admitted[i] = c
        BY <1>5, <4>8
      <4>9. CASE admitted[i] # c
        <5>1. admitted[i] \notin Held
          BY <1>5, <4>2, <4>9
        <5>2. outcome[admitted[i]] \notin {"queued", "cancelled", "new", "rejected"}
          BY <1>1, <4>3, <4>4, <4>7, <5>1 DEF Owed, Admitted
        <5>3. QED
          BY <1>1, <4>4, <5>2 DEF TypeOK, Final, Done
      <4>10. QED
        BY <4>8, <4>9
    <3>3. QED
      BY <3>1, <3>2
  <2>2. ASSUME NEW l \in Key, NEW p \in DOMAIN waiting'[l], NEW q \in DOMAIN waiting'[l],
               NEW i \in DOMAIN admitted, NEW j \in DOMAIN admitted,
               p < q, admitted[i] = waiting'[l][p], admitted[j] = waiting'[l][q]
        PROVE  i < j
    <3>1. CASE waiting'[l] = waiting[l]
      BY <1>1, <2>2, <3>1 DEF Ordered
    <3>2. CASE waiting'[l] # waiting[l]
      <4>1. l = k /\ waiting[k] # <<>> /\ waiting'[k] = Tail(waiting[k])
        BY <1>1, <1>5, <1>8, <3>2 DEF TypeOK
      <4>2. /\ DOMAIN Tail(waiting[k]) = 1 .. (Len(waiting[k]) - 1) /\ Len(waiting[k]) \in Nat
            /\ \A m \in DOMAIN Tail(waiting[k]) :
                  Tail(waiting[k])[m] = waiting[k][m + 1] /\ m + 1 \in DOMAIN waiting[k]
        BY <1>1, <1>5, <4>1, TailElements DEF TypeOK, Placed
      <4>3. /\ p \in Int /\ q \in Int /\ p + 1 < q + 1
            /\ p + 1 \in DOMAIN waiting[k] /\ q + 1 \in DOMAIN waiting[k]
            /\ admitted[i] = waiting[k][p + 1] /\ admitted[j] = waiting[k][q + 1]
        BY <2>2, <4>1, <4>2
      <4>4. QED
        BY <1>1, <1>5, <2>2, <4>3 DEF Ordered
    <3>3. QED
      BY <3>1, <3>2
  <2>3. QED
    BY <1>6, <2>1, <2>2 DEF Ordered
<1>15. CapacityExact'
  <2>1. outstanding = Cardinality(Pending \union Held) /\ outstanding <= MaxCommands
    BY <1>1 DEF CapacityExact, Held
  <2>2. IsFiniteSet(Pending \union Held)
    BY <1>7, FS_Union
  <2>3. Cardinality((Pending \union Held) \ {c}) = Cardinality(Pending \union Held) - 1
    BY <1>5, <2>2, FS_RemoveElement
  <2>4. Pending' \union Held' = (Pending \union Held) \ {c}
    BY <1>5
  <2>5. outstanding \in Int /\ MaxCommands \in Nat
    BY <1>1, ExecutorAssumption DEF TypeOK
  <2>6. outstanding' <= MaxCommands
    BY <1>6, <2>1, <2>5
  <2>7. outstanding' = Cardinality(Pending' \union Held')
    BY <1>6, <2>1, <2>3, <2>4
  <2>8. QED
    BY <2>6, <2>7 DEF CapacityExact, Held
<1>16. DrainedMeansResolved'
  BY <1>6 DEF BookkeepingInv, DrainedMeansResolved
<1>17. QED
  BY <1>10, <1>11, <1>12, <1>13, <1>14, <1>15, <1>16 DEF BookkeepingInv

\* What stop_accepting() does: the queues are empty, their commands are owed
\* an on_cancel each, and the commands that workers hold are all that is left.
LEMMA StopMoves ==
    ASSUME BookkeepingInv, StopAccepting
    PROVE  /\ Pending' = {} /\ Elements(ready') = {} /\ Held' = Held
           /\ ready' = <<>> /\ waiting' = [k \in Key |-> <<>>]
           /\ Elements(cancelled') = Pending
           /\ \A i, j \in DOMAIN cancelled' : i # j => cancelled'[i] # cancelled'[j]
           /\ occupiedKeys' = occupiedKeys \ ({KeyOf[c] : c \in Pending} \ runningKeys)
           /\ outstanding' = Cardinality(Held)
<1>1. /\ ExecutorInv /\ TypeOK /\ CapacityExact
  BY DEF BookkeepingInv, ExecutorInv
<1>2. /\ Pending \subseteq Command /\ IsFiniteSet(Pending) /\ IsFiniteSet(Held)
      /\ Cardinality(Pending) \in Nat /\ Cardinality(Held) \in Nat
  BY <1>1, SetFacts, FS_CardinalityType
<1>3. PICK n \in Nat : n = Cardinality(Pending)
  BY <1>2
<1>4. PICK q \in [1 .. n -> Pending] : CancelPending(q) /\ cancelled' = q
  BY <1>3 DEF StopAccepting
<1>5. /\ ready' = <<>> /\ waiting' = [k \in Key |-> <<>>]
      /\ occupiedKeys' = occupiedKeys \ ({KeyOf[c] : c \in Pending} \ runningKeys)
      /\ outstanding' = outstanding - n /\ Elements(q) = Pending
  BY <1>3, <1>4 DEF CancelPending, CancelOrder
<1>6. Elements(ready') = {} /\ Pending' = {}
  BY <1>5 DEF Elements, Pending
<1>7. Held' = Held
  BY DEF StopAccepting, Held
<1>8. \A i, j \in 1 .. n : i # j => q[i] # q[j]
  <2>1. IsFiniteSet(1 .. n) /\ Cardinality(1 .. n) = n
    BY FS_Interval
  <2>2. q \in Surjection(1 .. n, Pending)
    BY <1>4, <1>5 DEF Surjection, Elements
  <2>3. q \in Injection(1 .. n, Pending)
    BY <1>3, <2>1, <2>2, FS_SurjSameCardinalityImpliesInj
  <2>4. QED
    BY <2>3 DEF Injection, IsInjective
<1>9. \A i, j \in DOMAIN cancelled' : i # j => cancelled'[i] # cancelled'[j]
  BY <1>4, <1>8
<1>10. Elements(cancelled') = Pending
  BY <1>4, <1>5
<1>11. outstanding' = Cardinality(Held)
  <2>1. Pending \cap Held = {}
    BY <1>1, SetFacts DEF BookkeepingInv, Placed
  <2>2. Cardinality(Pending \union Held) =
           Cardinality(Pending) + Cardinality(Held) - Cardinality(Pending \cap Held)
    BY <1>2, FS_Union
  <2>3. Cardinality(Pending \cap Held) = 0
    BY <2>1, FS_EmptySet
  <2>4. outstanding = Cardinality(Pending \union Held)
    BY <1>1 DEF CapacityExact, Held
  <2>5. QED
    BY <1>2, <1>3, <1>5, <2>2, <2>3, <2>4
<1>12. QED
  BY <1>5, <1>6, <1>7, <1>9, <1>10, <1>11

\* stop_accepting() keeps the books.
LEMMA StopStep ==
    ASSUME BookkeepingInv, ExecutorInv', StopAccepting
    PROVE  BookkeepingInv'
<1>1. /\ ExecutorInv /\ Placed /\ Occupied /\ Owed /\ Admitted /\ Ordered /\ CapacityExact
      /\ TypeOK
  BY DEF BookkeepingInv, ExecutorInv
<1>2. /\ Pending' = {} /\ Elements(ready') = {} /\ Held' = Held
      /\ ready' = <<>> /\ waiting' = [k \in Key |-> <<>>]
      /\ Elements(cancelled') = Pending
      /\ \A i, j \in DOMAIN cancelled' : i # j => cancelled'[i] # cancelled'[j]
      /\ occupiedKeys' = occupiedKeys \ ({KeyOf[c] : c \in Pending} \ runningKeys)
      /\ outstanding' = Cardinality(Held)
  BY StopMoves
<1>3. /\ cancelled = <<>> /\ closer' \in {"stopped", "draining"}
      /\ UNCHANGED <<runningKeys, worker, current, outcome, admitted>>
  BY DEF StopAccepting
<1>4. /\ Pending \subseteq Command /\ IsFiniteSet(Pending) /\ IsFiniteSet(Held)
      /\ \A c \in Pending : c \in Elements(ready) \/ \E k \in Key : c \in Elements(waiting[k])
      /\ Elements(ready) \subseteq Pending /\ \A c \in Elements(ready) : c \notin Held
  BY <1>1, SetFacts
<1>5. \A k \in Key : waiting'[k] = <<>> /\ DOMAIN waiting'[k] = {} /\ Elements(waiting'[k]) = {}
  BY <1>2 DEF Elements
<1>6. Placed'
  <2>1. ASSUME NEW w \in Worker
        PROVE  /\ worker'[w] = "running" => outcome'[current'[w]] = "queued"
               /\ worker'[w] = "finishing" => outcome'[current'[w]] \in Done
    BY <1>1, <1>3 DEF Placed
  <2>2. QED
    BY <1>2, <1>5, <2>1 DEF Placed
<1>7. Occupied'
  <2>1. ASSUME NEW l \in occupiedKeys' PROVE \E d \in Held : KeyOf[d] = l
    <3>1. l \in occupiedKeys /\ (l \in runningKeys \/ \A c \in Pending : KeyOf[c] # l)
      BY <1>2, <2>1
    <3>2. CASE l \in runningKeys
      BY <1>1, <3>2 DEF Occupied
    <3>3. CASE l \notin runningKeys
      <4>1. PICK d \in Elements(ready) \union Held : KeyOf[d] = l
        BY <1>1, <3>1 DEF Occupied
      <4>2. QED
        BY <1>4, <3>1, <3>3, <4>1
    <3>4. QED
      BY <3>2, <3>3
  <2>2. QED
    BY <1>1, <1>2, <1>3, <2>1 DEF Occupied
<1>8. Owed'
  <2>1. Elements(cancelled) = {}
    BY <1>3 DEF Elements
  <2>2. \A c \in Pending : outcome[c] = "queued" /\ c \notin Held
    BY <1>1, <1>4 DEF Placed
  <2>3. QED
    BY <1>1, <1>2, <1>3, <2>1, <2>2 DEF Owed
<1>9. Admitted'
  BY <1>1, <1>3 DEF Admitted, Elements
<1>10. Ordered'
  BY <1>1, <1>2, <1>3, <1>5 DEF Ordered
<1>11. CapacityExact'
  <2>1. Pending' \union Held' = Held
    BY <1>2
  <2>2. outstanding = Cardinality(Pending \union Held) /\ outstanding <= MaxCommands
    BY <1>1 DEF CapacityExact, Held
  <2>3. IsFiniteSet(Pending \union Held) /\ Held \subseteq Pending \union Held
    BY <1>4, FS_Union
  <2>4. /\ Cardinality(Held) <= Cardinality(Pending \union Held)
        /\ Cardinality(Held) \in Nat /\ Cardinality(Pending \union Held) \in Nat
    BY <2>3, FS_Subset, FS_CardinalityType
  <2>5. outstanding' <= MaxCommands
    BY <1>2, <2>2, <2>4, ExecutorAssumption
  <2>6. outstanding' = Cardinality(Pending' \union Held')
    BY <1>2, <2>1
  <2>7. QED
    BY <2>5, <2>6 DEF CapacityExact, Held
<1>12. DrainedMeansResolved'
  BY <1>3 DEF DrainedMeansResolved
<1>13. QED
  BY <1>6, <1>7, <1>8, <1>9, <1>10, <1>11, <1>12 DEF BookkeepingInv

\* A drained pool owes nobody an answer.
LEMMA DrainStep ==
    ASSUME BookkeepingInv, DrainDone
    PROVE  DrainedMeansResolved'
<1>1. SUFFICES ASSUME drained', NEW c \in Command, outcome'[c] = "queued"
               PROVE  FALSE
  BY DEF DrainedMeansResolved
<1>2. outcome' = outcome /\ cancelled = <<>> /\ drained' = (outstanding = 0)
  BY DEF DrainDone, NothingOutstanding
<1>3. outstanding = 0
  BY <1>1, <1>2, Zenon
<1>4. IsFiniteSet(Pending) /\ IsFiniteSet(Held)
  BY SetFacts DEF BookkeepingInv
<1>5. IsFiniteSet(Pending \union Held)
  BY <1>4, FS_Union
<1>6. Pending \union Held = {}
  BY <1>3, <1>5, FS_EmptySet DEF BookkeepingInv, CapacityExact, Held
<1>7. Elements(cancelled) = {}
  BY <1>2 DEF Elements
<1>8. QED
  BY <1>1, <1>2, <1>6, <1>7 DEF BookkeepingInv, Owed

\* Every step of the executor keeps the books.
LEMMA BookkeepingStep ==
    ASSUME BookkeepingInv, [Next]_vars
    PROVE  BookkeepingInv'
<1>1. ExecutorInv'
  BY ExecutorStep DEF BookkeepingInv
<1>2. TypeOK /\ DrainedMeansResolved
  BY DEF BookkeepingInv, ExecutorInv
<1> USE DEF queueVars, closerVars
<1>3. ASSUME NEW c \in Command, Submit(c) PROVE BookkeepingInv'
  BY <1>1, <1>3, SubmitStep
<1>4. ASSUME NEW c \in Command, SubmitRejected(c) PROVE BookkeepingInv'
  <2>1. UNCHANGED <<ready, waiting, occupiedKeys, runningKeys, outstanding, current, cancelled,
                    admitted, worker, closer, drained>>
    BY <1>4 DEF SubmitRejected
  <2>2. \A d \in Command : outcome'[d] = outcome[d]
              \/ (outcome[d] = "new" /\ outcome'[d] = "rejected")
    BY <1>2, <1>4 DEF SubmitRejected, TypeOK
  <2>3. DrainedMeansResolved'
    BY <1>2, <2>1, <2>2 DEF DrainedMeansResolved
  <2>4. QED
    BY <1>1, <2>1, <2>2, <2>3, QuietStep
<1>5. ASSUME NEW w \in Worker, WorkerWait(w) PROVE BookkeepingInv'
  <2>1. UNCHANGED <<ready, waiting, occupiedKeys, runningKeys, outstanding, current, cancelled,
                    admitted, worker, closer, drained, outcome>>
    BY <1>5 DEF WorkerWait
  <2>2. DrainedMeansResolved'
    BY <1>2, <2>1 DEF DrainedMeansResolved
  <2>3. QED
    BY <1>1, <2>1, <2>2, QuietStep
<1>6. ASSUME NEW w \in Worker, WorkerReturn(w) PROVE BookkeepingInv'
  <2>1. UNCHANGED <<ready, waiting, occupiedKeys, runningKeys, outstanding, current, cancelled,
                    admitted, closer, drained, outcome>>
    BY <1>6 DEF WorkerReturn
  <2>2. \A v \in Worker : worker'[v] = worker[v] \/ worker'[v] = "returned"
    BY <1>2, <1>6 DEF WorkerReturn, TypeOK
  <2>3. DrainedMeansResolved'
    BY <1>2, <2>1 DEF DrainedMeansResolved
  <2>4. QED
    BY <1>1, <2>1, <2>2, <2>3, QuietStep
<1>7. ASSUME NEW w \in Worker, WorkerTake(w) PROVE BookkeepingInv'
  BY <1>1, <1>7, TakeStep
<1>8. ASSUME NEW w \in Worker, NEW r \in Done, WorkerRun(w, r) PROVE BookkeepingInv'
  BY <1>1, <1>8, RunStep
<1>9. ASSUME NEW w \in Worker, WorkerFinish(w) PROVE BookkeepingInv'
  BY <1>1, <1>9, FinishStep
<1>10. CASE StopAccepting
  BY <1>1, <1>10, StopStep
<1>11. CASE RunCancel
  BY <1>1, <1>11, CancelStep
<1>12. CASE DrainWait
  <2>1. UNCHANGED <<ready, waiting, occupiedKeys, runningKeys, outstanding, current, cancelled,
                    admitted, worker, closer, drained, outcome>>
    BY <1>12 DEF DrainWait
  <2>2. DrainedMeansResolved'
    BY <1>2, <2>1 DEF DrainedMeansResolved
  <2>3. QED
    BY <1>1, <2>1, <2>2, QuietStep
<1>13. CASE DrainDone
  <2>1. /\ UNCHANGED <<ready, waiting, occupiedKeys, runningKeys, outstanding, current,
                       cancelled, admitted, worker, outcome>>
        /\ closer' = "joining"
    BY <1>13 DEF DrainDone
  <2>2. DrainedMeansResolved'
    BY <1>13, DrainStep
  <2>3. QED
    BY <1>1, <2>1, <2>2, QuietStep
<1>14. CASE JoinDone
  <2>1. /\ UNCHANGED <<ready, waiting, occupiedKeys, runningKeys, outstanding, current,
                       cancelled, admitted, worker, drained, outcome>>
        /\ closer = "joining" /\ closer' = "returned"
    BY <1>14 DEF JoinDone
  <2>2. DrainedMeansResolved'
    BY <1>2, <2>1 DEF DrainedMeansResolved
  <2>3. QED
    BY <1>1, <2>1, <2>2, QuietStep
<1>15. CASE UNCHANGED vars
  <2>1. UNCHANGED <<ready, waiting, occupiedKeys, runningKeys, outstanding, current, cancelled,
                    admitted, worker, closer, drained, outcome>>
    BY <1>15 DEF vars
  <2>2. DrainedMeansResolved'
    BY <1>2, <2>1 DEF DrainedMeansResolved
  <2>3. QED
    BY <1>1, <2>1, <2>2, QuietStep
<1>16. \A w \in Worker : WorkerRun(w, "completed") \/ WorkerRun(w, "failed") => BookkeepingInv'
  BY <1>8 DEF Done
<1>17. QED
  BY <1>3, <1>4, <1>5, <1>6, <1>7, <1>9, <1>10, <1>11, <1>12, <1>13, <1>14, <1>15, <1>16
     DEF Next, WorkerStep, CloserStep

\* The inductive invariant of the bookkeeping holds in every reachable state.
THEOREM BookkeepingInvariant == Spec => []BookkeepingInv
<1>1. Init => BookkeepingInv
  <2> SUFFICES ASSUME Init PROVE BookkeepingInv
    OBVIOUS
  <2>1. ExecutorInv
    BY ExecutorInit
  <2>2. /\ Held = {} /\ Pending = {} /\ Elements(ready) = {} /\ Elements(cancelled) = {}
        /\ Elements(admitted) = {} /\ \A k \in Key : Elements(waiting[k]) = {}
    BY DEF Init, Held, Pending, Elements
  <2>3. \A w \in Worker : worker[w] = "looking"
    BY DEF Init
  <2>4. \A c \in Command : outcome[c] = "new"
    BY DEF Init
  <2>5. /\ \A k \in Key : waiting[k] = <<>>
        /\ occupiedKeys = {} /\ runningKeys = {} /\ cancelled = <<>> /\ admitted = <<>>
        /\ outstanding = 0 /\ closer = "serving"
    BY DEF Init
  <2>6. Placed /\ Occupied /\ DrainedMeansResolved
    BY <2>2, <2>3, <2>5 DEF Placed, Occupied, DrainedMeansResolved
  <2>7. Owed /\ Admitted /\ Ordered
    BY <2>2, <2>4, <2>5 DEF Owed, Admitted, Ordered
  <2>8. CapacityExact
    <3>1. Cardinality(Pending \union Held) = 0
      <4>1. Pending \union Held = {}
        BY <2>2
      <4>2. QED
        BY <4>1, FS_EmptySet
    <3>2. 0 <= MaxCommands
      BY ExecutorAssumption
    <3>3. QED
      BY <2>5, <3>1, <3>2 DEF CapacityExact, Held
  <2>9. QED
    BY <2>1, <2>6, <2>7, <2>8 DEF BookkeepingInv
<1>2. BookkeepingInv /\ [Next]_vars => BookkeepingInv'
  BY BookkeepingStep
<1>3. QED
  BY <1>1, <1>2, PTL DEF Spec

\* Commands of one key run in the order they were accepted, each after the
\* callback of the one before; _outstanding counts exactly the unfinished
\* commands and stays within max_commands; and a pool that reports itself
\* drained has answered every command it accepted.
THEOREM BookkeepingAlways == Spec => []BookkeepingExact
<1>1. ASSUME BookkeepingInv PROVE BookkeepingExact
  <2>1. ASSUME NEW c \in Command, Begun(c) PROVE c \in Held \/ outcome[c] \in Done
    BY <2>1, ExecutorAssumption DEF Begun, Held, Done
  <2>2. LaneOrder
    <3>1. SUFFICES ASSUME NEW i \in DOMAIN admitted, NEW j \in DOMAIN admitted, i < j,
                          KeyOf[admitted[i]] = KeyOf[admitted[j]], Begun(admitted[j])
                   PROVE  outcome[admitted[i]] \in Done
      BY DEF LaneOrder, Done
    <3>2. admitted[j] \in Command
      BY <1>1 DEF BookkeepingInv, ExecutorInv, TypeOK
    <3>3. QED
      BY <1>1, <2>1, <3>1, <3>2 DEF BookkeepingInv, Ordered
  <2>3. QED
    BY <1>1, <2>2 DEF BookkeepingInv, ExecutorInv, BookkeepingExact
<1>2. QED
  BY <1>1, BookkeepingInvariant, PTL

\* A submitter hears one answer only: no callback follows the first.
THEOREM AnsweredOnce == Spec => ResolvedOnce
<1> DEFINE Told == \A c \in Command : outcome[c] \in Final => outcome'[c] = outcome[c]
<1> HIDE DEF Told
<1>1. ASSUME BookkeepingInv, [Next]_vars PROVE Told
  <2>1. TypeOK /\ ExecutorInv /\ Placed /\ Owed
    BY <1>1 DEF BookkeepingInv, ExecutorInv
  <2>2. \A c \in Command : outcome[c] \in {"new", "queued"} => outcome[c] \notin Final
    BY DEF Final
  <2>3. ASSUME NEW d \in Command, NEW x, outcome[d] \in {"new", "queued"},
               outcome' = [outcome EXCEPT ![d] = x]
        PROVE  Told
    BY <2>1, <2>2, <2>3 DEF TypeOK, Told
  <2>4. ASSUME NEW c \in Command, Submit(c) \/ SubmitRejected(c) PROVE Told
    BY <2>3, <2>4 DEF Submit, SubmitRejected
  <2>5. ASSUME NEW w \in Worker, NEW r, WorkerRun(w, r) PROVE Told
    <3>0. PICK d : d = current[w]
      OBVIOUS
    <3>1. worker[w] = "running" /\ outcome' = [outcome EXCEPT ![d] = r]
      BY <2>5, <3>0 DEF WorkerRun
    <3>2. d \in Command /\ outcome[d] = "queued"
      BY <2>1, <3>0, <3>1, SetFacts DEF Placed
    <3>3. outcome[d] \notin Final
      BY <3>2 DEF Final
    <3>4. QED
      BY <2>1, <3>1, <3>2, <3>3 DEF TypeOK, Told
  <2>6. CASE RunCancel
    <3>0. PICK d : d = Head(cancelled)
      OBVIOUS
    <3>1. cancelled # <<>> /\ outcome' = [outcome EXCEPT ![d] = "cancelled"]
      BY <2>6, <3>0 DEF RunCancel
    <3>2. d \in Command /\ d \in Elements(cancelled)
      BY <2>1, <3>0, <3>1, TailElements DEF TypeOK, Owed
    <3>3. outcome[d] \notin Final
      BY <2>1, <3>2 DEF Owed, Final
    <3>4. QED
      BY <2>1, <3>1, <3>2, <3>3 DEF TypeOK, Told
  <2>7. CASE outcome' = outcome
    BY <2>7 DEF Told
  <2>8. QED
    BY <1>1, <2>4, <2>5, <2>6, <2>7 DEF Next, WorkerStep, CloserStep, WorkerWait, WorkerReturn,
       WorkerTake, WorkerFinish, StopAccepting, DrainWait, DrainDone, JoinDone, vars
<1>2. BookkeepingInv /\ [Next]_vars => [Told]_vars
  BY <1>1
<1>3. Spec => [][Told]_vars
  BY <1>2, BookkeepingInvariant, PTL DEF Spec
<1>4. QED
  BY <1>3 DEF ResolvedOnce, Told

-----------------------------------------------------------------------------
(* The refinement: every step of the pool is a step of SerialLanes or      *)
(* changes nothing that SerialLanes knows of.                              *)

\* The front of a lane is the command of its key that is ready or held.
LEMMA LaneShape ==
    ASSUME NEW k, NEW R, R = {c \in Elements(ready) \union Held : KeyOf[c] = k}
    PROVE  /\ R = {} => LaneOf(k) = <<>> \o waiting[k]
           /\ \A c : R = {c} => LaneOf(k) = <<c>> \o waiting[k]
<1>1. Fronts(k) = R
  BY DEF Fronts, Holders, Held
<1>2. R = {} => LaneOf(k) = <<>> \o waiting[k]
  BY <1>1 DEF LaneOf
<1>3. ASSUME NEW c, R = {c} PROVE LaneOf(k) = <<c>> \o waiting[k]
  <2>1. Fronts(k) # {} /\ (CHOOSE d \in Fronts(k) : TRUE) = c
    BY <1>1, <1>3
  <2>2. QED
    BY <2>1 DEF LaneOf
<1>4. QED
  BY <1>2, <1>3

\* The same after a step.
LEMMA LaneShapePrimed ==
    ASSUME NEW k, NEW R, R = {c \in Elements(ready') \union Held' : KeyOf[c] = k}
    PROVE  /\ R = {} => LaneOf(k)' = <<>> \o waiting'[k]
           /\ \A c : R = {c} => LaneOf(k)' = <<c>> \o waiting'[k]
<1>1. Fronts(k)' = R
  BY DEF Fronts, Holders, Held
<1>2. R = {} => LaneOf(k)' = <<>> \o waiting'[k]
  BY <1>1 DEF LaneOf
<1>3. ASSUME NEW c, R = {c} PROVE LaneOf(k)' = <<c>> \o waiting'[k]
  <2>1. Fronts(k)' # {} /\ (CHOOSE d \in Fronts(k)' : TRUE) = c
    BY <1>1, <1>3
  <2>2. QED
    BY <2>1 DEF LaneOf
<1>4. QED
  BY <1>2, <1>3

\* Sequences with a command in front.
LEMMA FrontFacts ==
    ASSUME NEW s \in Seq(Command), NEW c \in Command, NEW f \in Command
    PROVE  /\ <<>> \o s = s
           /\ <<f>> \o s \in Seq(Command) /\ <<f>> \o s # <<>>
           /\ <<f>> \o Append(s, c) = Append(<<f>> \o s, c)
           /\ Append(<<>>, c) = <<c>> \o <<>>
           /\ Tail(<<f>> \o s) = s
           /\ SubSeq(<<f>> \o s, 1, 1) = <<f>> \o <<>>
           /\ s # <<>> => <<Head(s)>> \o Tail(s) = s
<1> DEFINE l == <<f>> \o s
<1>1. Len(s) \in Nat
  OBVIOUS
<1>2. /\ <<f>> \in Seq(Command) /\ Len(<<f>>) = 1 /\ <<f>>[1] = f
      /\ <<>> \in Seq(Command) /\ Len(<<>>) = 0
      /\ Len(s) \in Nat /\ \A i \in 1..Len(s) : s[i] \in Command
  OBVIOUS
<1>3. <<>> \o s = s
  BY <1>2
<1>4. /\ l \in Seq(Command) /\ Len(l) = Len(s) + 1
      /\ l[1] = f /\ \A i \in 1..Len(s) : l[i + 1] = s[i]
  BY <1>2
<1>5. l # <<>>
  BY <1>2, <1>4
<1>6. <<f>> \o Append(s, c) = Append(l, c)
  <2>1. /\ Append(s, c) \in Seq(Command) /\ Len(Append(s, c)) = Len(s) + 1
        /\ \A i \in 1..Len(s) : Append(s, c)[i] = s[i]
        /\ Append(s, c)[Len(s) + 1] = c
    BY <1>2
  <2>2. /\ Append(l, c) \in Seq(Command) /\ Len(Append(l, c)) = Len(s) + 2
        /\ \A i \in 1..(Len(s) + 1) : Append(l, c)[i] = l[i]
        /\ Append(l, c)[Len(s) + 2] = c
    <3> HIDE DEF l
    <3> QED BY <1>2, <1>4
  <2>3. PICK a : a = Append(s, c)
    OBVIOUS
  <2> DEFINE m == <<f>> \o a
  <2>4. /\ m \in Seq(Command) /\ Len(m) = Len(s) + 2
        /\ m[1] = f /\ \A i \in 1..(Len(s) + 1) : m[i + 1] = a[i]
    <3>1. a \in Seq(Command) /\ Len(a) = Len(s) + 1
      BY <2>3, <2>1
    <3>2. QED
      BY <3>1, <1>2
  <2>5. \A i \in 1..(Len(s) + 2) : m[i] = Append(l, c)[i]
    <3> SUFFICES ASSUME NEW i \in 1..(Len(s) + 2) PROVE m[i] = Append(l, c)[i]
      OBVIOUS
    <3> HIDE DEF m, l
    <3>1. CASE i = 1
      BY <3>1, <1>2, <1>4, <2>2, <2>4
    <3>2. CASE i > 1
      <4>1. PICK j \in 1..(Len(s) + 1) : i = j + 1
        BY <3>2, <1>2
      <4>2. CASE j \in 1..Len(s)
        <5>1. m[i] = a[j] /\ a[j] = s[j]
          BY <4>1, <4>2, <2>1, <2>3, <2>4
        <5>2. Append(l, c)[i] = l[i]
          BY <4>1, <4>2, <1>1, <2>2
        <5>3. l[i] = s[j]
          BY <4>1, <4>2, <1>4
        <5>4. QED
          BY <5>1, <5>2, <5>3, Zenon
      <4>3. CASE j = Len(s) + 1
        <5>1. m[i] = a[j] /\ a[j] = c
          BY <4>1, <4>3, <2>1, <2>3, <2>4
        <5>2. i = Len(s) + 2
          BY <4>1, <4>3, <1>1
        <5>3. QED
          BY <5>1, <5>2, <2>2
      <4>4. j \in 1..Len(s) \/ j = Len(s) + 1
        BY <4>1, <1>1
      <4>5. QED
        BY <4>2, <4>3, <4>4, Zenon
    <3>3. i = 1 \/ i > 1
      BY <1>1
    <3>4. QED
      BY <3>1, <3>2, <3>3, Zenon
  <2>6. QED
    <3> HIDE DEF m, l
    <3>1. m = Append(l, c)
      BY <2>2, <2>4, <2>5, SeqEqual
    <3>2. QED
      BY <3>1, <2>3 DEF m
<1>7. Append(<<>>, c) = <<c>> \o <<>>
  <2>1. Append(<<>>, c) = <<c>>
    OBVIOUS
  <2>2. <<c>> \o <<>> = <<c>>
    OBVIOUS
  <2>3. QED
    BY <2>1, <2>2
<1>8. Tail(l) = s
  <2> HIDE DEF l
  <2>1. /\ Tail(l) \in Seq(Command) /\ Len(Tail(l)) = Len(s)
        /\ \A i \in 1..Len(s) : Tail(l)[i] = l[i + 1]
    BY <1>2, <1>4, <1>5
  <2>2. \A i \in 1..Len(s) : Tail(l)[i] = s[i]
    BY <1>4, <2>1
  <2>3. QED
    BY <2>1, <2>2, SeqEqual
<1>9. SubSeq(l, 1, 1) = <<f>> \o <<>>
  <2> HIDE DEF l
  <2>1. /\ SubSeq(l, 1, 1) \in Seq(Command) /\ Len(SubSeq(l, 1, 1)) = 1
        /\ SubSeq(l, 1, 1)[1] = f
    <3>1. 1 \in 1..Len(l)
      BY <1>1, <1>4
    <3>2. QED
      BY <3>1, <1>4, SubSeqProperties
  <2>2. SubSeq(l, 1, 1) = <<f>>
    <3>1. \A i \in 1..1 : SubSeq(l, 1, 1)[i] = <<f>>[i]
      BY <2>1
    <3>2. QED
      BY <2>1, <3>1, <1>2, SeqEqual
  <2>3. <<f>> \o <<>> = <<f>>
    OBVIOUS
  <2>4. QED
    BY <2>2, <2>3
<1>10. ASSUME s # <<>> PROVE <<Head(s)>> \o Tail(s) = s
  <2>1. PICK h : h = Head(s)
    OBVIOUS
  <2>2. PICK t : t = Tail(s)
    OBVIOUS
  <2>3. /\ h \in Command /\ h = s[1] /\ t \in Seq(Command) /\ Len(s) = Len(t) + 1
        /\ \A i \in 1..Len(t) : t[i] = s[i + 1]
    BY <1>10, <2>1, <2>2
  <2>4. /\ <<h>> \in Seq(Command) /\ Len(<<h>>) = 1 /\ <<h>>[1] = h /\ Len(t) \in Nat
    BY <2>3
  <2> DEFINE m == <<h>> \o t
  <2>5. /\ m \in Seq(Command) /\ Len(m) = Len(t) + 1
        /\ m[1] = h /\ \A i \in 1..Len(t) : m[i + 1] = t[i]
    BY <2>3, <2>4
  <2> HIDE DEF m
  <2>6. \A i \in 1..(Len(t) + 1) : m[i] = s[i]
    <3> SUFFICES ASSUME NEW i \in 1..(Len(t) + 1) PROVE m[i] = s[i]
      OBVIOUS
    <3>1. CASE i = 1
      BY <3>1, <2>3, <2>5
    <3>2. CASE i > 1
      <4>1. PICK j \in 1..Len(t) : i = j + 1
        BY <3>2, <2>4
      <4>2. QED
        BY <4>1, <2>3, <2>5
    <3>3. QED
      BY <3>1, <3>2, <2>4
  <2>7. m = s
    BY <2>3, <2>5, <2>6, SeqEqual
  <2>8. QED
    BY <2>1, <2>2, <2>7 DEF m
<1>11. QED
  BY <1>3, <1>4, <1>5, <1>6, <1>7, <1>8, <1>9, <1>10

\* A lane whose front and waiting commands stay is the same lane.
LEMMA LaneKept ==
    ASSUME NEW k, waiting'[k] = waiting[k],
           {c \in Elements(ready') \union Held' : KeyOf[c] = k} =
               {c \in Elements(ready) \union Held : KeyOf[c] = k}
    PROVE  LaneOf(k)' = LaneOf(k)
<1>1. Fronts(k) = {c \in Elements(ready) \union Held : KeyOf[c] = k}
  BY DEF Fronts, Holders, Held
<1>2. Fronts(k)' = {c \in Elements(ready') \union Held' : KeyOf[c] = k}
  BY DEF Fronts, Holders, Held
<1>3. PICK F : F = Fronts(k)
  OBVIOUS
<1>4. Fronts(k)' = F
  BY <1>1, <1>2, <1>3
<1>5. LaneOf(k) = (IF F = {} THEN <<>> ELSE <<CHOOSE c \in F : TRUE>>) \o waiting[k]
  BY <1>3 DEF LaneOf
<1>6. LaneOf(k)' = (IF F = {} THEN <<>> ELSE <<CHOOSE c \in F : TRUE>>) \o waiting'[k]
  BY <1>4 DEF LaneOf
<1>7. QED
  BY <1>5, <1>6

\* Two commands of one key are never both ready or held.
LEMMA OneFront ==
    ASSUME ExecutorInv
    PROVE  \A c, d \in Elements(ready) \union Held : KeyOf[c] = KeyOf[d] => c = d
<1>1. \A c, d \in Elements(ready) : KeyOf[c] = KeyOf[d] => c = d
  BY DEF ExecutorInv, LaneState, Elements
<1>2. \A c, d \in Held : KeyOf[c] = KeyOf[d] => c = d
  BY DEF ExecutorInv, LaneExclusion, Held
<1>3. \A c \in Elements(ready), d \in Held : KeyOf[c] # KeyOf[d]
  BY DEF ExecutorInv, LaneState, Elements, Held
<1>4. QED
  BY <1>1, <1>2, <1>3

\* A lane in terms of its front, which is the command of its key that is
\* ready or held.
LEMMA LaneFacts ==
    ASSUME ExecutorInv, NEW k \in Key
    PROVE  /\ waiting[k] \in Seq(Command)
           /\ (\A c \in Elements(ready) \union Held : KeyOf[c] # k) => LaneOf(k) = waiting[k]
           /\ \A c \in Elements(ready) \union Held :
                 KeyOf[c] = k => c \in Command /\ LaneOf(k) = <<c>> \o waiting[k]
<1>1. PICK R : R = {c \in Elements(ready) \union Held : KeyOf[c] = k}
  OBVIOUS
<1>2. /\ R = {} => LaneOf(k) = <<>> \o waiting[k]
      /\ \A c : R = {c} => LaneOf(k) = <<c>> \o waiting[k]
  BY <1>1, LaneShape
<1>3. PICK s : s = waiting[k]
  OBVIOUS
<1>4. s \in Seq(Command)
  BY <1>3 DEF ExecutorInv, TypeOK
<1>5. <<>> \o s = s
  BY <1>4
<1>6. (\A c \in Elements(ready) \union Held : KeyOf[c] # k) => R = {}
  BY <1>1
<1>7. ASSUME NEW c \in Elements(ready) \union Held, KeyOf[c] = k PROVE R = {c} /\ c \in Command
  BY <1>1, <1>7, OneFront, SetFacts
<1>8. QED
  BY <1>2, <1>3, <1>4, <1>5, <1>6, <1>7

\* The same after a step.
LEMMA LaneFactsPrimed ==
    ASSUME ExecutorInv', NEW k \in Key
    PROVE  /\ waiting'[k] \in Seq(Command)
           /\ (\A c \in Elements(ready') \union Held' : KeyOf[c] # k) => LaneOf(k)' = waiting'[k]
           /\ \A c \in Elements(ready') \union Held' :
                 KeyOf[c] = k => LaneOf(k)' = <<c>> \o waiting'[k]
<1>1. PICK R : R = {c \in Elements(ready') \union Held' : KeyOf[c] = k}
  OBVIOUS
<1>2. /\ R = {} => LaneOf(k)' = <<>> \o waiting'[k]
      /\ \A c : R = {c} => LaneOf(k)' = <<c>> \o waiting'[k]
  BY <1>1, LaneShapePrimed
<1>3. PICK s : s = waiting'[k]
  OBVIOUS
<1>4. s \in Seq(Command)
  BY <1>3 DEF ExecutorInv, TypeOK
<1>5. <<>> \o s = s
  BY <1>4
<1>6. (\A c \in Elements(ready') \union Held' : KeyOf[c] # k) => R = {}
  BY <1>1
<1>7. \A c, d \in Elements(ready') \union Held' : KeyOf[c] = KeyOf[d] => c = d
  <2>1. \A c, d \in Elements(ready') : KeyOf[c] = KeyOf[d] => c = d
    BY DEF ExecutorInv, LaneState, Elements
  <2>2. \A c, d \in Held' : KeyOf[c] = KeyOf[d] => c = d
    BY DEF ExecutorInv, LaneExclusion, Held
  <2>3. \A c \in Elements(ready'), d \in Held' : KeyOf[c] # KeyOf[d]
    BY DEF ExecutorInv, LaneState, Elements, Held
  <2>4. QED
    BY <2>1, <2>2, <2>3
<1>8. ASSUME NEW c \in Elements(ready') \union Held', KeyOf[c] = k PROVE R = {c}
  BY <1>1, <1>7, <1>8
<1>9. QED
  BY <1>2, <1>3, <1>4, <1>5, <1>6, <1>8

\* submit() appends to the lane of the command's key.
LEMMA SubmitAccepts ==
    ASSUME BookkeepingInv, ExecutorInv', NEW c \in Command, Submit(c)
    PROVE  Lanes!Accept(c)
<1>1. PICK k : k = KeyOf[c]
  OBVIOUS
<1>2. /\ k \in Key /\ Held' = Held
      /\ \/ /\ k \in occupiedKeys
            /\ waiting' = [waiting EXCEPT ![k] = Append(waiting[k], c)]
            /\ ready' = ready
         \/ /\ k \notin occupiedKeys
            /\ ready' = Append(ready, c) /\ waiting' = waiting
            /\ c \in Elements(ready')
  BY <1>1, SubmitMoves
<1>3. ExecutorInv /\ TypeOK /\ Placed /\ Occupied
  BY DEF BookkeepingInv, ExecutorInv
<1>4. /\ Elements(ready') \subseteq Elements(ready) \union {c}
      /\ Elements(ready) \subseteq Elements(ready')
  BY SubmitMoves
<1>5. ASSUME NEW l \in Key, l # k PROVE LaneOf(l)' = LaneOf(l)
  <2>1. waiting'[l] = waiting[l]
    BY <1>2, <1>3, <1>5 DEF TypeOK
  <2>2. {d \in Elements(ready') \union Held' : KeyOf[d] = l} =
           {d \in Elements(ready) \union Held : KeyOf[d] = l}
    BY <1>1, <1>2, <1>4, <1>5
  <2>3. QED
    BY <2>1, <2>2, LaneKept
<1>6. PICK s : s = waiting[k]
  OBVIOUS
<1>7. s \in Seq(Command)
  BY <1>2, <1>3, <1>6 DEF TypeOK
<1>8. LaneOf(k)' = Append(LaneOf(k), c)
  <2>1. CASE k \in occupiedKeys
    <3>1. PICK f \in Elements(ready) \union Held : KeyOf[f] = k
      BY <1>3, <2>1 DEF Occupied
    <3>2. f \in Command /\ LaneOf(k) = <<f>> \o s
      BY <1>2, <1>3, <1>6, <3>1, LaneFacts
    <3>3. ready' = ready /\ waiting'[k] = Append(s, c)
      BY <1>2, <1>3, <1>6, <2>1 DEF TypeOK
    <3>4. f \in Elements(ready') \union Held'
      BY <1>2, <3>1, <3>3
    <3>5. LaneOf(k)' = <<f>> \o waiting'[k]
      BY <1>2, <3>1, <3>4, LaneFactsPrimed
    <3>6. <<f>> \o Append(s, c) = Append(<<f>> \o s, c)
      BY <1>7, <3>2, FrontFacts
    <3>7. QED
      BY <3>2, <3>3, <3>5, <3>6
  <2>2. CASE k \notin occupiedKeys
    <3>1. waiting'[k] = s /\ c \in Elements(ready')
      BY <1>2, <1>6, <2>2
    <3>2. s = <<>>
      <4>1. Elements(s) = {}
        BY <1>2, <1>3, <1>6, <2>2 DEF Placed
      <4>2. DOMAIN s = {}
        BY <4>1 DEF Elements
      <4>3. QED
        BY <1>7, <4>2
    <3>3. \A d \in Elements(ready) \union Held : KeyOf[d] # k
      <4>1. \A d \in Elements(ready) : KeyOf[d] \in occupiedKeys
        BY <1>3 DEF ExecutorInv, LaneState, Elements
      <4>2. \A d \in Held : KeyOf[d] \in occupiedKeys
        BY <1>3 DEF ExecutorInv, LaneState, Held
      <4>3. QED
        BY <2>2, <4>1, <4>2
    <3>4. LaneOf(k) = s
      BY <1>2, <1>3, <1>6, <3>3, LaneFacts
    <3>5. LaneOf(k)' = <<c>> \o s
      BY <1>1, <1>2, <3>1, LaneFactsPrimed
    <3>6. Append(<<>>, c) = <<c>> \o <<>>
      BY <1>7, FrontFacts
    <3>7. QED
      BY <3>2, <3>4, <3>5, <3>6
  <2>3. QED
    BY <2>1, <2>2
<1>9. [l \in Key |-> LaneOf(l)]' = [[l \in Key |-> LaneOf(l)] EXCEPT ![k] = Append(@, c)]
  BY <1>2, <1>5, <1>8
<1>10. /\ accepting /\ outstanding < MaxCommands /\ outstanding' = outstanding + 1
       /\ UNCHANGED <<runningKeys, accepting>>
  BY DEF Submit, HasCapacity
<1>11. QED
  BY <1>1, <1>9, <1>10 DEF Lanes!Accept, Lanes!CanAccept

\* A worker that takes a command begins the front of its lane.
LEMMA TakeBegins ==
    ASSUME BookkeepingInv, ExecutorInv', NEW w \in Worker, WorkerTake(w)
    PROVE  \E k \in Key : Lanes!Begin(k)
<1>1. ExecutorInv /\ TypeOK /\ LaneState /\ HoldsCommand
  BY DEF BookkeepingInv, ExecutorInv
<1>2. PICK c : c = Head(ready)
  OBVIOUS
<1>3. /\ ready # <<>> /\ ready' = Tail(ready) /\ waiting' = waiting /\ worker[w] = "looking"
      /\ current' = [current EXCEPT ![w] = c] /\ runningKeys' = runningKeys \union {KeyOf[c]}
      /\ UNCHANGED <<outstanding, accepting>>
  BY <1>2 DEF WorkerTake
<1>4. \A i, j \in DOMAIN ready : i # j => ready[i] # ready[j]
  BY <1>1 DEF LaneState
<1>5. /\ c \in Command /\ Elements(ready) = Elements(ready') \union {c}
  BY <1>1, <1>2, <1>3, <1>4, TailElements DEF TypeOK
<1>6. c \in Elements(ready) /\ KeyOf[c] \in Key /\ KeyOf[c] \notin runningKeys
  BY <1>1, <1>5, ExecutorAssumption DEF LaneState, Elements
<1>7. current[w] = NoCommand /\ current' = [current EXCEPT ![w] = c]
  BY <1>1, <1>3 DEF HoldsCommand
<1>8. Held' = Held \union {c}
  <2>1. \A v \in Worker : current'[v] = IF v = w THEN c ELSE current[v]
    BY <1>1, <1>7 DEF TypeOK
  <2>2. c # NoCommand
    BY <1>5, ExecutorAssumption
  <2>3. QED
    BY <1>7, <2>1, <2>2 DEF Held
<1>9. Elements(ready') \union Held' = Elements(ready) \union Held
  BY <1>5, <1>8
<1>10. ASSUME NEW l \in Key PROVE LaneOf(l)' = LaneOf(l)
  BY <1>3, <1>9, LaneKept
<1>11. LaneOf(KeyOf[c]) # <<>>
  <2>1. PICK s : s = waiting[KeyOf[c]]
    OBVIOUS
  <2>2. s \in Seq(Command) /\ LaneOf(KeyOf[c]) = <<c>> \o s
    BY <1>1, <1>6, <2>1, LaneFacts
  <2>3. QED
    BY <1>5, <2>2, FrontFacts
<1>12. [l \in Key |-> LaneOf(l)]' = [l \in Key |-> LaneOf(l)]
  BY <1>10
<1>13. [l \in Key |-> LaneOf(l)][KeyOf[c]] # <<>>
  BY <1>6, <1>11
<1>14. Lanes!Begin(KeyOf[c])
  BY <1>3, <1>6, <1>12, <1>13 DEF Lanes!Begin
<1>15. QED
  BY <1>6, <1>14

\* _finish() releases the front of its lane.
LEMMA FinishFinishes ==
    ASSUME BookkeepingInv, ExecutorInv', NEW w \in Worker, WorkerFinish(w)
    PROVE  \E k \in Key : Lanes!Finish(k)
<1>1. ExecutorInv /\ TypeOK
  BY DEF BookkeepingInv, ExecutorInv
<1>2. PICK c : c = current[w]
  OBVIOUS
<1>3. PICK k : k = KeyOf[c]
  OBVIOUS
<1>4. PICK s : s = waiting[k]
  OBVIOUS
<1>5. PICK h : h = Head(s)
  OBVIOUS
<1>6. /\ c \in Command /\ c \in Held /\ k \in runningKeys /\ k \in Key
      /\ Held' = Held \ {c}
      /\ \A d \in Held : d # c => KeyOf[d] # k
      /\ \A d \in Elements(ready) : KeyOf[d] # k
      /\ \/ /\ s # <<>>
            /\ waiting' = [waiting EXCEPT ![k] = Tail(s)]
            /\ Elements(ready') = Elements(ready) \union {h}
            /\ h \in Elements(s)
         \/ /\ s = <<>> /\ ready' = ready /\ waiting' = waiting
  BY <1>2, <1>3, <1>4, <1>5, FinishMoves
<1>7. s \in Seq(Command) /\ \A d \in Elements(s) : KeyOf[d] = k
  BY <1>1, <1>4, <1>6, SetFacts DEF TypeOK
<1>8. ASSUME NEW l \in Key, l # k PROVE LaneOf(l)' = LaneOf(l)
  <2>1. waiting'[l] = waiting[l]
    BY <1>1, <1>6, <1>8 DEF TypeOK
  <2>2. {d \in Elements(ready') \union Held' : KeyOf[d] = l} =
           {d \in Elements(ready) \union Held : KeyOf[d] = l}
    BY <1>3, <1>6, <1>7, <1>8
  <2>3. QED
    BY <2>1, <2>2, LaneKept
<1>9. LaneOf(k) = <<c>> \o s /\ Tail(<<c>> \o s) = s
  <2>1. LaneOf(k) = <<c>> \o s
    BY <1>1, <1>3, <1>4, <1>6, LaneFacts
  <2>2. Tail(<<c>> \o s) = s
    BY <1>6, <1>7, FrontFacts
  <2>3. QED
    BY <2>1, <2>2
<1>10. LaneOf(k)' = s
  <2>1. CASE s # <<>>
    <3>1. h \in Elements(ready') /\ KeyOf[h] = k /\ waiting'[k] = Tail(s)
      BY <1>1, <1>6, <1>7, <2>1 DEF TypeOK
    <3>2. LaneOf(k)' = <<h>> \o Tail(s)
      BY <1>6, <3>1, LaneFactsPrimed
    <3>3. <<Head(s)>> \o Tail(s) = s
      BY <1>6, <1>7, <2>1, FrontFacts
    <3>4. QED
      BY <1>5, <3>2, <3>3
  <2>2. CASE s = <<>>
    <3>1. ready' = ready /\ waiting'[k] = s
      BY <1>4, <1>6, <2>2
    <3>2. \A d \in Elements(ready') \union Held' : KeyOf[d] # k
      BY <1>6, <3>1
    <3>3. QED
      BY <1>6, <3>1, <3>2, LaneFactsPrimed
  <2>3. QED
    BY <2>1, <2>2
<1>11. [l \in Key |-> LaneOf(l)]' = [[l \in Key |-> LaneOf(l)] EXCEPT ![k] = Tail(@)]
  BY <1>6, <1>8, <1>9, <1>10
<1>12. /\ runningKeys' = runningKeys \ {k} /\ outstanding' = outstanding - 1
       /\ UNCHANGED accepting
  BY <1>2, <1>3 DEF WorkerFinish
<1>13. Lanes!Finish(k)
  BY <1>6, <1>11, <1>12 DEF Lanes!Finish
<1>14. QED
  BY <1>6, <1>13

\* Each running key is the key of one held command.
LEMMA RunningCount ==
    ASSUME ExecutorInv, Occupied
    PROVE  Cardinality(runningKeys) = Cardinality(Held)
<1> DEFINE f == [c \in Held |-> KeyOf[c]]
<1>1. IsFiniteSet(Held)
  BY SetFacts
<1>2. \A c \in Held : KeyOf[c] \in runningKeys
  BY DEF ExecutorInv, LaneState, Held
<1>3. \A c, d \in Held : KeyOf[c] = KeyOf[d] => c = d
  BY OneFront
<1>4. \A k \in runningKeys : \E c \in Held : f[c] = k
  BY DEF Occupied
<1>5. f \in Bijection(Held, runningKeys)
  BY <1>2, <1>3, <1>4 DEF Bijection, Injection, Surjection, IsInjective
<1>6. ExistsBijection(Held, runningKeys)
  BY <1>5 DEF ExistsBijection
<1>7. QED
  BY <1>1, <1>6, FS_Bijection

\* stop_accepting() keeps the running fronts and drops the rest.
LEMMA StopCancels ==
    ASSUME BookkeepingInv, ExecutorInv', StopAccepting
    PROVE  Lanes!StopAndCancel
<1>1. ExecutorInv /\ TypeOK /\ LaneState /\ Occupied
  BY DEF BookkeepingInv, ExecutorInv
<1>2. /\ Elements(ready') = {} /\ Held' = Held
      /\ waiting' = [k \in Key |-> <<>>] /\ outstanding' = Cardinality(Held)
  BY StopMoves
<1>3. \A c \in Held : KeyOf[c] \in runningKeys
  BY <1>1 DEF LaneState, Held
<1>4. ASSUME NEW k \in Key, k \in runningKeys PROVE LaneOf(k)' = SubSeq(LaneOf(k), 1, 1)
  <2>1. PICK c \in Held : KeyOf[c] = k
    BY <1>1, <1>4 DEF Occupied
  <2>2. PICK s : s = waiting[k]
    OBVIOUS
  <2>3. s \in Seq(Command) /\ c \in Command /\ LaneOf(k) = <<c>> \o s
    BY <1>1, <2>1, <2>2, LaneFacts
  <2>4. SubSeq(<<c>> \o s, 1, 1) = <<c>> \o <<>>
    BY <2>3, FrontFacts
  <2>5. c \in Held' /\ waiting'[k] = <<>>
    BY <1>2, <2>1
  <2>6. LaneOf(k)' = <<c>> \o <<>>
    BY <2>1, <2>5, LaneFactsPrimed
  <2>7. QED
    BY <2>3, <2>4, <2>6
<1>5. ASSUME NEW k \in Key, k \notin runningKeys PROVE LaneOf(k)' = <<>>
  <2>1. \A c \in Elements(ready') \union Held' : KeyOf[c] # k
    BY <1>2, <1>3, <1>5
  <2>2. waiting'[k] = <<>>
    BY <1>2
  <2>3. QED
    BY <2>1, <2>2, LaneFactsPrimed
<1>6. [k \in Key |-> LaneOf(k)]' =
         [k \in Key |-> IF k \in runningKeys THEN SubSeq([l \in Key |-> LaneOf(l)][k], 1, 1)
                                             ELSE <<>>]
  BY <1>4, <1>5
<1>7. /\ accepting' = FALSE /\ runningKeys' = runningKeys
  BY DEF StopAccepting
<1>8. outstanding' = Cardinality(runningKeys)
  BY <1>1, <1>2, RunningCount
<1>9. Lanes!Cardinality(runningKeys) = Cardinality(runningKeys)
  BY DEF Cardinality, Lanes!Cardinality
<1>10. QED
  BY <1>6, <1>7, <1>8, <1>9 DEF Lanes!StopAndCancel

\* A step that moves no command is a stutter of SerialLanes.
LEMMA QuietLanes ==
    ASSUME UNCHANGED <<ready, waiting, runningKeys, outstanding, accepting, current>>
    PROVE  UNCHANGED Lanes!lanesVars
<1>1. Held' = Held /\ Elements(ready') = Elements(ready)
  BY DEF Held
<1>2. ASSUME NEW k \in Key PROVE LaneOf(k)' = LaneOf(k)
  BY <1>1, LaneKept
<1>3. [k \in Key |-> LaneOf(k)]' = [k \in Key |-> LaneOf(k)]
  BY <1>2
<1>4. QED
  BY <1>3 DEF Lanes!lanesVars

\* BoundedCommandExecutor implements one FIFO lane per key: accepting appends
\* to a lane, only the front of a lane runs, finishing releases it, and
\* stopping drops exactly what had not begun.
THEOREM LanesImplemented == Spec => ImplementsSerialLanes
<1>1. Init => Lanes!LanesInit
  <2> SUFFICES ASSUME Init PROVE Lanes!LanesInit
    OBVIOUS
  <2>1. ExecutorInv
    BY ExecutorInit
  <2>2. /\ Elements(ready) = {} /\ Held = {} /\ \A k \in Key : waiting[k] = <<>>
    BY DEF Init, Elements, Held
  <2>3. \A k \in Key : LaneOf(k) = <<>>
    BY <2>1, <2>2, LaneFacts
  <2>4. QED
    BY <2>3 DEF Init, Lanes!LanesInit
<1>2. ASSUME BookkeepingInv, [Next]_vars PROVE [Lanes!LanesNext]_(Lanes!lanesVars)
  <2>1. ExecutorInv'
    BY <1>2, ExecutorStep DEF BookkeepingInv
  <2>2. ASSUME NEW c \in Command, Submit(c) PROVE Lanes!LanesNext
    BY <1>2, <2>1, <2>2, SubmitAccepts DEF Lanes!LanesNext
  <2>3. ASSUME NEW w \in Worker, WorkerTake(w) PROVE Lanes!LanesNext
    BY <1>2, <2>1, <2>3, TakeBegins DEF Lanes!LanesNext
  <2>4. ASSUME NEW w \in Worker, WorkerFinish(w) PROVE Lanes!LanesNext
    BY <1>2, <2>1, <2>4, FinishFinishes DEF Lanes!LanesNext
  <2>5. CASE StopAccepting
    BY <1>2, <2>1, <2>5, StopCancels DEF Lanes!LanesNext
  <2>6. CASE UNCHANGED <<ready, waiting, runningKeys, outstanding, accepting, current>>
    BY <2>6, QuietLanes
  <2>7. ASSUME NEW c \in Command, SubmitRejected(c)
        PROVE  UNCHANGED <<ready, waiting, runningKeys, outstanding, accepting, current>>
    BY <2>7 DEF SubmitRejected, queueVars
  <2>8. ASSUME NEW w \in Worker, NEW r, WorkerWait(w) \/ WorkerReturn(w) \/ WorkerRun(w, r)
        PROVE  UNCHANGED <<ready, waiting, runningKeys, outstanding, accepting, current>>
    BY <2>8 DEF WorkerWait, WorkerReturn, WorkerRun, queueVars
  <2>9. ASSUME RunCancel \/ DrainWait \/ DrainDone \/ JoinDone \/ UNCHANGED vars
        PROVE  UNCHANGED <<ready, waiting, runningKeys, outstanding, accepting, current>>
    BY <2>9 DEF RunCancel, DrainWait, DrainDone, JoinDone, queueVars, vars
  <2>10. QED
    BY <1>2, <2>2, <2>3, <2>4, <2>5, <2>6, <2>7, <2>8, <2>9 DEF Next, WorkerStep, CloserStep
<1>3. QED
  BY <1>1, <1>2, BookkeepingInvariant, PTL DEF Spec, ImplementsSerialLanes, Lanes!LanesSpec
=============================================================================
