----------------------- MODULE OperationRuntimeProofs -----------------------
(***************************************************************************)
(* Theorems about the operation runtime, for any set of operations, any     *)
(* retention and any choice of bodies: cancellation reaches what it must,   *)
(* one thread drains the events, observers are told in order, and the       *)
(* tables and records are left as they should be.                           *)
(***************************************************************************)
EXTENDS OperationRuntime, SelectionTheorems

\* The state of a record fits the control points of the thread that starts the
\* operation and of the thread that runs it.
ControlFits ==
    \A o \in Operation :
        /\ state[o] = "absent" <=> starter[o] = "idle"
        /\ starter[o] # "done" => worker[o] = "none"
        /\ state[o] = "queued" => starter[o] = "queued" \/ worker[o] = "started"
        /\ state[o] = "running" => worker[o] \in {"body", "cancelled", "failed"}

\* The order of the starts names every operation that was started, once.
OrderFits ==
    /\ IsInjective(order)
    /\ \A o \in Operation : o \in Range(order) <=> state[o] # "absent"

\* How far shutdown() has come says what may still be active.
StopFits ==
    /\ closed <=> stopper # "idle"
    /\ stopper = "idle" => grip[Stop] = NoGrip
    /\ closeAsked \/ pubClosed => stopper = "done"
    /\ \A o \in Operation :
          /\ closed => state[o] # "queued"
          /\ stopper = "joining" /\ Active(o) => o \in live

\* The draining flag is set while a thread drains or events wait, and one
\* thread drains; only shutdown() sets the flag without draining.  A closed
\* publisher can only be asked to tell final states.
DrainFits ==
    /\ drainers # {} => draining
    /\ \A th, tk \in drainers : th = tk
    /\ queue # <<>> => draining
    /\ draining /\ ~closed => drainers # {}
    /\ pubClosed => \A i \in DOMAIN queue : queue[i][2] \in Terminal

\* A hook is at one place at a time: registered, in the hands of one thread, or
\* called, once; it leaves the table when the cancellation is requested; and
\* while the body runs hookCalled knows of the last two.
HooksFit ==
    \A o \in Operation :
        /\ hookRuns[o] <= 1
        /\ o \in cancelReq => o \notin hook
        /\ worker[o] \in {"none", "started"} \/ o \in hook =>
             /\ hookRuns[o] = 0 /\ o \notin hookCalled
             /\ \A th \in Thread : o \notin grip[th].hooks
        /\ worker[o] \in {"none", "started"} => o \notin hook
        /\ \A th \in Thread : o \in grip[th].hooks => hookRuns[o] = 0
        /\ \A th, tk \in Thread :
             o \in grip[th].hooks /\ o \in grip[tk].hooks => th = tk
        /\ worker[o] # "dead" =>
             /\ hookRuns[o] # 0 => o \in hookCalled
             /\ \A th \in Thread : o \in grip[th].hooks => o \in hookCalled

\* A hook the body gave is registered, called or in the hands of a thread that
\* will call it, or its worker has ended and nobody had asked for a cancel.  The
\* flag stands for the request while the thread that runs the body is there.
Busy == {"body", "cancelled", "failed", "cleanup"}
Held(o) == \E th \in Thread : o \in grip[th].hooks
OffersFit ==
    \A o \in Operation :
        /\ offer[o] # "none" => worker[o] \notin {"none", "started"}
        /\ o \in hook \cup hookCalled => offer[o] = "kept"
        /\ o \in cancelReq => o \in cancelAsked
        /\ o \in cancelAsked =>
             /\ state[o] \notin {"absent", "queued"}
             /\ worker[o] \in Busy => o \in cancelReq
        /\ hookRuns[o] # 0 \/ Held(o) => o \in cancelAsked
        /\ offer[o] = "kept" =>
             \/ o \in hook \/ hookRuns[o] = 1 \/ Held(o)
             \/ worker[o] = "dead" /\ o \notin cancelAsked

\* What was told of an operation: nothing before it exists, its start first of
\* all, and no end while the thread that cancelled it has yet to announce it.
Told(o) ==
    /\ state[o] = "absent" =>
         published[o] = <<>> /\ \A i \in DOMAIN queue : queue[i][1] # o
    /\ state[o] # "absent" =>
         published[o] # <<>> \/ \E i \in DOMAIN queue : queue[i] = <<o, "queued">>
    /\ canceller[o] = "announcing" =>
         /\ state[o] = "cancelled"
         /\ \A i \in DOMAIN published[o] : published[o][i] \notin Terminal
         /\ \A i \in DOMAIN queue : queue[i][1] = o => queue[i][2] \notin Terminal
EventsFit == \A o \in Operation : Told(o)

\* The inductive invariant.
OperationInv ==
    /\ TypeOK /\ ControlFits /\ OrderFits /\ StopFits /\ DrainFits
    /\ HooksFit /\ OffersFit /\ CancelReaches /\ EventsFit /\ EventOrder
    /\ NoResidue /\ RetentionExact /\ StoppedMeansSettled

Event == {"queued", "running"} \cup Terminal

-----------------------------------------------------------------------------
(* The operators the actions are built from.                               *)

\* The threads are told apart.
LEMMA Threads ==
    /\ \A o \in Operation : {Start(o), Work(o), Cancel(o), Stop} \subseteq Thread
    /\ \A o, p \in Operation :
         /\ Work(o) = Work(p) => o = p
         /\ Cancel(o) = Cancel(p) => o = p
         /\ Work(o) # Cancel(p) /\ Work(o) # Stop /\ Cancel(o) # Stop
  BY DEF Thread, Start, Work, Cancel, Stop

\* An event joins the queue at its end.
LEMMA QueueAppended ==
    ASSUME TypeOK, NEW o \in Operation, NEW st \in Event,
           queue' = Append(queue, <<o, st>>)
    PROVE  /\ queue \in Seq(Operation \X Event) /\ Len(queue) \in Nat
           /\ DOMAIN queue = 1..Len(queue)
           /\ queue' \in Seq(Operation \X Event) /\ queue' # <<>>
           /\ Len(queue') = Len(queue) + 1 /\ DOMAIN queue' = 1..(Len(queue) + 1)
           /\ \A i \in 1..Len(queue) : queue'[i] = queue[i]
           /\ queue'[Len(queue) + 1] = <<o, st>>
<1>1. queue \in Seq(Operation \X Event)
  BY DEF TypeOK, Event
<1>2. <<o, st>> \in Operation \X Event
  OBVIOUS
<1>3. QED
  BY <1>1, <1>2, AppendProperties, LenProperties

\* The oldest event leaves the queue.
LEMMA QueueDrained ==
    ASSUME TypeOK, queue # <<>>, queue' = Tail(queue)
    PROVE  /\ Len(queue) \in Nat \ {0} /\ DOMAIN queue = 1..Len(queue)
           /\ Head(queue) = queue[1] /\ queue[1] \in Operation \X Event
           /\ Len(queue') = Len(queue) - 1 /\ DOMAIN queue' = 1..(Len(queue) - 1)
           /\ \A i \in DOMAIN queue' : i + 1 \in DOMAIN queue /\ queue'[i] = queue[i + 1]
<1>1. queue \in Seq(Operation \X Event)
  BY DEF TypeOK, Event
<1>2. Len(queue) \in Nat \ {0} /\ DOMAIN queue = 1..Len(queue) /\ Head(queue) = queue[1]
  BY <1>1, LenProperties, EmptySeq
<1>3. /\ Tail(queue) \in Seq(Operation \X Event) /\ Len(Tail(queue)) = Len(queue) - 1
      /\ \A i \in 1..Len(Tail(queue)) : Tail(queue)[i] = queue[i + 1]
  BY <1>1, HeadTailProperties
<1>4. DOMAIN Tail(queue) = 1..(Len(queue) - 1)
  BY <1>3, LenProperties
<1>5. \A i \in 1..(Len(queue) - 1) : i + 1 \in 1..Len(queue)
  BY <1>2
<1>6. QED
  BY <1>1, <1>2, <1>3, <1>4, <1>5, ElementOfSeq

\* What is retained after some operations ended is at most Retention of what
\* was retained before and of those.
LEMMA RememberBounded ==
    ASSUME TypeOK, NEW ended \in Seq(Operation)
    PROVE  /\ Remember(ended) \in Seq(Operation)
           /\ Len(Remember(ended)) <= Retention
           /\ Range(Remember(ended)) \subseteq Range(retained) \cup Range(ended)
<1> DEFINE all == retained \o ended
           from == Len(all) - Retention + 1
<1>1. /\ all \in Seq(Operation) /\ Len(all) \in Nat /\ DOMAIN all = 1..Len(all)
      /\ Range(all) = Range(retained) \cup Range(ended)
  BY ConcatProperties, RangeConcatenation, LenProperties DEF TypeOK
<1>2. Retention \in Nat
  BY OperationAssumption
<1> HIDE DEF all
<1>3. CASE Len(all) > Retention
  <2>1. \A i \in from..Len(all) : i \in 1..Len(all) /\ all[i] \in Operation /\ all[i] \in Range(all)
    BY <1>1, <1>2, <1>3, ElementOfSeq DEF Range
  <2>2. from \in Int /\ Len(all) \in Int
    BY <1>1, <1>2
  <2>3. SubSeq(all, from, Len(all)) \in Seq(Operation)
    BY <2>1, <2>2, SubSeqProperties
  <2>4. SubSeq(all, from, Len(all)) \in Seq(Range(all))
    BY <2>1, <2>2, SubSeqProperties
  <2>5. Len(SubSeq(all, from, Len(all))) = Retention
    BY <1>1, <1>2, <1>3, <2>1, <2>2, SubSeqProperties
  <2>6. Range(SubSeq(all, from, Len(all))) \subseteq Range(all)
    BY <2>4, RangeOfSeq
  <2>7. Remember(ended) = SubSeq(all, from, Len(all))
    BY <1>3 DEF Remember, all
  <2>8. QED
    BY <1>1, <1>2, <2>3, <2>5, <2>6, <2>7
<1>4. CASE ~(Len(all) > Retention)
  BY <1>1, <1>2, <1>4 DEF Remember, all
<1>5. QED
  BY <1>3, <1>4

\* An operation that changes its state changes no other record, and what is
\* retained stays bounded.
LEMMA BecomeFacts ==
    ASSUME TypeOK, RetentionExact, NEW o \in Operation, NEW st \in Event, Become(o, st)
    PROVE  /\ state' = [state EXCEPT ![o] = st] /\ order' = order
           /\ state' \in [Operation -> {"absent", "queued", "running"} \cup Terminal]
           /\ retained' \in Seq(Operation) /\ Len(retained') <= Retention
           /\ Range(retained') \subseteq Range(retained) \cup {o}
           /\ o \in Range(retained') => st \in Terminal \/ o \in Range(retained)
<1>1. <<o>> \in Seq(Operation) /\ Range(<<o>>) = {o}
  BY DEF Range
<1>2. QED
  BY <1>1, RememberBounded DEF Become, TypeOK, RetentionExact, Event

\* shutdown() cancels active operations, and queues one event for each.
LEMMA CancelAllFacts ==
    ASSUME TypeOK, OrderFits, RetentionExact, NEW S \in SUBSET Operation,
           \A o \in S : Active(o),
           CancelAll(Only(order, S))
    PROVE  /\ state' = [o \in Operation |-> IF o \in S THEN "cancelled" ELSE state[o]]
           /\ order' = order /\ drainers' = drainers
           /\ retained' \in Seq(Operation) /\ Len(retained') <= Retention
           /\ Range(retained') \subseteq Range(retained) \cup S
           /\ queue \in Seq(Operation \X Event) /\ Len(queue) \in Nat
           /\ DOMAIN queue = 1..Len(queue)
           /\ queue' \in Seq(Operation \X Event)
           /\ Len(queue') \in Nat /\ Len(queue') >= Len(queue)
           /\ DOMAIN queue' = 1..Len(queue')
           /\ \A i \in 1..Len(queue) : queue'[i] = queue[i]
           /\ \A i \in Len(queue)+1..Len(queue') : \E o \in S : queue'[i] = <<o, "cancelled">>
           /\ \A i, j \in Len(queue)+1..Len(queue') : queue'[i][1] = queue'[j][1] => i = j
           /\ draining' \in BOOLEAN
           /\ draining => draining'
           /\ queue' # queue => draining'
<1> DEFINE ended == Only(order, S)
           events == [i \in DOMAIN ended |-> <<ended[i], "cancelled">>]
<1>1. order \in Seq(Operation) /\ IsInjective(order) /\ S \subseteq Range(order)
  BY DEF TypeOK, OrderFits, Active
<1>2. ended \in Seq(Operation) /\ ended \in Seq(S) /\ Range(ended) = S /\ IsInjective(ended)
  <2>1. ended \in Seq(Operation) /\ ended \in Seq(S) /\ Range(ended) = Range(order) \cap S
    BY <1>1, OnlyMembers
  <2>2. IsInjective(ended)
    BY <1>1, OnlyInjective
  <2>3. QED
    BY <1>1, <2>1, <2>2
<1>3. Len(ended) \in Nat /\ DOMAIN ended = 1..Len(ended)
  BY <1>2, LenProperties
<1> HIDE DEF ended
<1>4. \A i \in DOMAIN ended : ended[i] \in S
  BY <1>2, <1>3, ElementOfSeq
<1>5. events \in Seq(Operation \X Event) /\ Len(events) = Len(ended)
  <2>1. events \in [1..Len(ended) -> Operation \X Event]
    BY <1>3, <1>4 DEF Event, Terminal
  <2>2. events \in Seq(Operation \X Event)
    BY <1>3, <2>1, SeqDef
  <2>3. QED
    BY <1>3, <2>1, <2>2, LenProperties
<1>6. \A i \in 1..Len(ended) : events[i] = <<ended[i], "cancelled">>
  BY <1>3
<1> HIDE DEF events
<1>7. queue \in Seq(Operation \X Event) /\ Len(queue) \in Nat /\ DOMAIN queue = 1..Len(queue)
  BY LenProperties DEF TypeOK, Event
<1>8. queue' = queue \o events /\ draining' = (draining \/ events # <<>>) /\ drainers' = drainers
  BY DEF CancelAll, QueueWithoutDrain, events, ended
<1>9. /\ queue' \in Seq(Operation \X Event) /\ Len(queue') = Len(queue) + Len(ended)
      /\ \A i \in 1..Len(queue') :
           queue'[i] = IF i <= Len(queue) THEN queue[i] ELSE events[i - Len(queue)]
  BY <1>5, <1>7, <1>8, ConcatProperties
<1>10. Len(queue') \in Nat /\ DOMAIN queue' = 1..Len(queue') /\ Len(queue') >= Len(queue)
  BY <1>3, <1>7, <1>9, LenProperties
<1>11. \A i \in 1..Len(queue) : queue'[i] = queue[i]
  BY <1>7, <1>9, <1>10
<1>12. ASSUME NEW i \in Len(queue)+1..Len(queue')
       PROVE  /\ i - Len(queue) \in 1..Len(ended)
              /\ queue'[i] = <<ended[i - Len(queue)], "cancelled">>
  <2>1. i \in 1..Len(queue') /\ ~(i <= Len(queue)) /\ i - Len(queue) \in 1..Len(ended)
    BY <1>3, <1>7, <1>9, <1>10
  <2>2. queue'[i] = events[i - Len(queue)]
    BY <1>9, <2>1
  <2>3. QED
    BY <1>6, <2>1, <2>2
<1>13. \A i \in Len(queue)+1..Len(queue') : \E o \in S : queue'[i] = <<o, "cancelled">>
  BY <1>3, <1>4, <1>12
<1>14. ASSUME NEW i \in Len(queue)+1..Len(queue'), NEW j \in Len(queue)+1..Len(queue'),
              queue'[i][1] = queue'[j][1]
       PROVE  i = j
  <2>1. ended[i - Len(queue)] = ended[j - Len(queue)]
    BY <1>12, <1>14
  <2>2. i - Len(queue) = j - Len(queue)
    BY <1>2, <1>3, <1>12, <2>1 DEF IsInjective
  <2>3. QED
    BY <1>7, <1>10, <2>2
<1>15. draining' \in BOOLEAN /\ (draining => draining')
  BY <1>8 DEF TypeOK
<1>16. queue' # queue => draining'
  <2>1. events = <<>> => queue' = queue
    BY <1>7, <1>8, ConcatEmptySeq
  <2>2. QED
    BY <1>8, <2>1 DEF TypeOK
<1>17. /\ retained' \in Seq(Operation) /\ Len(retained') <= Retention
       /\ Range(retained') \subseteq Range(retained) \cup S
  BY <1>2, RememberBounded DEF CancelAll, ended
<1>18. state' = [o \in Operation |-> IF o \in S THEN "cancelled" ELSE state[o]] /\ order' = order
  BY <1>2 DEF CancelAll, ended
<1>19. QED
  BY <1>7, <1>8, <1>9, <1>10, <1>11, <1>13, <1>14, <1>15, <1>16, <1>17, <1>18

-----------------------------------------------------------------------------
(* Each step preserves each part of the invariant.                         *)

\* Every step preserves the types.
LEMMA TypeStep ==
    ASSUME OperationInv, [Next]_vars
    PROVE  TypeOK'
<1> USE OperationAssumption DEF OperationInv, recordVars, bodyVars, cancelVars, eventVars, closeVars, stopVars, history, Event, Terminal
<1>1. ASSUME NEW o \in Operation, StartOperation(o) PROVE TypeOK'
  <2>1. QueueEvent(Start(o), o, "queued")
    BY <1>1 DEF StartOperation
  <2>2. queue' \in Seq(Operation \X Event)
    BY <2>1, QueueAppended DEF QueueEvent
  <2>3. order' \in Seq(Operation)
    BY <1>1, AppendProperties DEF StartOperation, TypeOK
  <2>4. drainers' \subseteq Thread
    BY <2>1, Threads DEF QueueEvent, TypeOK
  <2>5. QED
    BY <1>1, <2>1, <2>2, <2>3, <2>4 DEF StartOperation, QueueEvent, TypeOK
<1>2. ASSUME NEW o \in Operation, StartThread(o) PROVE TypeOK'
  <2>1. starter' \in [Operation -> {"idle", "queued", "done"}]
    BY <1>2 DEF StartThread, TypeOK
  <2>2. CASE Cleanup(o) /\ UNCHANGED worker
    BY <1>2, <2>1, <2>2, SMTT(30) DEF StartThread, Cleanup, TypeOK
  <2>3. CASE /\ worker' = [worker EXCEPT ![o] = "started"]
             /\ UNCHANGED <<registered, cancelVars>>
    BY <1>2, <2>1, <2>3 DEF StartThread, TypeOK
  <2>4. QED
    BY <1>2, <2>2, <2>3 DEF StartThread
<1>3. ASSUME NEW o \in Operation, RunOperation(o) PROVE TypeOK'
  <2>1. QueueEvent(Work(o), o, "running") /\ Become(o, "running")
    BY <1>3 DEF RunOperation
  <2>2. queue' \in Seq(Operation \X Event) /\ drainers' \subseteq Thread /\ draining' \in BOOLEAN
    BY <2>1, QueueAppended, Threads DEF QueueEvent, TypeOK
  <2>3. /\ state' \in [Operation -> {"absent", "queued", "running"} \cup Terminal]
        /\ retained' \in Seq(Operation) /\ order' = order
    BY <2>1, BecomeFacts
  <2>4. QED
    BY <1>3, <2>2, <2>3 DEF RunOperation, TypeOK
<1>4. ASSUME NEW o \in Operation, RunNothing(o) PROVE TypeOK'
  BY <1>4 DEF RunNothing, Cleanup, TypeOK
<1>5. ASSUME NEW o \in Operation, ReportProgress(o) PROVE TypeOK'
  <2>1. queue' \in Seq(Operation \X Event) /\ drainers' \subseteq Thread /\ draining' \in BOOLEAN
    <3>1. CASE QueueEvent(Work(o), o, "running")
      BY <3>1, QueueAppended, Threads DEF QueueEvent, TypeOK
    <3>2. CASE UNCHANGED eventVars
      BY <3>2 DEF TypeOK
    <3>3. QED
      BY <1>5, <3>1, <3>2 DEF ReportProgress
  <2>2. progressed' \in [Operation -> Nat]
    BY <1>5 DEF ReportProgress, TypeOK
  <2>3. QED
    BY <1>5, <2>1, <2>2 DEF ReportProgress, TypeOK
<1>6. ASSUME NEW o \in Operation, SetProcess(o) PROVE TypeOK'
  <2>1. grip' \in [Thread -> [hooks : SUBSET Operation, processes : SUBSET Operation]]
    <3>1. /\ Work(o) \in Thread /\ {o} \cap cancelReq \in SUBSET Operation
          /\ grip[Work(o)] \in [hooks : SUBSET Operation, processes : SUBSET Operation]
      BY Threads DEF TypeOK
    <3>2. grip' = [grip EXCEPT ![Work(o)] = [@ EXCEPT !.processes = {o} \cap cancelReq]]
      BY <1>6 DEF SetProcess
    <3>3. QED
      BY <3>1, <3>2 DEF TypeOK
  <2>2. spawned' \in SUBSET Operation /\ process' \in SUBSET Operation
    BY <1>6 DEF SetProcess, TypeOK
  <2>3. UNCHANGED <<recordVars, registered, cancelReq, hook, hookCalled, eventVars, closeVars,
                    stopVars, starter, worker, canceller, progressed, history>>
    BY <1>6 DEF SetProcess
  <2>4. QED
    BY <2>1, <2>2, <2>3 DEF TypeOK
<1>7. ASSUME NEW o \in Operation, ClearProcess(o) PROVE TypeOK'
  BY <1>7, SMTT(30) DEF ClearProcess, Cleanup, TypeOK
<1>8. ASSUME NEW o \in Operation, SetCancelHook(o) PROVE TypeOK'
  <2>1. grip' \in [Thread -> [hooks : SUBSET Operation, processes : SUBSET Operation]]
    <3>1. /\ Work(o) \in Thread
          /\ grip[Work(o)] \in [hooks : SUBSET Operation, processes : SUBSET Operation]
      BY Threads DEF TypeOK
    <3>2. PICK v \in [hooks : SUBSET Operation, processes : SUBSET Operation] :
             v = [grip[Work(o)] EXCEPT !.hooks = {o}]
      BY <3>1
    <3>3. grip' = [grip EXCEPT ![Work(o)] = v] \/ grip' = grip
      BY <1>8, <3>2 DEF SetCancelHook
    <3>4. grip \in [Thread -> [hooks : SUBSET Operation, processes : SUBSET Operation]]
      BY DEF TypeOK
    <3>5. QED
      BY <3>1, <3>3, <3>4
  <2>2. offer' \in [Operation -> {"none", "kept", "ignored"}]
    BY <1>8 DEF SetCancelHook, TypeOK
  <2>3. hook' \in SUBSET Operation /\ hookCalled' \in SUBSET Operation
    BY <1>8 DEF SetCancelHook, TypeOK
  <2>4. UNCHANGED <<recordVars, registered, cancelReq, process, eventVars, closeVars, stopVars,
                    starter, worker, canceller, bodyVars, hookRuns, cancelAsked, killed>>
    BY <1>8 DEF SetCancelHook
  <2>5. QED
    BY <2>1, <2>2, <2>3, <2>4 DEF TypeOK
<1>9. ASSUME NEW o \in Operation, BodyReturns(o) PROVE TypeOK'
  <2>1. /\ queue' \in Seq(Operation \X Event) /\ drainers' \subseteq Thread /\ draining' \in BOOLEAN
        /\ state' \in [Operation -> {"absent", "queued", "running"} \cup Terminal]
        /\ retained' \in Seq(Operation) /\ order' = order
    <3>1. ASSUME NEW st \in Terminal, Become(o, st), QueueEvent(Work(o), o, st)
          PROVE  <2>1
      <4>1. /\ queue' \in Seq(Operation \X Event)
            /\ drainers' \subseteq Thread /\ draining' \in BOOLEAN
        BY <3>1, QueueAppended, Threads DEF QueueEvent, TypeOK
      <4>2. /\ state' \in [Operation -> {"absent", "queued", "running"} \cup Terminal]
            /\ retained' \in Seq(Operation) /\ order' = order
        BY <3>1, BecomeFacts
      <4>3. QED
        BY <4>1, <4>2
    <3>2. CASE UNCHANGED <<recordVars, eventVars>>
      BY <3>2 DEF TypeOK
    <3>3. QED
      BY <1>9, <3>1, <3>2 DEF BodyReturns
  <2>2. QED
    BY <1>9, <2>1 DEF BodyReturns, TypeOK
<1>10. ASSUME NEW o \in Operation, BodyRaises(o) PROVE TypeOK'
  BY <1>10 DEF BodyRaises, Cleanup, TypeOK
<1>11. ASSUME NEW o \in Operation, FinishFromWorker(o) PROVE TypeOK'
  <2>1. /\ queue' \in Seq(Operation \X Event) /\ drainers' \subseteq Thread /\ draining' \in BOOLEAN
        /\ state' \in [Operation -> {"absent", "queued", "running"} \cup Terminal]
        /\ retained' \in Seq(Operation) /\ order' = order
    <3>1. ASSUME NEW st \in Terminal, Become(o, st), QueueEvent(Work(o), o, st)
          PROVE  <2>1
      <4>1. /\ queue' \in Seq(Operation \X Event)
            /\ drainers' \subseteq Thread /\ draining' \in BOOLEAN
        BY <3>1, QueueAppended, Threads DEF QueueEvent, TypeOK
      <4>2. /\ state' \in [Operation -> {"absent", "queued", "running"} \cup Terminal]
            /\ retained' \in Seq(Operation) /\ order' = order
        BY <3>1, BecomeFacts
      <4>3. QED
        BY <4>1, <4>2
    <3>2. CASE UNCHANGED <<recordVars, eventVars>>
      BY <3>2 DEF TypeOK
    <3>3. QED
      BY <1>11, <3>1, <3>2 DEF FinishFromWorker
  <2>2. QED
    BY <1>11, <2>1 DEF FinishFromWorker, TypeOK
<1>12. ASSUME NEW o \in Operation, WorkerEnds(o) PROVE TypeOK'
  BY <1>12, SMTT(30) DEF WorkerEnds, Cleanup, TypeOK
<1>13. ASSUME NEW o \in Operation, CancelOperation(o) PROVE TypeOK'
  <2>1. grip' \in [Thread -> [hooks : SUBSET Operation, processes : SUBSET Operation]]
    BY <1>13, Threads DEF CancelOperation, RequestCancel, TypeOK
  <2>2. /\ state' \in [Operation -> {"absent", "queued", "running"} \cup Terminal]
        /\ retained' \in Seq(Operation) /\ order' = order
        /\ canceller' \in [Operation -> {"idle", "announcing"}]
    <3>1. CASE Become(o, "cancelled") /\ canceller' = [canceller EXCEPT ![o] = "announcing"]
      BY <3>1, BecomeFacts DEF TypeOK
    <3>2. CASE UNCHANGED <<recordVars, canceller>>
      BY <3>2 DEF TypeOK
    <3>3. QED
      BY <1>13, <3>1, <3>2 DEF CancelOperation
  <2>3. {cancelReq', cancelAsked', hook', hookCalled', process'} \subseteq SUBSET Operation
    BY <1>13 DEF CancelOperation, RequestCancel, TypeOK
  <2>4. /\ UNCHANGED <<registered, eventVars, closeVars, stopVars, starter, worker, bodyVars>>
        /\ UNCHANGED <<hookRuns, offer, killed>>
    BY <1>13 DEF CancelOperation
  <2>5. /\ cancelReq' \in SUBSET Operation /\ cancelAsked' \in SUBSET Operation
        /\ hook' \in SUBSET Operation /\ hookCalled' \in SUBSET Operation
        /\ process' \in SUBSET Operation
    BY <2>3
  <2>6. QED
    BY <2>1, <2>2, <2>4, <2>5, SMTT(30) DEF TypeOK
<1>14. ASSUME NEW o \in Operation, CancelAnnounces(o) PROVE TypeOK'
  <2>1. QueueEvent(Cancel(o), o, "cancelled")
    BY <1>14 DEF CancelAnnounces
  <2>2. queue' \in Seq(Operation \X Event) /\ drainers' \subseteq Thread /\ draining' \in BOOLEAN
    BY <2>1, QueueAppended, Threads DEF QueueEvent, TypeOK
  <2>3. QED
    BY <1>14, <2>2 DEF CancelAnnounces, TypeOK
<1>15. CASE StopBegins
  <2>1. live' \in SUBSET Operation
    BY <1>15 DEF StopBegins
  <2>2. grip' \in [Thread -> [hooks : SUBSET Operation, processes : SUBSET Operation]]
    BY <1>15, <2>1, Threads DEF StopBegins, RequestCancel, TypeOK
  <2>3. {cancelReq', cancelAsked', hook', hookCalled', process'} \subseteq SUBSET Operation
    BY <1>15, <2>1 DEF StopBegins, RequestCancel, TypeOK
  <2>4. CancelAll(Only(order, {o \in Operation : state[o] = "queued"}))
    BY <1>15 DEF StopBegins
  <2>5. \A o \in {p \in Operation : state[p] = "queued"} : Active(o)
    BY DEF Active
  <2>6. /\ queue' \in Seq(Operation \X Event) /\ drainers' = drainers /\ draining' \in BOOLEAN
        /\ state' \in [Operation -> {"absent", "queued", "running"} \cup Terminal]
        /\ retained' \in Seq(Operation) /\ order' = order
    <3>1. /\ queue' \in Seq(Operation \X Event) /\ drainers' = drainers /\ draining' \in BOOLEAN
          /\ state' = [o \in Operation |-> IF o \in {p \in Operation : state[p] = "queued"}
                                             THEN "cancelled" ELSE state[o]]
          /\ retained' \in Seq(Operation) /\ order' = order
      BY <2>4, <2>5, CancelAllFacts
    <3>2. QED
      BY <3>1 DEF TypeOK
  <2>7. /\ UNCHANGED <<registered, closeVars, starter, worker, canceller, bodyVars>>
        /\ UNCHANGED <<hookRuns, offer, killed>>
    BY <1>15 DEF StopBegins
  <2>8. closed' \in BOOLEAN /\ stopper' = "joining"
    BY <1>15 DEF StopBegins
  <2>9. QED
    BY <2>1, <2>2, <2>3, <2>6, <2>7, <2>8 DEF TypeOK, Event
<1>16. CASE StopForces
  <2>1. CancelAll(Only(order, {o \in live : Active(o)})) /\ {o \in live : Active(o)} \in SUBSET Operation
    BY <1>16 DEF StopForces, TypeOK
  <2>2. /\ queue' \in Seq(Operation \X Event) /\ drainers' = drainers /\ draining' \in BOOLEAN
        /\ state' \in [Operation -> {"absent", "queued", "running"} \cup Terminal]
        /\ retained' \in Seq(Operation) /\ order' = order
    <3>1. /\ queue' \in Seq(Operation \X Event) /\ drainers' = drainers /\ draining' \in BOOLEAN
          /\ state' = [o \in Operation |-> IF o \in {p \in live : Active(p)}
                                             THEN "cancelled" ELSE state[o]]
          /\ retained' \in Seq(Operation) /\ order' = order
      BY <2>1, CancelAllFacts
    <3>2. QED
      BY <3>1 DEF TypeOK
  <2>3. /\ UNCHANGED <<registered, cancelVars, closeVars, closed, starter, worker, canceller>>
        /\ UNCHANGED <<grip, bodyVars, history>>
    BY <1>16 DEF StopForces
  <2>4. stopper' = "closing" /\ live' = {}
    BY <1>16 DEF StopForces
  <2>5. QED
    BY <2>2, <2>3, <2>4, SMTT(30) DEF TypeOK, Event
<1>17. CASE StopCloses
  <2>1. drainers' \subseteq Thread
    BY <1>17, Threads DEF StopCloses, TypeOK, Thread
  <2>2. QED
    BY <1>17, <2>1 DEF StopCloses, TypeOK
<1>18. ASSUME NEW th \in Thread, Drain(th) PROVE TypeOK'
  <2>1. CASE queue # <<>>
    <3>1. Head(queue) \in Operation \X Event /\ Tail(queue) \in Seq(Operation \X Event)
      BY <2>1, HeadTailProperties DEF TypeOK
    <3>2. published' \in [Operation -> Seq(Event)]
      <4>1. /\ published \in [Operation -> Seq(Event)]
            /\ Append(published[Head(queue)[1]], Head(queue)[2]) \in Seq(Event)
        BY <3>1, AppendProperties DEF TypeOK
      <4>2. \/ published' = published
            \/ published' = [published EXCEPT ![Head(queue)[1]] =
                                Append(published[Head(queue)[1]], Head(queue)[2])]
        BY <1>18, <2>1 DEF Drain
      <4>3. QED
        BY <3>1, <4>1, <4>2
    <3>3. QED
      BY <1>18, <2>1, <3>1, <3>2 DEF Drain, TypeOK
  <2>2. CASE queue = <<>>
    BY <1>18, <2>2 DEF Drain, TypeOK
  <2>3. QED
    BY <2>1, <2>2
<1>19. ASSUME NEW th \in Thread, Act(th) PROVE TypeOK'
  <2>1. grip' \in [Thread -> [hooks : SUBSET Operation, processes : SUBSET Operation]]
    BY <1>19 DEF Act, NoGrip, TypeOK
  <2>2. hookRuns' \in [Operation -> Nat]
    BY <1>19 DEF Act, TypeOK
  <2>3. QED
    BY <1>19, <2>1, <2>2 DEF Act, TypeOK
<1>20. CASE UNCHANGED vars
  BY <1>20 DEF vars, TypeOK
<1>21. QED
  BY <1>1, <1>2, <1>3, <1>4, <1>5, <1>6, <1>7, <1>8, <1>9, <1>10, <1>11, <1>12, <1>13,
     <1>14, <1>15, <1>16, <1>17, <1>18, <1>19, <1>20 DEF Next, Worker, Stopper

\* Every step keeps records, threads and shutdown() in step with each other.
LEMMA ControlStep ==
    ASSUME OperationInv, [Next]_vars
    PROVE  (ControlFits /\ StopFits /\ StoppedMeansSettled)'
<1> USE Threads DEF OperationInv, recordVars, bodyVars, cancelVars, eventVars, closeVars, stopVars, history
<1>1. ASSUME NEW o \in Operation, StartOperation(o) PROVE (ControlFits /\ StopFits /\ StoppedMeansSettled)'
  BY <1>1 DEF StartOperation, ControlFits, StopFits, StoppedMeansSettled, TypeOK,
     Terminal, Active
<1>2. ASSUME NEW o \in Operation, StartThread(o) PROVE (ControlFits /\ StopFits /\ StoppedMeansSettled)'
  BY <1>2 DEF StartThread, ControlFits, StopFits, StoppedMeansSettled, TypeOK, Terminal,
     Active
<1>3. ASSUME NEW o \in Operation, RunOperation(o) PROVE (ControlFits /\ StopFits /\ StoppedMeansSettled)'
  BY <1>3 DEF RunOperation, Become, Active, ControlFits, StopFits, StoppedMeansSettled,
     TypeOK, Terminal
<1>4. ASSUME NEW o \in Operation, RunNothing(o) PROVE (ControlFits /\ StopFits /\ StoppedMeansSettled)'
  BY <1>4 DEF RunNothing, Active, ControlFits, StopFits, StoppedMeansSettled, TypeOK,
     Terminal
<1>5. ASSUME NEW o \in Operation, ReportProgress(o) PROVE (ControlFits /\ StopFits /\ StoppedMeansSettled)'
  BY <1>5 DEF ReportProgress, InBody, ControlFits, StopFits, StoppedMeansSettled, TypeOK,
     Terminal, Active
<1>6. ASSUME NEW o \in Operation, SetProcess(o) PROVE (ControlFits /\ StopFits /\ StoppedMeansSettled)'
  BY <1>6 DEF SetProcess, InBody, ControlFits, StopFits, StoppedMeansSettled, TypeOK,
     Terminal, Active
<1>7. ASSUME NEW o \in Operation, ClearProcess(o) PROVE (ControlFits /\ StopFits /\ StoppedMeansSettled)'
  BY <1>7 DEF ClearProcess, InBody, ControlFits, StopFits, StoppedMeansSettled, TypeOK,
     Terminal, Active
<1>8. ASSUME NEW o \in Operation, SetCancelHook(o) PROVE (ControlFits /\ StopFits /\ StoppedMeansSettled)'
  BY <1>8 DEF SetCancelHook, InBody, ControlFits, StopFits, StoppedMeansSettled, TypeOK,
     Terminal, Active
<1>9. ASSUME NEW o \in Operation, BodyReturns(o) PROVE (ControlFits /\ StopFits /\ StoppedMeansSettled)'
  BY <1>9 DEF BodyReturns, Become, InBody, Active, ControlFits, StopFits,
     StoppedMeansSettled, TypeOK, Terminal
<1>10. ASSUME NEW o \in Operation, BodyRaises(o) PROVE (ControlFits /\ StopFits /\ StoppedMeansSettled)'
  BY <1>10 DEF BodyRaises, InBody, ControlFits, StopFits, StoppedMeansSettled, TypeOK,
     Terminal, Active
<1>11. ASSUME NEW o \in Operation, FinishFromWorker(o) PROVE (ControlFits /\ StopFits /\ StoppedMeansSettled)'
  BY <1>11, SMTT(30) DEF FinishFromWorker, Become, Active, ControlFits, StopFits,
     StoppedMeansSettled, TypeOK, Terminal
<1>12. ASSUME NEW o \in Operation, WorkerEnds(o) PROVE (ControlFits /\ StopFits /\ StoppedMeansSettled)'
  BY <1>12 DEF WorkerEnds, ControlFits, StopFits, StoppedMeansSettled, TypeOK, Terminal,
     Active
<1>13. ASSUME NEW o \in Operation, CancelOperation(o) PROVE (ControlFits /\ StopFits /\ StoppedMeansSettled)'
  BY <1>13 DEF CancelOperation, Become, RequestCancel, Active, ControlFits, StopFits,
     StoppedMeansSettled, TypeOK, Terminal
<1>14. ASSUME NEW o \in Operation, CancelAnnounces(o) PROVE (ControlFits /\ StopFits /\ StoppedMeansSettled)'
  BY <1>14 DEF CancelAnnounces, ControlFits, StopFits, StoppedMeansSettled, TypeOK,
     Terminal, Active
<1>15. CASE StopBegins
  <2>1. state' = [p \in Operation |-> IF p \in {q \in Operation : state[q] = "queued"}
                                      THEN "cancelled" ELSE state[p]]
    <3>1. CancelAll(Only(order, {q \in Operation : state[q] = "queued"}))
      BY <1>15 DEF StopBegins
    <3>2. \A q \in {p \in Operation : state[p] = "queued"} : Active(q)
      BY DEF Active
    <3>3. QED
      BY <3>1, <3>2, CancelAllFacts
  
  <2>2. UNCHANGED <<starter, worker, closeAsked, pubClosed>> /\ stopper = "idle" /\ stopper' = "joining" /\ closed'
         /\ live' = {p \in Operation : Active(p)}
    BY <1>15 DEF StopBegins
  <2>3. QED
    BY <2>1, <2>2 DEF Active, ControlFits, StopFits, StoppedMeansSettled, TypeOK, Terminal
<1>16. CASE StopForces
  <2>1. state' = [p \in Operation |-> IF p \in {q \in live : Active(q)}
                                      THEN "cancelled" ELSE state[p]]
    <3>1. /\ CancelAll(Only(order, {q \in live : Active(q)}))
          /\ {q \in live : Active(q)} \in SUBSET Operation
      BY <1>16 DEF StopForces, TypeOK
    <3>2. QED
      BY <3>1, CancelAllFacts
  
  <2>2. /\ UNCHANGED <<starter, worker, closeAsked, pubClosed, closed, grip>>
        /\ stopper = "joining" /\ stopper' = "closing"
    BY <1>16 DEF StopForces
  <2>3. QED
    BY <2>1, <2>2 DEF Active, ControlFits, StopFits, StoppedMeansSettled, TypeOK, Terminal
<1>17. CASE StopCloses
  BY <1>17 DEF StopCloses, ControlFits, StopFits, StoppedMeansSettled, TypeOK, Terminal,
     Active
<1>18. ASSUME NEW th \in Thread, Drain(th) PROVE (ControlFits /\ StopFits /\ StoppedMeansSettled)'
  BY <1>18 DEF Drain, ControlFits, StopFits, StoppedMeansSettled, TypeOK, Terminal, Active
<1>19. ASSUME NEW th \in Thread, Act(th) PROVE (ControlFits /\ StopFits /\ StoppedMeansSettled)'
  BY <1>19 DEF Act, ControlFits, StopFits, StoppedMeansSettled, TypeOK, Terminal, Active
<1>20. CASE UNCHANGED vars
  BY <1>20 DEF vars, ControlFits, StopFits, StoppedMeansSettled, Active
<1>21. QED
  BY <1>1, <1>2, <1>3, <1>4, <1>5, <1>6, <1>7, <1>8, <1>9, <1>10, <1>11, <1>12, <1>13,
     <1>14, <1>15, <1>16, <1>17, <1>18, <1>19, <1>20 DEF Next, Worker, Stopper

\* Every step keeps the order of the starts and the retained records.
LEMMA OrderStep ==
    ASSUME OperationInv, [Next]_vars
    PROVE  (OrderFits /\ RetentionExact)'
<1> USE DEF OperationInv, recordVars, bodyVars, cancelVars, eventVars, closeVars, stopVars, history
<1>1. ASSUME NEW o \in Operation, StartOperation(o) PROVE (OrderFits /\ RetentionExact)'
  <2>1. state[o] = "absent" /\ o \notin Range(order)
    BY <1>1 DEF StartOperation, ControlFits, OrderFits
  <2>2. /\ order \in Seq(Operation) /\ DOMAIN order = 1..Len(order) /\ Len(order) \in Nat
        /\ DOMAIN order' = 1..(Len(order) + 1) /\ order'[Len(order) + 1] = o
        /\ \A i \in 1..Len(order) : order'[i] = order[i]
    BY <1>1, AppendProperties, LenProperties DEF StartOperation, TypeOK
  <2>3. IsInjective(order')
    BY <2>1, <2>2 DEF OrderFits, IsInjective, Range
  <2>4. Range(order') = Range(order) \cup {o}
    BY <2>2 DEF Range
  <2>5. QED
    BY <1>1, <2>1, <2>3, <2>4 DEF StartOperation, OrderFits, RetentionExact, TypeOK, Terminal
<1>2. ASSUME NEW o \in Operation, StartThread(o) PROVE (OrderFits /\ RetentionExact)'
  BY <1>2 DEF StartThread, OrderFits, RetentionExact
<1>3. ASSUME NEW o \in Operation, RunOperation(o) PROVE (OrderFits /\ RetentionExact)'
  <2>1. /\ state' = [state EXCEPT ![o] = "running"] /\ order' = order /\ retained' = retained
        /\ Active(o)
    BY <1>3 DEF RunOperation, Become, Terminal
  <2>2. QED
    BY <2>1 DEF Active, OrderFits, RetentionExact, TypeOK, Terminal
<1>4. ASSUME NEW o \in Operation, RunNothing(o) PROVE (OrderFits /\ RetentionExact)'
  BY <1>4 DEF RunNothing, OrderFits, RetentionExact
<1>5. ASSUME NEW o \in Operation, ReportProgress(o) PROVE (OrderFits /\ RetentionExact)'
  BY <1>5 DEF ReportProgress, OrderFits, RetentionExact
<1>6. ASSUME NEW o \in Operation, SetProcess(o) PROVE (OrderFits /\ RetentionExact)'
  BY <1>6 DEF SetProcess, OrderFits, RetentionExact
<1>7. ASSUME NEW o \in Operation, ClearProcess(o) PROVE (OrderFits /\ RetentionExact)'
  BY <1>7 DEF ClearProcess, OrderFits, RetentionExact
<1>8. ASSUME NEW o \in Operation, SetCancelHook(o) PROVE (OrderFits /\ RetentionExact)'
  BY <1>8 DEF SetCancelHook, OrderFits, RetentionExact
<1>9. ASSUME NEW o \in Operation, BodyReturns(o) PROVE (OrderFits /\ RetentionExact)'
  <2>1. CASE Active(o)
    <3>1. PICK st \in Terminal : Become(o, st)
      BY <1>9, <2>1 DEF BodyReturns, Terminal
    <3>2. /\ state' = [state EXCEPT ![o] = st] /\ order' = order /\ st \in Terminal
          /\ Len(retained') <= Retention /\ Range(retained') \subseteq Range(retained) \cup {o}
      BY <3>1, BecomeFacts DEF Event, Terminal
    <3>3. QED
      BY <2>1, <3>2 DEF Active, OrderFits, RetentionExact, TypeOK, Terminal
  <2>2. CASE ~(Active(o))
    BY <1>9, <2>2 DEF BodyReturns, OrderFits, RetentionExact
  <2>3. QED
    BY <2>1, <2>2
<1>10. ASSUME NEW o \in Operation, BodyRaises(o) PROVE (OrderFits /\ RetentionExact)'
  BY <1>10 DEF BodyRaises, OrderFits, RetentionExact
<1>11. ASSUME NEW o \in Operation, FinishFromWorker(o) PROVE (OrderFits /\ RetentionExact)'
  <2>1. CASE Active(o)
    <3>1. PICK st \in Terminal : Become(o, st)
      BY <1>11, <2>1 DEF FinishFromWorker, Terminal
    <3>2. /\ state' = [state EXCEPT ![o] = st] /\ order' = order /\ st \in Terminal
          /\ Len(retained') <= Retention /\ Range(retained') \subseteq Range(retained) \cup {o}
      BY <3>1, BecomeFacts DEF Event, Terminal
    <3>3. QED
      BY <2>1, <3>2 DEF Active, OrderFits, RetentionExact, TypeOK, Terminal
  <2>2. CASE ~(Active(o))
    BY <1>11, <2>2 DEF FinishFromWorker, OrderFits, RetentionExact
  <2>3. QED
    BY <2>1, <2>2
<1>12. ASSUME NEW o \in Operation, WorkerEnds(o) PROVE (OrderFits /\ RetentionExact)'
  BY <1>12 DEF WorkerEnds, OrderFits, RetentionExact
<1>13. ASSUME NEW o \in Operation, CancelOperation(o) PROVE (OrderFits /\ RetentionExact)'
  <2>1. CASE state[o] = "queued"
    <3>1. PICK st \in Terminal : Become(o, st)
      BY <1>13, <2>1 DEF CancelOperation, Terminal
    <3>2. /\ state' = [state EXCEPT ![o] = st] /\ order' = order /\ st \in Terminal
          /\ Len(retained') <= Retention /\ Range(retained') \subseteq Range(retained) \cup {o}
      BY <3>1, BecomeFacts DEF Event, Terminal
    <3>3. QED
      BY <2>1, <3>2 DEF Active, OrderFits, RetentionExact, TypeOK, Terminal
  <2>2. CASE ~(state[o] = "queued")
    BY <1>13, <2>2 DEF CancelOperation, OrderFits, RetentionExact
  <2>3. QED
    BY <2>1, <2>2
<1>14. ASSUME NEW o \in Operation, CancelAnnounces(o) PROVE (OrderFits /\ RetentionExact)'
  BY <1>14 DEF CancelAnnounces, OrderFits, RetentionExact
<1>15. CASE StopBegins
  <2>0. /\ CancelAll(Only(order, {q \in Operation : state[q] = "queued"})) /\ {q \in Operation : state[q] = "queued"} \in SUBSET Operation
        /\ \A q \in {q \in Operation : state[q] = "queued"} : Active(q)
    BY <1>15 DEF StopBegins, Active, TypeOK
  <2>1. state' = [p \in Operation |-> IF p \in {q \in Operation : state[q] = "queued"} THEN "cancelled" ELSE state[p]]
    BY <2>0, CancelAllFacts
  
  <2>2. \A p \in Operation :
          /\ state'[p] = "absent" <=> state[p] = "absent"
          /\ state[p] \in Terminal \/ p \in {q \in Operation : state[q] = "queued"} => state'[p] \in Terminal
    <3>1. \A p \in {q \in Operation : state[q] = "queued"} : state[p] # "absent"
      BY <2>0 DEF Active
    <3>2. QED
      BY <2>1, <3>1 DEF Terminal
  <2>3. /\ order' = order /\ Len(retained') <= Retention
        /\ Range(retained') \subseteq Range(retained) \cup {q \in Operation : state[q] = "queued"}
    BY <2>0, CancelAllFacts
  <2>4. \A p \in Range(retained) : p \in Operation
    BY RangeOfSeq DEF TypeOK
  <2>5. QED
    BY <2>0, <2>2, <2>3, <2>4 DEF OrderFits, RetentionExact
<1>16. CASE StopForces
  <2>0. /\ CancelAll(Only(order, {q \in live : Active(q)})) /\ {q \in live : Active(q)} \in SUBSET Operation
        /\ \A q \in {q \in live : Active(q)} : Active(q)
    BY <1>16 DEF StopForces, Active, TypeOK
  <2>1. state' = [p \in Operation |-> IF p \in {q \in live : Active(q)} THEN "cancelled" ELSE state[p]]
    BY <2>0, CancelAllFacts
  
  <2>2. \A p \in Operation :
          /\ state'[p] = "absent" <=> state[p] = "absent"
          /\ state[p] \in Terminal \/ p \in {q \in live : Active(q)} => state'[p] \in Terminal
    <3>1. \A p \in {q \in live : Active(q)} : state[p] # "absent"
      BY <2>0 DEF Active
    <3>2. QED
      BY <2>1, <3>1 DEF Terminal
  <2>3. /\ order' = order /\ Len(retained') <= Retention
        /\ Range(retained') \subseteq Range(retained) \cup {q \in live : Active(q)}
    BY <2>0, CancelAllFacts
  <2>4. \A p \in Range(retained) : p \in Operation
    BY RangeOfSeq DEF TypeOK
  <2>5. QED
    BY <2>0, <2>2, <2>3, <2>4 DEF OrderFits, RetentionExact
<1>17. CASE StopCloses
  BY <1>17 DEF StopCloses, OrderFits, RetentionExact
<1>18. ASSUME NEW th \in Thread, Drain(th) PROVE (OrderFits /\ RetentionExact)'
  BY <1>18 DEF Drain, OrderFits, RetentionExact
<1>19. ASSUME NEW th \in Thread, Act(th) PROVE (OrderFits /\ RetentionExact)'
  BY <1>19 DEF Act, OrderFits, RetentionExact
<1>20. CASE UNCHANGED vars
  BY <1>20 DEF vars, OrderFits, RetentionExact
<1>21. QED
  BY <1>1, <1>2, <1>3, <1>4, <1>5, <1>6, <1>7, <1>8, <1>9, <1>10, <1>11, <1>12, <1>13,
     <1>14, <1>15, <1>16, <1>17, <1>18, <1>19, <1>20 DEF Next, Worker, Stopper

\* Every step keeps one thread draining.
LEMMA DrainStep ==
    ASSUME OperationInv, TypeOK', [Next]_vars
    PROVE  DrainFits'
<1> USE DEF OperationInv, recordVars, bodyVars, cancelVars, eventVars, closeVars, stopVars, history
<1>1. ASSUME NEW o \in Operation, StartOperation(o) PROVE DrainFits'
  <2>1. QueueEvent(Start(o), o, "queued")
    BY <1>1 DEF StartOperation
  <2>2. UNCHANGED <<closed, pubClosed>> /\ ~pubClosed
    BY <1>1 DEF StartOperation, StopFits, StoppedMeansSettled, ControlFits, Active
  <2>3. QED
    BY <2>1, <2>2, QueueAppended, Threads DEF QueueEvent, DrainFits, TypeOK, Event, Terminal
<1>2. ASSUME NEW o \in Operation, StartThread(o) PROVE DrainFits'
  BY <1>2 DEF StartThread, DrainFits
<1>3. ASSUME NEW o \in Operation, RunOperation(o) PROVE DrainFits'
  <2>1. QueueEvent(Work(o), o, "running")
    BY <1>3 DEF RunOperation
  <2>2. UNCHANGED <<closed, pubClosed>> /\ ~pubClosed
    BY <1>3 DEF RunOperation, StopFits, StoppedMeansSettled, ControlFits, Active
  <2>3. QED
    BY <2>1, <2>2, QueueAppended, Threads DEF QueueEvent, DrainFits, TypeOK, Event, Terminal
<1>4. ASSUME NEW o \in Operation, RunNothing(o) PROVE DrainFits'
  BY <1>4 DEF RunNothing, DrainFits
<1>5. ASSUME NEW o \in Operation, ReportProgress(o) PROVE DrainFits'
  <2>1. UNCHANGED <<closed, pubClosed>>
    BY <1>5 DEF ReportProgress
  <2>2. ASSUME NEW st \in Event, QueueEvent(Work(o), o, st), Active(o) PROVE DrainFits'
    <3>1. ~pubClosed
      BY <2>2 DEF StopFits, StoppedMeansSettled
    <3>2. QED
      BY <2>1, <2>2, <3>1, QueueAppended, Threads DEF QueueEvent, DrainFits, TypeOK
  <2>3. CASE UNCHANGED eventVars
    BY <2>1, <2>3 DEF DrainFits
  <2>4. QED
    BY <1>5, <2>2, <2>3 DEF ReportProgress, Active, Event, Terminal
<1>6. ASSUME NEW o \in Operation, SetProcess(o) PROVE DrainFits'
  BY <1>6 DEF SetProcess, DrainFits
<1>7. ASSUME NEW o \in Operation, ClearProcess(o) PROVE DrainFits'
  BY <1>7 DEF ClearProcess, DrainFits
<1>8. ASSUME NEW o \in Operation, SetCancelHook(o) PROVE DrainFits'
  BY <1>8 DEF SetCancelHook, DrainFits
<1>9. ASSUME NEW o \in Operation, BodyReturns(o) PROVE DrainFits'
  <2>1. UNCHANGED <<closed, pubClosed>>
    BY <1>9 DEF BodyReturns
  <2>2. ASSUME NEW st \in Event, QueueEvent(Work(o), o, st), Active(o) PROVE DrainFits'
    <3>1. ~pubClosed
      BY <2>2 DEF StopFits, StoppedMeansSettled
    <3>2. QED
      BY <2>1, <2>2, <3>1, QueueAppended, Threads DEF QueueEvent, DrainFits, TypeOK
  <2>3. CASE UNCHANGED eventVars
    BY <2>1, <2>3 DEF DrainFits
  <2>4. QED
    BY <1>9, <2>2, <2>3 DEF BodyReturns, Active, Event, Terminal
<1>10. ASSUME NEW o \in Operation, BodyRaises(o) PROVE DrainFits'
  BY <1>10 DEF BodyRaises, DrainFits
<1>11. ASSUME NEW o \in Operation, FinishFromWorker(o) PROVE DrainFits'
  <2>1. UNCHANGED <<closed, pubClosed>>
    BY <1>11 DEF FinishFromWorker
  <2>2. ASSUME NEW st \in Event, QueueEvent(Work(o), o, st), Active(o) PROVE DrainFits'
    <3>1. ~pubClosed
      BY <2>2 DEF StopFits, StoppedMeansSettled
    <3>2. QED
      BY <2>1, <2>2, <3>1, QueueAppended, Threads DEF QueueEvent, DrainFits, TypeOK
  <2>3. CASE UNCHANGED eventVars
    BY <2>1, <2>3 DEF DrainFits
  <2>4. QED
    BY <1>11, <2>2, <2>3 DEF FinishFromWorker, Active, Event, Terminal
<1>12. ASSUME NEW o \in Operation, WorkerEnds(o) PROVE DrainFits'
  BY <1>12 DEF WorkerEnds, DrainFits
<1>13. ASSUME NEW o \in Operation, CancelOperation(o) PROVE DrainFits'
  BY <1>13 DEF CancelOperation, DrainFits
<1>14. ASSUME NEW o \in Operation, CancelAnnounces(o) PROVE DrainFits'
  <2>1. QueueEvent(Cancel(o), o, "cancelled") /\ UNCHANGED <<closed, pubClosed>>
    BY <1>14 DEF CancelAnnounces
  <2>2. /\ DOMAIN queue = 1..Len(queue) /\ Len(queue) \in Nat
        /\ DOMAIN queue' = 1..(Len(queue) + 1) /\ queue' # <<>>
        /\ \A i \in 1..Len(queue) : queue'[i] = queue[i]
        /\ queue'[Len(queue) + 1] = <<o, "cancelled">>
    BY <2>1, QueueAppended DEF QueueEvent, Event, Terminal
  <2>3. pubClosed' => \A i \in DOMAIN queue' : queue'[i][2] \in Terminal
    BY <2>1, <2>2 DEF DrainFits, Terminal
  <2>4. QED
    BY <2>1, <2>2, <2>3, Threads DEF QueueEvent, DrainFits, TypeOK
<1>15. CASE StopBegins
  <2>0. /\ CancelAll(Only(order, {q \in Operation : state[q] = "queued"})) /\ {q \in Operation : state[q] = "queued"} \in SUBSET Operation
        /\ \A q \in {q \in Operation : state[q] = "queued"} : Active(q)
    BY <1>15 DEF StopBegins, Active, TypeOK
  <2>1. state' = [p \in Operation |-> IF p \in {q \in Operation : state[q] = "queued"} THEN "cancelled" ELSE state[p]]
    BY <2>0, CancelAllFacts
  
  <2>2. drainers' = drainers /\ (queue' # queue => draining') /\ (draining => draining')
    BY <2>0, CancelAllFacts
  <2>3. closed' /\ ~pubClosed'
    BY <1>15 DEF StopBegins, StopFits
  <2>4. draining \in BOOLEAN /\ draining' \in BOOLEAN
    BY DEF TypeOK
  <2>5. queue' # <<>> => draining'
    BY <2>2, <2>4 DEF DrainFits
  <2>6. drainers' # {} => draining'
    BY <2>2, <2>4 DEF DrainFits
  <2>7. \A th, tk \in drainers' : th = tk
    BY <2>2 DEF DrainFits
  <2>8. QED
    BY <2>3, <2>5, <2>6, <2>7 DEF DrainFits
<1>16. CASE StopForces
  <2>0. /\ CancelAll(Only(order, {q \in live : Active(q)})) /\ {q \in live : Active(q)} \in SUBSET Operation
        /\ \A q \in {q \in live : Active(q)} : Active(q)
    BY <1>16 DEF StopForces, Active, TypeOK
  <2>1. state' = [p \in Operation |-> IF p \in {q \in live : Active(q)} THEN "cancelled" ELSE state[p]]
    BY <2>0, CancelAllFacts
  
  <2>2. drainers' = drainers /\ (queue' # queue => draining') /\ (draining => draining')
    BY <2>0, CancelAllFacts
  <2>3. closed' /\ ~pubClosed'
    BY <1>16 DEF StopForces, StopFits
  <2>4. draining \in BOOLEAN /\ draining' \in BOOLEAN
    BY DEF TypeOK
  <2>5. queue' # <<>> => draining'
    BY <2>2, <2>4 DEF DrainFits
  <2>6. drainers' # {} => draining'
    BY <2>2, <2>4 DEF DrainFits
  <2>7. \A th, tk \in drainers' : th = tk
    BY <2>2 DEF DrainFits
  <2>8. QED
    BY <2>3, <2>5, <2>6, <2>7 DEF DrainFits
<1>17. CASE StopCloses
  <2>1. CASE ~draining /\ queue = <<>>
    BY <1>17, <2>1 DEF StopCloses, DrainFits, TypeOK
  <2>2. CASE draining
    <3>1. UNCHANGED <<draining, drainers, pubClosed, queue, closed>>
      BY <1>17, <2>2 DEF StopCloses, TypeOK
    <3>2. QED
      BY <3>1 DEF DrainFits
  <2>3. QED
    BY <2>1, <2>2 DEF DrainFits, TypeOK
<1>18. ASSUME NEW th \in Thread, Drain(th) PROVE DrainFits'
  <2>1. CASE queue # <<>>
    <3>1. \A i \in DOMAIN queue' : i + 1 \in DOMAIN queue /\ queue'[i] = queue[i + 1]
      BY <1>18, <2>1, QueueDrained DEF Drain
    <3>2. QED
      BY <1>18, <2>1, <3>1 DEF Drain, DrainFits
  <2>2. CASE queue = <<>>
    BY <1>18, <2>2 DEF Drain, DrainFits
  <2>3. QED
    BY <2>1, <2>2
<1>19. ASSUME NEW th \in Thread, Act(th) PROVE DrainFits'
  BY <1>19 DEF Act, DrainFits
<1>20. CASE UNCHANGED vars
  BY <1>20 DEF vars, DrainFits
<1>21. QED
  BY <1>1, <1>2, <1>3, <1>4, <1>5, <1>6, <1>7, <1>8, <1>9, <1>10, <1>11, <1>12, <1>13,
     <1>14, <1>15, <1>16, <1>17, <1>18, <1>19, <1>20 DEF Next, Worker, Stopper

\* Asking some active operations to end passes their hooks and processes to a
\* thread that held nothing.
LEMMA RequestCancelSafe ==
    ASSUME OperationInv, TypeOK', NEW th \in Thread, grip[th] = NoGrip,
           NEW ops \in SUBSET {p \in Operation : Active(p)},
           RequestCancel(th, ops),
           UNCHANGED <<registered, worker, starter, hookRuns, killed>>
    PROVE  HooksFit' /\ CancelReaches' /\ NoResidue'
<1> USE DEF OperationInv
<1>1. /\ \A tk \in Thread : tk # th => grip'[tk] = grip[tk]
      /\ grip'[th].hooks = hook \cap ops /\ grip'[th].processes = process \cap ops
      /\ grip[th].hooks = {} /\ grip[th].processes = {}
  BY DEF RequestCancel, NoGrip, TypeOK
<1>2. /\ cancelReq' = cancelReq \cup ops /\ hook' = hook \ ops
      /\ hookCalled' = hookCalled \cup (hook \cap ops) /\ process' = process
  BY DEF RequestCancel
<1>3. ASSUME NEW p \in ops
      PROVE  /\ worker[p] # "dead"
             /\ ~(starter[p] = "done" /\ worker[p] = "none")
  BY DEF Active, ControlFits
<1>4. HooksFit'
  <2>1. SUFFICES ASSUME NEW p \in Operation
                 PROVE  /\ hookRuns[p] <= 1 /\ (p \in cancelReq' => p \notin hook')
                        /\ worker[p] \in {"none", "started"} \/ p \in hook' =>
                            /\ hookRuns[p] = 0 /\ p \notin hookCalled'
                            /\ \A tk \in Thread : p \notin grip'[tk].hooks
                        /\ worker[p] \in {"none", "started"} => p \notin hook'
                        /\ \A tk \in Thread : p \in grip'[tk].hooks => hookRuns[p] = 0
                        /\ \A t1, t2 \in Thread :
                             p \in grip'[t1].hooks /\ p \in grip'[t2].hooks => t1 = t2
                        /\ worker[p] # "dead" =>
                             /\ hookRuns[p] # 0 => p \in hookCalled'
                             /\ \A tk \in Thread : p \in grip'[tk].hooks => p \in hookCalled'
    BY DEF HooksFit
  <2>2. \A tk \in Thread :
           p \in grip'[tk].hooks <=> p \in grip[tk].hooks \/ (tk = th /\ p \in hook \cap ops)
    BY <1>1
  <2>3. p \in hook => hookRuns[p] = 0 /\ p \notin hookCalled /\ \A tk \in Thread : p \notin grip[tk].hooks
    BY DEF HooksFit
  <2>4. CASE p \in hook \cap ops
    BY <1>2, <2>2, <2>3, <2>4 DEF HooksFit
  <2>5. CASE p \notin hook \cap ops
    BY <1>2, <2>2, <2>3, <2>5 DEF HooksFit
  <2>6. QED
    BY <2>4, <2>5
<1>5. CancelReaches'
  <2>1. SUFFICES ASSUME NEW p \in Operation
                 PROVE  p \in cancelReq' /\ p \in process =>
                             p \in killed \/ \E tk \in Thread : p \in grip'[tk].processes
    BY <1>2 DEF CancelReaches
  <2>2. \A tk \in Thread : p \in grip[tk].processes => p \in grip'[tk].processes
    BY <1>1
  <2>3. p \in process /\ p \in ops => p \in grip'[th].processes
    BY <1>1
  <2>4. QED
    BY <1>2, <2>2, <2>3 DEF CancelReaches
<1>6. NoResidue'
  BY <1>2, <1>3 DEF NoResidue
<1>7. QED
  BY <1>4, <1>5, <1>6

\* Every step keeps track of hooks and processes.
LEMMA HooksStep ==
    ASSUME OperationInv, TypeOK', [Next]_vars
    PROVE  (HooksFit /\ CancelReaches /\ NoResidue)'
<1> USE Threads DEF OperationInv, recordVars, bodyVars, cancelVars, eventVars, closeVars, stopVars, history
<1>1. ASSUME NEW o \in Operation, StartOperation(o) PROVE (HooksFit /\ CancelReaches /\ NoResidue)'
  <2>1. worker[o] = "none"
    BY <1>1 DEF StartOperation, ControlFits
  <2>2. /\ UNCHANGED <<hook, hookCalled, hookRuns, grip, cancelReq, process, killed, worker>>
        /\ registered' = registered \cup {o} /\ starter' = [starter EXCEPT ![o] = "queued"]
    BY <1>1 DEF StartOperation
  <2>3. QED
    BY <2>1, <2>2, SMTT(30) DEF HooksFit, CancelReaches, NoResidue, TypeOK
<1>2. ASSUME NEW o \in Operation, StartThread(o) PROVE (HooksFit /\ CancelReaches /\ NoResidue)'
  <2>1. worker[o] = "none" /\ UNCHANGED <<hookRuns, grip, killed>>
    BY <1>2 DEF StartThread, ControlFits
  <2>2. CASE Cleanup(o) /\ UNCHANGED worker /\ starter' = [starter EXCEPT ![o] = "done"]
    BY <2>1, <2>2, ZenonT(30) DEF Cleanup, HooksFit, CancelReaches, NoResidue, TypeOK
  <2>3. CASE /\ worker' = [worker EXCEPT ![o] = "started"]
             /\ UNCHANGED <<registered, cancelVars>> /\ starter' = [starter EXCEPT ![o] = "done"]
    BY <2>1, <2>3, SMTT(30) DEF HooksFit, CancelReaches, NoResidue, TypeOK
  <2>4. QED
    BY <1>2, <2>2, <2>3 DEF StartThread
<1>3. ASSUME NEW o \in Operation, RunOperation(o) PROVE (HooksFit /\ CancelReaches /\ NoResidue)'
  BY <1>3 DEF RunOperation, Become, HooksFit, CancelReaches, NoResidue, TypeOK
<1>4. ASSUME NEW o \in Operation, RunNothing(o) PROVE (HooksFit /\ CancelReaches /\ NoResidue)'
  BY <1>4 DEF RunNothing, Cleanup, HooksFit, CancelReaches, NoResidue, TypeOK
<1>5. ASSUME NEW o \in Operation, ReportProgress(o) PROVE (HooksFit /\ CancelReaches /\ NoResidue)'
  BY <1>5 DEF ReportProgress, InBody, NoGrip, HooksFit, CancelReaches, NoResidue, TypeOK
<1>6. ASSUME NEW o \in Operation, SetProcess(o) PROVE (HooksFit /\ CancelReaches /\ NoResidue)'
  BY <1>6 DEF SetProcess, InBody, NoGrip, HooksFit, CancelReaches, NoResidue, TypeOK
<1>7. ASSUME NEW o \in Operation, ClearProcess(o) PROVE (HooksFit /\ CancelReaches /\ NoResidue)'
  BY <1>7 DEF ClearProcess, InBody, NoGrip, HooksFit, CancelReaches, NoResidue, TypeOK
<1>8. ASSUME NEW o \in Operation, SetCancelHook(o) PROVE (HooksFit /\ CancelReaches /\ NoResidue)'
  <2>1. /\ worker[o] = "body" /\ grip[Work(o)].hooks = {} /\ o \notin hook \cup hookCalled
        /\ UNCHANGED <<registered, cancelReq, process, worker, starter, hookRuns, killed>>
    BY <1>8 DEF SetCancelHook, InBody, NoGrip, OffersFit
  <2>5. CASE ~InRecords(o)
    <3>1. UNCHANGED <<hook, hookCalled, grip>>
      BY <1>8, <2>5 DEF SetCancelHook
    <3>2. QED
      BY <2>1, <3>1 DEF HooksFit, CancelReaches, NoResidue
  <2>2. CASE InRecords(o) /\ o \in cancelReq
    <3>0. /\ hookCalled' = hookCalled \cup {o} /\ hook' = hook
          /\ grip' = [grip EXCEPT ![Work(o)].hooks = {o}]
          /\ grip \in [Thread -> [hooks : SUBSET Operation, processes : SUBSET Operation]]
          /\ Work(o) \in Thread
      BY <1>8, <2>2 DEF SetCancelHook, TypeOK
    <3>1. \A th \in Thread :
            /\ grip'[th].processes = grip[th].processes
            /\ grip'[th].hooks = IF th = Work(o) THEN {o} ELSE grip[th].hooks
      BY <3>0
    <3>2. \A th \in Thread : o \notin grip[th].hooks
      BY <2>1 DEF HooksFit
    <3>3. hookRuns[o] = 0
      BY <2>1 DEF HooksFit
    <3>4. HooksFit'
      BY <2>1, <2>2, <3>0, <3>1, <3>2, <3>3 DEF HooksFit
    <3>5. CancelReaches' /\ NoResidue'
      BY <2>1, <2>2, <3>0, <3>1 DEF CancelReaches, NoResidue
    <3>6. QED
      BY <3>4, <3>5
  <2>3. CASE InRecords(o) /\ o \notin cancelReq
    <3>1. hook' = hook \cup {o} /\ UNCHANGED <<hookCalled, grip>>
      BY <1>8, <2>3 DEF SetCancelHook
    <3>2. hookRuns[o] = 0 /\ \A th \in Thread : o \notin grip[th].hooks
      BY <2>1 DEF HooksFit, TypeOK
    <3>3. QED
      BY <2>1, <2>3, <3>1, <3>2, SMTT(30) DEF HooksFit, CancelReaches, NoResidue, TypeOK
  <2>4. QED
    BY <2>2, <2>3, <2>5
<1>9. ASSUME NEW o \in Operation, BodyReturns(o) PROVE (HooksFit /\ CancelReaches /\ NoResidue)'
  BY <1>9 DEF BodyReturns, InBody, NoGrip, Become, HooksFit, CancelReaches, NoResidue,
     TypeOK
<1>10. ASSUME NEW o \in Operation, BodyRaises(o) PROVE (HooksFit /\ CancelReaches /\ NoResidue)'
  BY <1>10 DEF BodyRaises, InBody, NoGrip, HooksFit, CancelReaches, NoResidue, TypeOK
<1>11. ASSUME NEW o \in Operation, FinishFromWorker(o) PROVE (HooksFit /\ CancelReaches /\ NoResidue)'
  <2>1. /\ UNCHANGED <<hook, hookCalled, hookRuns, grip, cancelReq, process, killed, registered, starter>>
        /\ worker' = [worker EXCEPT ![o] = "cleanup"] /\ worker[o] \in {"cancelled", "failed"}
    BY <1>11 DEF FinishFromWorker
  <2>2. QED
    BY <2>1, SMTT(30) DEF HooksFit, CancelReaches, NoResidue, TypeOK
<1>12. ASSUME NEW o \in Operation, WorkerEnds(o) PROVE (HooksFit /\ CancelReaches /\ NoResidue)'
  BY <1>12, SMTT(30) DEF WorkerEnds, Cleanup, HooksFit, CancelReaches, NoResidue, TypeOK
<1>13. ASSUME NEW o \in Operation, CancelOperation(o) PROVE (HooksFit /\ CancelReaches /\ NoResidue)'
  <2>1. /\ UNCHANGED <<registered, worker, starter, hookRuns, killed>>
        /\ RequestCancel(Cancel(o), {o}) /\ grip[Cancel(o)] = NoGrip
        /\ {o} \subseteq {p \in Operation : Active(p)}
    BY <1>13 DEF CancelOperation
  <2>2. QED
    BY <2>1, RequestCancelSafe
<1>14. ASSUME NEW o \in Operation, CancelAnnounces(o) PROVE (HooksFit /\ CancelReaches /\ NoResidue)'
  BY <1>14 DEF CancelAnnounces, NoGrip, HooksFit, CancelReaches, NoResidue, TypeOK
<1>15. CASE StopBegins
  <2>1. /\ UNCHANGED <<registered, worker, starter, hookRuns, killed>>
        /\ RequestCancel(Stop, {p \in Operation : Active(p)}) /\ grip[Stop] = NoGrip
        /\ Stop \in Thread
    BY <1>15 DEF StopBegins, StopFits, Thread
  <2>2. QED
    BY <2>1, RequestCancelSafe
<1>16. CASE StopForces
  BY <1>16 DEF StopForces, NoGrip, HooksFit, CancelReaches, NoResidue, TypeOK
<1>17. CASE StopCloses
  BY <1>17 DEF StopCloses, HooksFit, CancelReaches, NoResidue, TypeOK
<1>18. ASSUME NEW th \in Thread, Drain(th) PROVE (HooksFit /\ CancelReaches /\ NoResidue)'
  BY <1>18 DEF Drain, HooksFit, CancelReaches, NoResidue, TypeOK
<1>19. ASSUME NEW th \in Thread, Act(th) PROVE (HooksFit /\ CancelReaches /\ NoResidue)'
  BY <1>19 DEF Act, NoGrip, HooksFit, CancelReaches, NoResidue, TypeOK
<1>20. CASE UNCHANGED vars
  BY <1>20 DEF vars, HooksFit, CancelReaches, NoResidue
<1>21. QED
  BY <1>1, <1>2, <1>3, <1>4, <1>5, <1>6, <1>7, <1>8, <1>9, <1>10, <1>11, <1>12, <1>13,
     <1>14, <1>15, <1>16, <1>17, <1>18, <1>19, <1>20 DEF Next, Worker, Stopper

\* What is known of the hooks that bodies offered survives a step that neither
\* offers, takes nor calls one, nor makes an operation active.
LEMMA OffersSame ==
    ASSUME OffersFit,
           UNCHANGED <<offer, cancelAsked, hook, hookCalled, cancelReq, hookRuns>>,
           \A th \in Thread : grip'[th].hooks = grip[th].hooks,
           \A o \in Operation :
              /\ worker'[o] \in {"none", "started"} => worker[o] \in {"none", "started"}
              /\ worker'[o] \in Busy => worker[o] \in Busy \/ o \notin cancelAsked
              /\ worker[o] = "dead" => worker'[o] = "dead"
              /\ state'[o] \in {"absent", "queued"} =>
                    state[o] \in {"absent", "queued"}
    PROVE  OffersFit'
<1>1. \A o \in Operation : Held(o)' <=> Held(o)
  BY DEF Held
<1>2. QED
  BY <1>1 DEF OffersFit

\* Asking active operations to end passes their hooks to a thread that held none.
LEMMA RequestCancelReaches ==
    ASSUME OperationInv, TypeOK', NEW th \in Thread, grip[th] = NoGrip,
           NEW ops \in SUBSET {p \in Operation : Active(p)},
           RequestCancel(th, ops),
           UNCHANGED <<worker, hookRuns, offer>>,
           \A p \in Operation :
              state'[p] = IF p \in ops /\ state[p] = "queued" THEN "cancelled" ELSE state[p]
    PROVE  OffersFit'
<1>1. /\ \A tk \in Thread : tk # th => grip'[tk] = grip[tk]
      /\ grip'[th].hooks = hook \cap ops /\ grip[th].hooks = {}
  BY DEF OperationInv, RequestCancel, NoGrip, TypeOK
<1>2. /\ cancelReq' = cancelReq \cup ops /\ hook' = hook \ ops
      /\ hookCalled' = hookCalled \cup (hook \cap ops) /\ cancelAsked' = cancelAsked \cup ops
  BY DEF RequestCancel
<1>3. ASSUME NEW p \in ops PROVE worker[p] # "dead" /\ state[p] \in {"queued", "running"}
  BY DEF OperationInv, Active, ControlFits
<1>4. \A p \in Operation : Held(p)' <=> Held(p) \/ p \in hook \cap ops
  BY <1>1 DEF Held
<1>5. ASSUME NEW p \in Operation
      PROVE  /\ offer[p] # "none" => worker[p] \notin {"none", "started"}
             /\ p \in hook' \cup hookCalled' => offer[p] = "kept"
             /\ p \in cancelReq' => p \in cancelAsked'
             /\ p \in cancelAsked' =>
                  /\ state'[p] \notin {"absent", "queued"}
                  /\ worker[p] \in Busy => p \in cancelReq'
             /\ hookRuns[p] # 0 \/ Held(p)' => p \in cancelAsked'
             /\ offer[p] = "kept" =>
                  \/ p \in hook' \/ hookRuns[p] = 1 \/ Held(p)'
                  \/ worker[p] = "dead" /\ p \notin cancelAsked'
  <2>1. OffersFit
    BY DEF OperationInv
  <2>2. CASE p \in ops
    <3>1. p \in cancelReq' /\ p \in cancelAsked' /\ p \notin hook'
      BY <1>2, <2>2
    <3>2. state'[p] \notin {"absent", "queued"}
      BY <1>3, <2>2
    <3>3. QED
      BY <1>2, <1>3, <1>4, <2>1, <2>2, <3>1, <3>2 DEF OffersFit
  <2>3. CASE p \notin ops
    BY <1>2, <1>4, <2>1, <2>3 DEF OffersFit
  <2>4. QED
    BY <2>2, <2>3
<1>6. QED
  BY <1>5 DEF OffersFit

\* Every step keeps track of the hooks that bodies offered.
LEMMA OffersStep ==
    ASSUME OperationInv, TypeOK', [Next]_vars
    PROVE  OffersFit'
<1> USE Threads DEF recordVars, bodyVars, cancelVars, eventVars, closeVars, stopVars, history
<1>0. OffersFit /\ ControlFits /\ HooksFit /\ TypeOK
  BY DEF OperationInv
<1>1. ASSUME NEW o \in Operation, StartOperation(o) PROVE OffersFit'
  BY <1>0, <1>1, OffersSame DEF StartOperation, ControlFits, TypeOK
<1>2. ASSUME NEW o \in Operation, StartThread(o) PROVE OffersFit'
  <2>1. worker[o] = "none" /\ UNCHANGED <<state, hookRuns, grip, offer, cancelAsked>>
    BY <1>0, <1>2 DEF StartThread, ControlFits
  <2>2. CASE Cleanup(o) /\ UNCHANGED worker
    <3>1. \A p \in Operation : Held(p)' <=> Held(p)
      BY <2>1 DEF Held
    <3>2. /\ hook' = hook \ {o} /\ hookCalled' = hookCalled \ {o}
          /\ cancelReq' = cancelReq \ {o} /\ worker' = worker
      BY <2>2 DEF Cleanup
    <3>3. offer[o] = "none" /\ worker[o] \notin Busy
      BY <1>0, <2>1 DEF OffersFit, Busy, TypeOK
    <3>4. QED
      BY <1>0, <2>1, <3>1, <3>2, <3>3 DEF OffersFit
  <2>3. CASE /\ worker' = [worker EXCEPT ![o] = "started"]
             /\ UNCHANGED <<registered, cancelVars>>
    BY <1>0, <2>1, <2>3, OffersSame DEF TypeOK, Busy
  <2>4. QED
    BY <1>2, <2>2, <2>3 DEF StartThread
<1>3. ASSUME NEW o \in Operation, RunOperation(o) PROVE OffersFit'
  <2>1. /\ state[o] = "queued" /\ state' = [state EXCEPT ![o] = "running"]
        /\ worker' = [worker EXCEPT ![o] = "body"]
        /\ UNCHANGED <<offer, cancelAsked, hook, hookCalled, cancelReq, hookRuns, grip>>
    BY <1>0, <1>3 DEF RunOperation, Active, ControlFits, Become
  <2>2. o \notin cancelAsked
    BY <1>0, <2>1 DEF OffersFit
  <2>3. /\ worker'[o] = "body" /\ worker[o] # "dead" /\ state'[o] = "running"
        /\ \A p \in Operation \ {o} : worker'[p] = worker[p] /\ state'[p] = state[p]
    BY <1>0, <1>3, <2>1 DEF RunOperation, TypeOK
  <2>4. QED
    BY <1>0, <2>1, <2>2, <2>3, OffersSame
<1>4. ASSUME NEW o \in Operation, RunNothing(o) PROVE OffersFit'
  <2>1. /\ worker[o] = "started" /\ worker' = [worker EXCEPT ![o] = "dead"] /\ Cleanup(o)
        /\ UNCHANGED <<state, hookRuns, grip, offer, cancelAsked>>
    BY <1>4 DEF RunNothing
  <2>2. \A p \in Operation : Held(p)' <=> Held(p)
    BY <2>1 DEF Held
  <2>3. /\ hook' = hook \ {o} /\ hookCalled' = hookCalled \ {o}
        /\ cancelReq' = cancelReq \ {o}
    BY <2>1 DEF Cleanup
  <2>4. offer[o] = "none" /\ worker'[o] = "dead" /\ "dead" \notin Busy
    BY <1>0, <2>1 DEF OffersFit, Busy, TypeOK
  <2>5. \A p \in Operation \ {o} : worker'[p] = worker[p]
    BY <1>0, <2>1 DEF TypeOK
  <2>6. QED
    BY <1>0, <2>1, <2>2, <2>3, <2>4, <2>5 DEF OffersFit
<1>5. ASSUME NEW o \in Operation, ReportProgress(o) PROVE OffersFit'
  BY <1>0, <1>5, OffersSame DEF ReportProgress
<1>6. ASSUME NEW o \in Operation, SetProcess(o) PROVE OffersFit'
  <2>1. \A th \in Thread : grip'[th].hooks = grip[th].hooks
    BY <1>0, <1>6 DEF SetProcess, TypeOK
  <2>2. QED
    BY <1>0, <1>6, <2>1, OffersSame DEF SetProcess
<1>7. ASSUME NEW o \in Operation, ClearProcess(o) PROVE OffersFit'
  BY <1>0, <1>7, OffersSame DEF ClearProcess
<1>8. ASSUME NEW o \in Operation, SetCancelHook(o) PROVE OffersFit'
  <2>1. /\ worker[o] = "body" /\ offer[o] = "none" /\ grip[Work(o)].hooks = {}
        /\ offer' = [offer EXCEPT ![o] = IF InRecords(o) THEN "kept" ELSE "ignored"]
        /\ UNCHANGED <<state, cancelReq, cancelAsked, worker, hookRuns>>
    BY <1>8 DEF SetCancelHook, InBody, NoGrip
  <2>2. /\ offer'[o] = IF InRecords(o) THEN "kept" ELSE "ignored"
        /\ \A p \in Operation \ {o} : offer'[p] = offer[p]
    BY <1>0, <2>1 DEF TypeOK
  <2>3. CASE ~InRecords(o)
    <3>1. UNCHANGED <<hook, hookCalled, grip>>
      BY <1>8, <2>3 DEF SetCancelHook
    <3>2. \A p \in Operation : Held(p)' <=> Held(p)
      BY <3>1 DEF Held
    <3>3. QED
      BY <1>0, <2>1, <2>2, <2>3, <3>1, <3>2 DEF OffersFit
  <2>4. CASE InRecords(o) /\ o \in cancelReq
    <3>1. /\ hookCalled' = hookCalled \cup {o} /\ hook' = hook
          /\ grip' = [grip EXCEPT ![Work(o)].hooks = {o}]
      BY <1>8, <2>4 DEF SetCancelHook
    <3>2. \A th \in Thread : grip'[th].hooks = IF th = Work(o) THEN {o} ELSE grip[th].hooks
      BY <1>0, <3>1 DEF TypeOK
    <3>3. \A p \in Operation : Held(p)' <=> Held(p) \/ p = o
      BY <2>1, <3>2 DEF Held
    <3>4. QED
      BY <1>0, <2>1, <2>2, <2>4, <3>1, <3>3 DEF OffersFit
  <2>5. CASE InRecords(o) /\ o \notin cancelReq
    <3>1. hook' = hook \cup {o} /\ UNCHANGED <<hookCalled, grip>>
      BY <1>8, <2>5 DEF SetCancelHook
    <3>2. \A p \in Operation : Held(p)' <=> Held(p)
      BY <3>1 DEF Held
    <3>3. QED
      BY <1>0, <2>1, <2>2, <2>5, <3>1, <3>2 DEF OffersFit
  <2>6. QED
    BY <2>3, <2>4, <2>5
<1>9. ASSUME NEW o \in Operation, BodyReturns(o) PROVE OffersFit'
  <2>1. /\ worker[o] = "body" /\ worker' = [worker EXCEPT ![o] = "cleanup"]
        /\ UNCHANGED <<offer, cancelAsked, hook, hookCalled, cancelReq, hookRuns, grip>>
    BY <1>9 DEF BodyReturns, InBody
  <2>2. \A p \in Operation : state'[p] \in {"absent", "queued"} => state'[p] = state[p]
    BY <1>0, <1>9 DEF BodyReturns, Become, TypeOK
  <2>3. QED
    BY <1>0, <2>1, <2>2, OffersSame DEF TypeOK, Busy
<1>10. ASSUME NEW o \in Operation, BodyRaises(o) PROVE OffersFit'
  BY <1>0, <1>10, OffersSame DEF BodyRaises, InBody, Busy, TypeOK
<1>11. ASSUME NEW o \in Operation, FinishFromWorker(o) PROVE OffersFit'
  <2>1. /\ worker[o] \in Busy /\ worker' = [worker EXCEPT ![o] = "cleanup"]
        /\ UNCHANGED <<offer, cancelAsked, hook, hookCalled, cancelReq, hookRuns, grip>>
    BY <1>11 DEF FinishFromWorker, Busy
  <2>2. \A p \in Operation : state'[p] \in {"absent", "queued"} => state'[p] = state[p]
    BY <1>0, <1>11 DEF FinishFromWorker, Become, TypeOK
  <2>3. QED
    BY <1>0, <2>1, <2>2, OffersSame DEF TypeOK, Busy
<1>12. ASSUME NEW o \in Operation, WorkerEnds(o) PROVE OffersFit'
  <2>1. /\ worker[o] = "cleanup" /\ worker' = [worker EXCEPT ![o] = "dead"] /\ Cleanup(o)
        /\ UNCHANGED <<state, hookRuns, grip, offer, cancelAsked>>
    BY <1>12 DEF WorkerEnds
  <2>2. \A p \in Operation : Held(p)' <=> Held(p)
    BY <2>1 DEF Held
  <2>3. /\ hook' = hook \ {o} /\ hookCalled' = hookCalled \ {o}
        /\ cancelReq' = cancelReq \ {o}
    BY <2>1 DEF Cleanup
  <2>4. worker'[o] = "dead" /\ "dead" \notin Busy /\ "cleanup" \in Busy
    BY <1>0, <2>1 DEF Busy, TypeOK
  <2>5. \A p \in Operation \ {o} : worker'[p] = worker[p]
    BY <1>0, <2>1 DEF TypeOK
  <2>6. o \in hook => o \notin cancelAsked
    BY <1>0, <2>1, <2>4 DEF OffersFit, HooksFit
  <2>7. QED
    BY <1>0, <2>1, <2>2, <2>3, <2>4, <2>5, <2>6 DEF OffersFit
<1>13. ASSUME NEW o \in Operation, CancelOperation(o) PROVE OffersFit'
  <2>1. /\ UNCHANGED <<worker, hookRuns, offer>>
        /\ RequestCancel(Cancel(o), {o}) /\ grip[Cancel(o)] = NoGrip
        /\ {o} \in SUBSET {p \in Operation : Active(p)}
    BY <1>13 DEF CancelOperation
  <2>2. \A p \in Operation :
           state'[p] = IF p \in {o} /\ state[p] = "queued" THEN "cancelled" ELSE state[p]
    BY <1>0, <1>13 DEF CancelOperation, Become, TypeOK
  <2>3. QED
    BY <2>1, <2>2, RequestCancelReaches
<1>14. ASSUME NEW o \in Operation, CancelAnnounces(o) PROVE OffersFit'
  BY <1>0, <1>14, OffersSame DEF CancelAnnounces
<1>15. CASE StopBegins
  <2> DEFINE ops == {p \in Operation : Active(p)}
             waiting == {p \in Operation : state[p] = "queued"}
  <2>1. /\ UNCHANGED <<worker, hookRuns, offer>>
        /\ RequestCancel(Stop, ops) /\ grip[Stop] = NoGrip /\ Stop \in Thread
        /\ CancelAll(Only(order, waiting))
    BY <1>15 DEF OperationInv, StopBegins, StopFits, Thread
  <2>2. \A p \in waiting : Active(p)
    BY DEF Active
  <2>3. state' = [p \in Operation |-> IF p \in waiting THEN "cancelled" ELSE state[p]]
    <3>1. waiting \in SUBSET Operation /\ OrderFits /\ RetentionExact
      BY DEF OperationInv
    <3> HIDE DEF waiting
    <3>2. QED
      BY <1>0, <2>1, <2>2, <3>1, CancelAllFacts
  <2>4. \A p \in Operation :
           state'[p] = IF p \in ops /\ state[p] = "queued" THEN "cancelled" ELSE state[p]
    BY <2>2, <2>3
  <2> HIDE DEF waiting
  <2>5. QED
    BY <2>1, <2>4, RequestCancelReaches
<1>16. CASE StopForces
  <2>1. state' = [p \in Operation |-> IF p \in {q \in live : Active(q)} THEN "cancelled"
                                                                       ELSE state[p]]
    <3> DEFINE left == {q \in live : Active(q)}
    <3>1. /\ left \in SUBSET Operation /\ OrderFits /\ RetentionExact
          /\ \A p \in left : Active(p) /\ CancelAll(Only(order, left))
      BY <1>0, <1>16 DEF OperationInv, StopForces, TypeOK
    <3>2. CancelAll(Only(order, left))
      BY <1>16 DEF StopForces
    <3> HIDE DEF left
    <3>3. state' = [p \in Operation |-> IF p \in left THEN "cancelled" ELSE state[p]]
      BY <1>0, <3>1, <3>2, CancelAllFacts
    <3>4. QED
      BY <3>3 DEF left
  <2>2. UNCHANGED <<offer, cancelAsked, hook, hookCalled, cancelReq, hookRuns, grip, worker>>
    BY <1>16 DEF StopForces
  <2>3. \A p \in Operation : state'[p] \in {"absent", "queued"} => state'[p] = state[p]
    BY <2>1
  <2>4. QED
    BY <1>0, <2>2, <2>3, OffersSame
<1>17. CASE StopCloses
  BY <1>0, <1>17, OffersSame DEF StopCloses
<1>18. ASSUME NEW th \in Thread, Drain(th) PROVE OffersFit'
  BY <1>0, <1>18, OffersSame DEF Drain
<1>19. ASSUME NEW th \in Thread, Act(th) PROVE OffersFit'
  <2>1. /\ \A tk \in Thread : grip'[tk].hooks = IF tk = th THEN {} ELSE grip[tk].hooks
        /\ \A p \in Operation :
             hookRuns'[p] = hookRuns[p] + IF p \in grip[th].hooks THEN 1 ELSE 0
        /\ UNCHANGED <<state, worker, offer, cancelAsked, hook, hookCalled, cancelReq>>
    BY <1>0, <1>19 DEF Act, NoGrip, TypeOK
  <2>2. ASSUME NEW p \in Operation
        PROVE  /\ hookRuns'[p] # 0 \/ Held(p)' => hookRuns[p] # 0 \/ Held(p)
               /\ hookRuns[p] = 1 \/ Held(p) => hookRuns'[p] = 1 \/ Held(p)'
    <3>1. hookRuns[p] \in Nat
      BY <1>0 DEF TypeOK
    <3>2. CASE p \in grip[th].hooks
      <4>1. hookRuns[p] = 0
        BY <1>0, <3>2 DEF HooksFit
      <4>2. hookRuns'[p] = 1 /\ Held(p)
        BY <2>1, <3>2, <4>1 DEF Held
      <4>3. QED
        BY <4>2
    <3>3. CASE p \notin grip[th].hooks
      <4>1. hookRuns'[p] = hookRuns[p]
        BY <2>1, <3>1, <3>3
      <4>2. Held(p)' <=> Held(p)
        BY <2>1, <3>3 DEF Held
      <4>3. QED
        BY <4>1, <4>2
    <3>4. QED
      BY <3>2, <3>3
  <2>3. QED
    BY <1>0, <2>1, <2>2 DEF OffersFit
<1>20. CASE UNCHANGED vars
  BY <1>0, <1>20, OffersSame DEF vars
<1>21. QED
  BY <1>1, <1>2, <1>3, <1>4, <1>5, <1>6, <1>7, <1>8, <1>9, <1>10, <1>11, <1>12, <1>13,
     <1>14, <1>15, <1>16, <1>17, <1>18, <1>19, <1>20 DEF Next, Worker, Stopper

\* What is told of one operation is right.
LEMMA EventsSplit ==
    /\ (EventsFit /\ EventOrder) <=> \A o \in Operation :
         /\ Told(o)
         /\ \A i \in DOMAIN published[o] : Published(o, i)
         /\ \A i \in DOMAIN queue : queue[i][1] = o => ToPublish(o, i)
  BY DEF EventsFit, EventOrder

\* While no end was told of an operation, its next event may be queued: its
\* start if it is new, and otherwise another state, which its record takes.
LEMMA EventQueued ==
    ASSUME OperationInv, TypeOK', NEW o \in Operation, NEW st \in Event,
           queue' = Append(queue, <<o, st>>), published' = published,
           state' = [state EXCEPT ![o] = st],
           st = "queued" <=> state[o] = "absent",
           \A i \in DOMAIN published[o] : published[o][i] \notin Terminal,
           \A i \in DOMAIN queue : queue[i][1] = o => queue[i][2] \notin Terminal,
           \A p \in Operation : canceller'[p] = "announcing" =>
              p # o /\ canceller[p] = "announcing"
    PROVE  EventsFit' /\ EventOrder'
<1> USE DEF OperationInv
<1>1. /\ DOMAIN queue = 1..Len(queue) /\ Len(queue) \in Nat
      /\ Len(queue') = Len(queue) + 1 /\ DOMAIN queue' = 1..(Len(queue) + 1)
      /\ \A i \in 1..Len(queue) : queue'[i] = queue[i]
      /\ queue'[Len(queue) + 1] = <<o, st>>
  BY QueueAppended
<1>2. ASSUME NEW p \in Operation
      PROVE  /\ Told(p)'
             /\ \A i \in DOMAIN published'[p] : Published(p, i)'
             /\ \A i \in DOMAIN queue' : queue'[i][1] = p => ToPublish(p, i)'
  <2>0. /\ Told(p) /\ \A i \in DOMAIN published[p] : Published(p, i)
        /\ \A i \in DOMAIN queue : queue[i][1] = p => ToPublish(p, i)
    BY EventsSplit
  <2>1. CASE p # o
    <3>1. state'[p] = state[p] /\ published'[p] = published[p]
      BY <2>1 DEF TypeOK
    <3>2. \A i \in DOMAIN queue' : queue'[i][1] = p => i \in 1..Len(queue)
      BY <1>1, <2>1
    <3>3. Told(p)'
      BY <1>1, <2>0, <2>1, <3>1, <3>2 DEF Told
    <3>4. \A i \in DOMAIN published'[p] : Published(p, i)'
      BY <1>1, <2>0, <3>1, <3>2 DEF Published
    <3>5. ASSUME NEW i \in DOMAIN queue', queue'[i][1] = p PROVE ToPublish(p, i)'
      <4>1. i \in 1..Len(queue) /\ queue'[i] = queue[i] /\ ToPublish(p, i)
        BY <1>1, <2>0, <3>2, <3>5
      <4>2. (\A j \in 1..i-1 : queue'[j][1] # p) <=> \A j \in 1..i-1 : queue[j][1] # p
        <5>1. \A j \in 1..i-1 : j \in 1..Len(queue)
          BY <1>1, <4>1
        <5>2. QED
          BY <1>1, <5>1
      <4>3. (\A j \in i+1..Len(queue) : queue[j][1] # p) =>
                \A j \in i+1..Len(queue') : queue'[j][1] # p
        <5>1. \A j \in i+1..Len(queue') : j \in DOMAIN queue' /\ (j \in 1..Len(queue) => j \in i+1..Len(queue))
          BY <1>1, <4>1
        <5>2. QED
          BY <1>1, <3>2, <5>1
      <4>4. QED
        BY <3>1, <4>1, <4>2, <4>3 DEF ToPublish
    <3>6. QED
      BY <3>3, <3>4, <3>5
  <2>2. CASE p = o
    <3>1. state'[o] = st /\ published'[o] = published[o]
      BY DEF TypeOK
    <3>2. Told(o)'
      <4>1. st # "absent"
        BY DEF Event, Terminal
      <4>2. published[o] # <<>> \/ \E i \in DOMAIN queue' : queue'[i] = <<o, "queued">>
        <5>1. CASE st = "queued"
          BY <1>1, <5>1
        <5>2. CASE st # "queued"
          BY <1>1, <2>0, <2>2, <5>2 DEF Told
        <5>3. QED
          BY <5>1, <5>2
      <4>3. QED
        BY <3>1, <4>1, <4>2 DEF Told
    <3>3. \A i \in DOMAIN published'[o] : Published(o, i)'
      BY <2>0, <2>2, <3>1 DEF Published
    <3>4. ASSUME NEW i \in DOMAIN queue', queue'[i][1] = o PROVE ToPublish(o, i)'
      <4>1. CASE i \in 1..Len(queue)
        <5>1. queue'[i] = queue[i] /\ ToPublish(o, i) /\ queue[i][2] \notin Terminal
          BY <1>1, <2>0, <2>2, <3>4, <4>1
        <5>2. \A j \in 1..i-1 : j \in 1..Len(queue)
          BY <1>1, <4>1
        <5>3. QED
          BY <1>1, <3>1, <5>1, <5>2 DEF ToPublish
      <4>2. CASE i = Len(queue) + 1
        <5>1. queue'[i][2] = st /\ state'[o] = st
          BY <1>1, <3>1, <4>2
        <5>2. \A j \in i+1..Len(queue') : queue'[j][1] # o
          BY <1>1, <4>2
        <5>3. \A j \in 1..i-1 : j \in DOMAIN queue /\ queue'[j] = queue[j]
          BY <1>1, <4>2
        <5>4. \A j \in DOMAIN queue : j \in 1..i-1
          BY <1>1, <4>2
        <5>5. st = "queued" <=> published[o] = <<>> /\ \A j \in 1..i-1 : queue'[j][1] # o
          <6>1. CASE state[o] = "absent"
            BY <2>0, <2>2, <5>3, <6>1 DEF Told
          <6>2. CASE state[o] # "absent"
            <7>1. published[o] # <<>> \/ \E j \in DOMAIN queue : queue[j] = <<o, "queued">>
              BY <2>0, <2>2, <6>2 DEF Told
            <7>2. published[o] # <<>> \/ \E j \in 1..i-1 : queue'[j][1] = o
              BY <5>3, <5>4, <7>1
            <7>3. QED
              BY <6>2, <7>2
          <6>3. QED
            BY <6>1, <6>2
        <5>6. QED
          BY <3>1, <5>1, <5>2, <5>5 DEF ToPublish
      <4>3. QED
        BY <1>1, <4>1, <4>2
    <3>5. QED
      BY <2>2, <3>2, <3>3, <3>4
  <2>3. QED
    BY <2>1, <2>2
<1>3. QED
  BY <1>2 DEF EventsFit, EventOrder

\* Of an operation that is new or active no end was told, and none is about to
\* be.
LEMMA NoEndTold ==
    ASSUME OperationInv, NEW o \in Operation, state[o] \notin Terminal
    PROVE  /\ \A i \in DOMAIN published[o] : published[o][i] \notin Terminal
           /\ \A i \in DOMAIN queue : queue[i][1] = o => queue[i][2] \notin Terminal
           /\ canceller[o] # "announcing"
  BY DEF OperationInv, EventOrder, Published, ToPublish, EventsFit, Told, Terminal

\* The forced end of active operations is the last that is told of them.
LEMMA EndsQueued ==
    ASSUME OperationInv, TypeOK', NEW S \in SUBSET Operation, \A o \in S : Active(o),
           CancelAll(Only(order, S)), UNCHANGED <<published, canceller>>
    PROVE  EventsFit' /\ EventOrder'
<1> USE DEF OperationInv
<1>1. /\ state' = [o \in Operation |-> IF o \in S THEN "cancelled" ELSE state[o]]
      /\ Len(queue) \in Nat /\ DOMAIN queue = 1..Len(queue)
      /\ Len(queue') \in Nat /\ Len(queue') >= Len(queue) /\ DOMAIN queue' = 1..Len(queue')
      /\ \A i \in 1..Len(queue) : queue'[i] = queue[i]
      /\ \A i \in Len(queue)+1..Len(queue') : \E o \in S : queue'[i] = <<o, "cancelled">>
      /\ \A i, j \in Len(queue)+1..Len(queue') : queue'[i][1] = queue'[j][1] => i = j
  BY CancelAllFacts
<1>2. \A i \in 1..Len(queue') : i \in 1..Len(queue) \/ i \in Len(queue)+1..Len(queue')
  BY <1>1
<1>3. \A i \in 1..Len(queue) : i \in 1..Len(queue')
  BY <1>1
<1>4. ASSUME NEW p \in Operation
      PROVE  /\ Told(p)'
             /\ \A i \in DOMAIN published'[p] : Published(p, i)'
             /\ \A i \in DOMAIN queue' : queue'[i][1] = p => ToPublish(p, i)'
  <2>0. /\ Told(p) /\ \A i \in DOMAIN published[p] : Published(p, i)
        /\ \A i \in DOMAIN queue : queue[i][1] = p => ToPublish(p, i)
    BY EventsSplit
  <2>1. \A i \in 1..Len(queue) : \A j \in 1..i-1 : j \in 1..Len(queue)
    BY <1>1
  <2>2. CASE p \notin S
    <3>1. state'[p] = state[p] /\ published'[p] = published[p]
      BY <1>1, <2>2
    <3>2. \A i \in DOMAIN queue' : queue'[i][1] = p => i \in 1..Len(queue)
      BY <1>1, <1>2, <2>2
    <3>3. Told(p)'
      BY <1>1, <1>3, <2>0, <3>1, <3>2 DEF Told
    <3>4. \A i \in DOMAIN published'[p] : Published(p, i)'
      BY <1>1, <2>0, <3>1, <3>2 DEF Published
    <3>5. ASSUME NEW i \in DOMAIN queue', queue'[i][1] = p PROVE ToPublish(p, i)'
      <4>1. i \in 1..Len(queue) /\ queue'[i] = queue[i] /\ ToPublish(p, i)
        BY <1>1, <2>0, <3>2, <3>5
      <4>2. (\A j \in 1..i-1 : queue'[j][1] # p) <=> \A j \in 1..i-1 : queue[j][1] # p
        BY <1>1, <2>1, <4>1
      <4>3. (\A j \in i+1..Len(queue) : queue[j][1] # p) =>
                \A j \in i+1..Len(queue') : queue'[j][1] # p
        <5>1. \A j \in i+1..Len(queue') : j \in DOMAIN queue' /\ (j \in 1..Len(queue) => j \in i+1..Len(queue))
          BY <1>1, <4>1
        <5>2. QED
          BY <1>1, <3>2, <5>1
      <4>4. QED
        BY <3>1, <4>1, <4>2, <4>3 DEF ToPublish
    <3>6. QED
      BY <3>3, <3>4, <3>5
  <2>3. CASE p \in S
    <3>1. state'[p] = "cancelled" /\ published'[p] = published[p] /\ state[p] # "absent"
      BY <1>1, <2>3 DEF Active
    <3>2. /\ \A i \in DOMAIN published[p] : published[p][i] \notin Terminal
          /\ \A i \in DOMAIN queue : queue[i][1] = p => queue[i][2] \notin Terminal
          /\ canceller'[p] # "announcing"
      BY <2>3, NoEndTold DEF Active, Terminal
    <3>3. published[p] # <<>> \/ \E i \in 1..Len(queue) : queue[i] = <<p, "queued">>
      BY <1>1, <2>0, <3>1 DEF Told
    <3>4. Told(p)'
      BY <1>1, <1>3, <3>1, <3>2, <3>3 DEF Told
    <3>5. \A i \in DOMAIN published'[p] : Published(p, i)'
      BY <2>0, <3>1, <3>2 DEF Published
    <3>6. ASSUME NEW i \in DOMAIN queue', queue'[i][1] = p PROVE ToPublish(p, i)'
      <4>1. CASE i \in 1..Len(queue)
        <5>1. queue'[i] = queue[i] /\ ToPublish(p, i) /\ queue[i][2] \notin Terminal
          BY <1>1, <2>0, <3>2, <3>6, <4>1
        <5>2. QED
          BY <1>1, <2>1, <3>1, <4>1, <5>1 DEF ToPublish
      <4>2. CASE i \in Len(queue)+1..Len(queue')
        <5>1. queue'[i][2] = "cancelled"
          BY <1>1, <4>2
        <5>2. \A j \in i+1..Len(queue') : j \in Len(queue)+1..Len(queue') /\ j # i
          BY <1>1, <4>2
        <5>3. \A j \in i+1..Len(queue') : queue'[j][1] # p
          BY <1>1, <3>6, <4>2, <5>2
        <5>4. \A j \in 1..Len(queue) : j \in 1..i-1 /\ queue'[j] = queue[j]
          BY <1>1, <4>2
        <5>5. published[p] # <<>> \/ \E j \in 1..i-1 : queue'[j][1] = p
          BY <3>3, <5>4
        <5>6. QED
          BY <3>1, <5>1, <5>3, <5>5 DEF ToPublish
      <4>3. QED
        BY <1>1, <1>2, <4>1, <4>2
    <3>7. QED
      BY <3>4, <3>5, <3>6
  <2>4. QED
    BY <2>2, <2>3
<1>5. QED
  BY <1>4 DEF EventsFit, EventOrder

\* Delivering the oldest event, or dropping it once the publisher is closed,
\* keeps what is told in order.
LEMMA EventDelivered ==
    ASSUME OperationInv, TypeOK', queue # <<>>, queue' = Tail(queue),
           published' = IF pubClosed THEN published
                        ELSE [published EXCEPT ![Head(queue)[1]] = Append(@, Head(queue)[2])],
           UNCHANGED <<state, canceller>>
    PROVE  EventsFit' /\ EventOrder'
<1> USE DEF OperationInv
<1>1. /\ Len(queue) \in Nat \ {0} /\ DOMAIN queue = 1..Len(queue)
      /\ Head(queue) = queue[1] /\ queue[1] \in Operation \X Event
      /\ Len(queue') = Len(queue) - 1 /\ DOMAIN queue' = 1..(Len(queue) - 1)
      /\ \A i \in DOMAIN queue' : i + 1 \in DOMAIN queue /\ queue'[i] = queue[i + 1]
  BY QueueDrained
<1>0. PICK h \in Operation, st \in Event : queue[1] = <<h, st>>
  BY <1>1
<1>2. 1 \in DOMAIN queue /\ queue[1][1] = h /\ queue[1][2] = st /\ ToPublish(h, 1)
  BY <1>0, <1>1, EventsSplit
<1>3. st = "queued" <=> published[h] = <<>>
  BY <1>2 DEF ToPublish
<1>4. st \in Terminal => st = state[h] /\ \A j \in 2..Len(queue) : queue[j][1] # h
  BY <1>2 DEF ToPublish
<1>5. \A i \in DOMAIN published[h] : published[h][i] \notin Terminal
  BY <1>2, EventsSplit DEF Published
<1>6. \A j \in DOMAIN queue : j # 1 => j \in 2..Len(queue) /\ j - 1 \in DOMAIN queue' /\ queue'[j - 1] = queue[j]
  <2>1. \A j \in DOMAIN queue : j # 1 => j \in 2..Len(queue) /\ j - 1 \in DOMAIN queue' /\ (j - 1) + 1 = j
    BY <1>1
  <2>2. QED
    BY <1>1, <2>1
<1>7. \A i \in DOMAIN queue' : i \in Int /\ i + 1 \in 2..Len(queue)
  BY <1>1
<1>8. ASSUME NEW p \in Operation, p # h
      PROVE  /\ Told(p)'
             /\ \A i \in DOMAIN published'[p] : Published(p, i)'
             /\ \A i \in DOMAIN queue' : queue'[i][1] = p => ToPublish(p, i)'
  <2>0. /\ Told(p) /\ \A i \in DOMAIN published[p] : Published(p, i)
        /\ \A i \in DOMAIN queue : queue[i][1] = p => ToPublish(p, i)
    BY EventsSplit
  <2>1. published'[p] = published[p]
    BY <1>1, <1>2, <1>8 DEF TypeOK
  <2>2. \A j \in DOMAIN queue : queue[j][1] = p => j # 1
    BY <1>2, <1>8
  <2>3. Told(p)'
    <3>1. ASSUME NEW i \in DOMAIN queue, queue[i] = <<p, "queued">>
          PROVE  \E j \in DOMAIN queue' : queue'[j] = <<p, "queued">>
      <4>1. i # 1
        BY <2>2, <3>1
      <4>2. QED
        BY <1>6, <3>1, <4>1
    <3>2. QED
      BY <1>1, <2>0, <2>1, <3>1 DEF Told
  <2>4. \A i \in DOMAIN published'[p] : Published(p, i)'
    <3>1. (\A j \in DOMAIN queue : queue[j][1] # p) => \A j \in DOMAIN queue' : queue'[j][1] # p
      BY <1>1
    <3>2. QED
      BY <2>0, <2>1, <3>1 DEF Published
  <2>5. ASSUME NEW i \in DOMAIN queue', queue'[i][1] = p PROVE ToPublish(p, i)'
    <3>1. i \in Int /\ i + 1 \in DOMAIN queue /\ queue'[i] = queue[i + 1] /\ ToPublish(p, i + 1)
      BY <1>1, <1>7, <2>0, <2>5
    <3>2. (\A j \in 1..i-1 : queue'[j][1] # p) <=> \A j \in 1..(i+1)-1 : queue[j][1] # p
      <4>1. ASSUME \A j \in 1..i-1 : queue'[j][1] # p, NEW j \in 1..(i+1)-1
            PROVE  queue[j][1] # p
        <5>1. CASE j = 1
          BY <1>2, <1>8, <5>1
        <5>2. CASE j # 1
          <6>1. j \in DOMAIN queue /\ j - 1 \in 1..i-1
            BY <1>1, <3>1, <5>2
          <6>2. QED
            BY <1>6, <4>1, <5>2, <6>1
        <5>3. QED
          BY <5>1, <5>2
      <4>2. ASSUME \A j \in 1..(i+1)-1 : queue[j][1] # p, NEW j \in 1..i-1
            PROVE  queue'[j][1] # p
        <5>1. j \in DOMAIN queue' /\ j + 1 \in 1..(i+1)-1
          BY <1>1, <3>1
        <5>2. QED
          BY <1>1, <4>2, <5>1
      <4>3. QED
        BY <4>1, <4>2
    <3>3. (\A j \in (i+1)+1..Len(queue) : queue[j][1] # p) =>
              \A j \in i+1..Len(queue') : queue'[j][1] # p
      <4>1. \A j \in i+1..Len(queue') : j \in DOMAIN queue' /\ j + 1 \in (i+1)+1..Len(queue)
        BY <1>1, <3>1
      <4>2. QED
        BY <1>1, <4>1
    <3>4. QED
      BY <2>1, <3>1, <3>2, <3>3 DEF ToPublish
  <2>6. QED
    BY <2>3, <2>4, <2>5
<1>9. /\ Told(h)'
      /\ \A i \in DOMAIN published'[h] : Published(h, i)'
      /\ \A i \in DOMAIN queue' : queue'[i][1] = h => ToPublish(h, i)'
  <2>0. /\ Told(h) /\ \A i \in DOMAIN published[h] : Published(h, i)
        /\ \A i \in DOMAIN queue : queue[i][1] = h => ToPublish(h, i)
    BY <1>2, EventsSplit
  <2>1. state[h] # "absent"
    BY <1>2, <2>0 DEF Told
  <2>2. CASE pubClosed
    <3>1. \A i \in DOMAIN queue : queue[i][2] \in Terminal
      BY <2>2 DEF DrainFits
    <3>2. st \in Terminal /\ \A i \in DOMAIN queue' : queue'[i][1] # h
      BY <1>1, <1>2, <1>4, <1>7, <3>1
    <3>3. published[h] # <<>> /\ published' = published
      BY <1>3, <2>2, <3>2 DEF Terminal
    <3>4. canceller[h] # "announcing"
      BY <1>2, <2>0, <3>2 DEF Told
    <3>5. Told(h)'
      BY <2>1, <3>3, <3>4 DEF Told
    <3>6. \A i \in DOMAIN published'[h] : Published(h, i)'
      BY <1>5, <2>0, <3>3 DEF Published
    <3>7. QED
      BY <3>2, <3>5, <3>6
  <2>3. CASE ~pubClosed
    <3> DEFINE n == Len(published[h])
    <3>1. published[h] \in Seq(Event) /\ n \in Nat /\ DOMAIN published[h] = 1..n
      BY <1>2, LenProperties DEF TypeOK, Event
    <3>2. published'[h] = Append(published[h], st)
      BY <1>1, <1>2, <2>3 DEF TypeOK
    <3>3. /\ Len(published'[h]) = n + 1 /\ DOMAIN published'[h] = 1..(n + 1)
          /\ \A i \in 1..n : published'[h][i] = published[h][i]
          /\ published'[h][n + 1] = st /\ published'[h] # <<>>
      BY <1>2, <3>1, <3>2, AppendProperties, LenProperties
    <3>4. published[h] = <<>> <=> n = 0
      BY <3>1, EmptySeq
    <3> HIDE DEF n
    <3>5. Told(h)'
      <4>1. canceller[h] = "announcing" => st \notin Terminal
        BY <1>2, <2>0 DEF Told
      <4>2. canceller[h] = "announcing" => \A i \in DOMAIN published'[h] : published'[h][i] \notin Terminal
        BY <1>5, <3>1, <3>3, <4>1
      <4>3. canceller[h] = "announcing" =>
               /\ state[h] = "cancelled"
               /\ \A i \in DOMAIN queue : queue[i][1] = h => queue[i][2] \notin Terminal
        BY <2>0 DEF Told
      <4>4. canceller[h] = "announcing" =>
               \A i \in DOMAIN queue' : queue'[i][1] = h => queue'[i][2] \notin Terminal
        BY <1>1, <4>3
      <4>5. QED
        BY <2>1, <3>3, <4>2, <4>3, <4>4 DEF Told
    <3>6. ASSUME NEW i \in DOMAIN published'[h] PROVE Published(h, i)'
      <4>1. CASE i \in 1..n
        BY <1>5, <2>0, <3>1, <3>3, <4>1 DEF Published
      <4>2. CASE i = n + 1
        <5>1. \A j \in DOMAIN queue' : st \in Terminal => queue'[j][1] # h
          BY <1>1, <1>4, <1>7
        <5>2. st = "queued" <=> i = 1
          BY <1>3, <3>1, <3>4, <4>2
        <5>3. QED
          BY <1>4, <3>3, <4>2, <5>1, <5>2 DEF Published
      <4>3. QED
        BY <3>1, <3>3, <4>1, <4>2
    <3>7. ASSUME NEW i \in DOMAIN queue', queue'[i][1] = h PROVE ToPublish(h, i)'
      <4>1. i \in Int /\ i + 1 \in DOMAIN queue /\ queue'[i] = queue[i + 1] /\ ToPublish(h, i + 1)
        BY <1>1, <1>7, <2>0, <3>7
      <4>2. queue[i + 1][2] # "queued"
        <5>1. 1 \in 1..(i + 1)-1
          BY <1>1, <4>1
        <5>2. QED
          BY <1>2, <4>1, <5>1 DEF ToPublish
      <4>3. (\A j \in (i+1)+1..Len(queue) : queue[j][1] # h) =>
                \A j \in i+1..Len(queue') : queue'[j][1] # h
        <5>1. \A j \in i+1..Len(queue') : j \in DOMAIN queue' /\ j + 1 \in (i+1)+1..Len(queue)
          BY <1>1, <4>1
        <5>2. QED
          BY <1>1, <5>1
      <4>4. QED
        BY <3>3, <4>1, <4>2, <4>3 DEF ToPublish
    <3>8. QED
      BY <3>5, <3>6, <3>7
  <2>4. QED
    BY <2>2, <2>3 DEF TypeOK
<1>10. QED
  BY <1>2, <1>8, <1>9 DEF EventsFit, EventOrder

\* Steps that change neither a record nor an event keep what is told.
LEMMA EventsKept ==
    ASSUME OperationInv, UNCHANGED <<queue, published, state, canceller>>
    PROVE  EventsFit' /\ EventOrder'
  BY DEF OperationInv, EventsFit, Told, EventOrder, Published, ToPublish

\* Every step keeps what is told of the operations in order.
LEMMA EventsStep ==
    ASSUME OperationInv, TypeOK', [Next]_vars
    PROVE  (EventsFit /\ EventOrder)'
<1> USE DEF OperationInv, recordVars, bodyVars, cancelVars, eventVars, closeVars, stopVars, history
<1>1. ASSUME NEW o \in Operation, StartOperation(o) PROVE (EventsFit /\ EventOrder)'
  <2>1. /\ state' = [state EXCEPT ![o] = "queued"] /\ queue' = Append(queue, <<o, "queued">>)
        /\ UNCHANGED <<published, canceller>> /\ state[o] \notin Terminal
        /\ "queued" = "queued" <=> state[o] = "absent"
    BY <1>1 DEF StartOperation, Become, QueueEvent, Active, ControlFits, Terminal
  <2>2. QED
    BY <2>1, EventQueued, NoEndTold DEF Event
<1>2. ASSUME NEW o \in Operation, StartThread(o) PROVE (EventsFit /\ EventOrder)'
  <2>1. UNCHANGED <<queue, published, state, canceller>>
    BY <1>2 DEF StartThread
  <2>2. QED
    BY <2>1, EventsKept
<1>3. ASSUME NEW o \in Operation, RunOperation(o) PROVE (EventsFit /\ EventOrder)'
  <2>1. /\ state' = [state EXCEPT ![o] = "running"] /\ queue' = Append(queue, <<o, "running">>)
        /\ UNCHANGED <<published, canceller>> /\ state[o] \notin Terminal
        /\ "running" = "queued" <=> state[o] = "absent"
    BY <1>3 DEF RunOperation, Become, QueueEvent, Active, ControlFits, Terminal
  <2>2. QED
    BY <2>1, EventQueued, NoEndTold DEF Event
<1>4. ASSUME NEW o \in Operation, RunNothing(o) PROVE (EventsFit /\ EventOrder)'
  <2>1. UNCHANGED <<queue, published, state, canceller>>
    BY <1>4 DEF RunNothing
  <2>2. QED
    BY <2>1, EventsKept
<1>5. ASSUME NEW o \in Operation, ReportProgress(o) PROVE (EventsFit /\ EventOrder)'
  <2>1. CASE state[o] = "running"
    <3>1. /\ state' = [state EXCEPT ![o] = "running"] /\ queue' = Append(queue, <<o, "running">>)
          /\ UNCHANGED <<published, canceller>>
      BY <1>5, <2>1 DEF ReportProgress, QueueEvent, TypeOK
    <3>2. QED
      BY <2>1, <3>1, EventQueued, NoEndTold DEF Event, Terminal
  <2>2. CASE state[o] # "running"
    <3>1. UNCHANGED <<queue, published, state, canceller>>
      BY <1>5, <2>2 DEF ReportProgress
    <3>2. QED
      BY <3>1, EventsKept
  <2>3. QED
    BY <2>1, <2>2
<1>6. ASSUME NEW o \in Operation, SetProcess(o) PROVE (EventsFit /\ EventOrder)'
  <2>1. UNCHANGED <<queue, published, state, canceller>>
    BY <1>6 DEF SetProcess
  <2>2. QED
    BY <2>1, EventsKept
<1>7. ASSUME NEW o \in Operation, ClearProcess(o) PROVE (EventsFit /\ EventOrder)'
  <2>1. UNCHANGED <<queue, published, state, canceller>>
    BY <1>7 DEF ClearProcess
  <2>2. QED
    BY <2>1, EventsKept
<1>8. ASSUME NEW o \in Operation, SetCancelHook(o) PROVE (EventsFit /\ EventOrder)'
  <2>1. UNCHANGED <<queue, published, state, canceller>>
    BY <1>8 DEF SetCancelHook
  <2>2. QED
    BY <2>1, EventsKept
<1>9. ASSUME NEW o \in Operation, BodyReturns(o) PROVE (EventsFit /\ EventOrder)'
  <2>1. CASE Active(o)
    <3>1. PICK st \in Terminal : Become(o, st) /\ QueueEvent(Work(o), o, st)
      BY <1>9, <2>1 DEF BodyReturns, Terminal
    <3>2. /\ state' = [state EXCEPT ![o] = st] /\ queue' = Append(queue, <<o, st>>)
          /\ st \in Event /\ UNCHANGED <<published, canceller>>
      BY <1>9, <3>1 DEF BodyReturns, Become, QueueEvent, Event
    <3>3. QED
      BY <2>1, <3>2, EventQueued, NoEndTold DEF Active, Terminal
  <2>2. CASE ~Active(o)
    <3>1. UNCHANGED <<queue, published, state, canceller>>
      BY <1>9, <2>2 DEF BodyReturns
    <3>2. QED
      BY <3>1, EventsKept
  <2>3. QED
    BY <2>1, <2>2
<1>10. ASSUME NEW o \in Operation, BodyRaises(o) PROVE (EventsFit /\ EventOrder)'
  <2>1. UNCHANGED <<queue, published, state, canceller>>
    BY <1>10 DEF BodyRaises
  <2>2. QED
    BY <2>1, EventsKept
<1>11. ASSUME NEW o \in Operation, FinishFromWorker(o) PROVE (EventsFit /\ EventOrder)'
  <2>1. CASE Active(o)
    <3>1. PICK st \in Terminal : Become(o, st) /\ QueueEvent(Work(o), o, st)
      BY <1>11, <2>1 DEF FinishFromWorker, Terminal
    <3>2. /\ state' = [state EXCEPT ![o] = st] /\ queue' = Append(queue, <<o, st>>)
          /\ st \in Event /\ UNCHANGED <<published, canceller>>
      BY <1>11, <3>1 DEF FinishFromWorker, Become, QueueEvent, Event
    <3>3. QED
      BY <2>1, <3>2, EventQueued, NoEndTold DEF Active, Terminal
  <2>2. CASE ~Active(o)
    <3>1. UNCHANGED <<queue, published, state, canceller>>
      BY <1>11, <2>2 DEF FinishFromWorker
    <3>2. QED
      BY <3>1, EventsKept
  <2>3. QED
    BY <2>1, <2>2
<1>12. ASSUME NEW o \in Operation, WorkerEnds(o) PROVE (EventsFit /\ EventOrder)'
  <2>1. UNCHANGED <<queue, published, state, canceller>>
    BY <1>12 DEF WorkerEnds
  <2>2. QED
    BY <2>1, EventsKept
<1>13. ASSUME NEW o \in Operation, CancelOperation(o) PROVE (EventsFit /\ EventOrder)'
  <2>1. CASE state[o] = "queued"
    <3>1. /\ state' = [state EXCEPT ![o] = "cancelled"] /\ UNCHANGED <<queue, published>>
          /\ canceller' = [canceller EXCEPT ![o] = "announcing"]
      BY <1>13, <2>1 DEF CancelOperation, Become
    <3>2. /\ \A i \in DOMAIN published[o] : published[o][i] \notin Terminal
          /\ \A i \in DOMAIN queue : queue[i][1] = o => queue[i][2] \notin Terminal
      BY <2>1, NoEndTold DEF Terminal
    <3>3. \A p \in Operation :
            /\ p # o => state'[p] = state[p] /\ canceller'[p] = canceller[p]
            /\ p = o => state'[p] = "cancelled" /\ canceller'[p] = "announcing"
      BY <3>1 DEF TypeOK
    <3>4. EventsFit'
      <4>1. SUFFICES ASSUME NEW p \in Operation PROVE Told(p)'
        BY DEF EventsFit
      <4>2. Told(p) /\ UNCHANGED <<queue, published>>
        BY <3>1 DEF EventsFit
      <4>3. CASE p = o
        BY <2>1, <3>2, <3>3, <4>2, <4>3 DEF Told
      <4>4. CASE p # o
        BY <3>3, <4>2, <4>4 DEF Told
      <4>5. QED
        BY <4>3, <4>4
    <3>5. EventOrder'
      <4>1. SUFFICES ASSUME NEW p \in Operation
                     PROVE  /\ \A i \in DOMAIN published[p] : Published(p, i)'
                            /\ \A i \in DOMAIN queue : queue[i][1] = p => ToPublish(p, i)'
        BY <3>1 DEF EventOrder
      <4>2. /\ \A i \in DOMAIN published[p] : Published(p, i)
            /\ \A i \in DOMAIN queue : queue[i][1] = p => ToPublish(p, i)
            /\ UNCHANGED <<queue, published>>
        BY <3>1 DEF EventOrder
      <4>3. CASE p = o
        BY <3>2, <4>2, <4>3 DEF Published, ToPublish
      <4>4. CASE p # o
        BY <3>3, <4>2, <4>4 DEF Published, ToPublish
      <4>5. QED
        BY <4>3, <4>4
    <3>6. QED
      BY <3>4, <3>5
  <2>2. CASE state[o] # "queued"
    <3>1. UNCHANGED <<queue, published, state, canceller>>
      BY <1>13, <2>2 DEF CancelOperation
    <3>2. QED
      BY <3>1, EventsKept
  <2>3. QED
    BY <2>1, <2>2
<1>14. ASSUME NEW o \in Operation, CancelAnnounces(o) PROVE (EventsFit /\ EventOrder)'
  <2>1. /\ queue' = Append(queue, <<o, "cancelled">>) /\ UNCHANGED <<published, state>>
        /\ canceller' = [canceller EXCEPT ![o] = "idle"] /\ canceller[o] = "announcing"
    BY <1>14 DEF CancelAnnounces, QueueEvent
  <2>2. /\ state[o] = "cancelled"
        /\ \A i \in DOMAIN published[o] : published[o][i] \notin Terminal
        /\ \A i \in DOMAIN queue : queue[i][1] = o => queue[i][2] \notin Terminal
    BY <2>1 DEF EventsFit, Told
  <2>3. /\ state' = [state EXCEPT ![o] = "cancelled"]
        /\ \A p \in Operation : canceller'[p] = "announcing" => p # o /\ canceller[p] = "announcing"
    BY <2>1, <2>2 DEF TypeOK
  <2>4. QED
    BY <2>1, <2>2, <2>3, EventQueued DEF Event, Terminal
<1>15. CASE StopBegins
  <2>1. /\ CancelAll(Only(order, {q \in Operation : state[q] = "queued"})) /\ UNCHANGED <<published, canceller>>
        /\ {q \in Operation : state[q] = "queued"} \in SUBSET Operation /\ \A q \in {q \in Operation : state[q] = "queued"} : Active(q)
    BY <1>15 DEF StopBegins, Active
  <2>2. QED
    BY <2>1, EndsQueued
<1>16. CASE StopForces
  <2>1. /\ CancelAll(Only(order, {q \in live : Active(q)})) /\ UNCHANGED <<published, canceller>>
        /\ {q \in live : Active(q)} \in SUBSET Operation /\ \A q \in {q \in live : Active(q)} : Active(q)
    BY <1>16 DEF StopForces, TypeOK
  <2>2. QED
    BY <2>1, EndsQueued
<1>17. CASE StopCloses
  <2>1. UNCHANGED <<queue, published, state, canceller>>
    BY <1>17 DEF StopCloses
  <2>2. QED
    BY <2>1, EventsKept
<1>18. ASSUME NEW th \in Thread, Drain(th) PROVE (EventsFit /\ EventOrder)'
  <2>1. CASE queue # <<>>
    BY <1>18, <2>1, EventDelivered DEF Drain
  <2>2. CASE queue = <<>>
    <3>1. UNCHANGED <<queue, published, state, canceller>>
      BY <1>18, <2>2 DEF Drain
    <3>2. QED
      BY <3>1, EventsKept
  <2>3. QED
    BY <2>1, <2>2
<1>19. ASSUME NEW th \in Thread, Act(th) PROVE (EventsFit /\ EventOrder)'
  <2>1. UNCHANGED <<queue, published, state, canceller>>
    BY <1>19 DEF Act
  <2>2. QED
    BY <2>1, EventsKept
<1>20. CASE UNCHANGED vars
  <2>1. UNCHANGED <<queue, published, state, canceller>>
    BY <1>20 DEF vars
  <2>2. QED
    BY <2>1, EventsKept
<1>21. QED
  BY <1>1, <1>2, <1>3, <1>4, <1>5, <1>6, <1>7, <1>8, <1>9, <1>10, <1>11, <1>12, <1>13,
     <1>14, <1>15, <1>16, <1>17, <1>18, <1>19, <1>20 DEF Next, Worker, Stopper

-----------------------------------------------------------------------------
(* The theorems.                                                           *)

\* The invariant holds before anything was started.
LEMMA InitInv == Init => OperationInv
<1> SUFFICES ASSUME Init PROVE OperationInv
  OBVIOUS
<1> USE DEF Init
<1>1. /\ Len(<<>>) = 0 /\ DOMAIN <<>> = {} /\ Range(<<>>) = {}
      /\ \A S : <<>> \in Seq(S)
  BY EmptySeq DEF Range
<1>2. TypeOK
  <2>1. /\ order \in Seq(Operation) /\ retained \in Seq(Operation)
        /\ queue \in Seq(Operation \X ({"queued", "running"} \cup Terminal))
        /\ published \in [Operation -> Seq({"queued", "running"} \cup Terminal)]
    BY <1>1
  <2>2. grip \in [Thread -> [hooks : SUBSET Operation, processes : SUBSET Operation]]
    OBVIOUS
  <2>3. QED
    BY <2>1, <2>2 DEF TypeOK
<1>3. ControlFits
  BY DEF ControlFits
<1>4. OrderFits
  BY <1>1 DEF OrderFits, IsInjective
<1>5. StopFits
  BY DEF StopFits, NoGrip, Thread
<1>6. DrainFits
  BY DEF DrainFits
<1>7. HooksFit /\ CancelReaches /\ NoResidue
  BY DEF HooksFit, CancelReaches, NoResidue
<1>12. OffersFit
  BY DEF OffersFit, Held, Busy
<1>8. EventsFit /\ EventOrder
  BY <1>1 DEF EventsFit, Told, EventOrder
<1>9. RetentionExact
  BY <1>1, OperationAssumption DEF RetentionExact
<1>10. StoppedMeansSettled
  BY DEF StoppedMeansSettled
<1>11. QED
  BY <1>2, <1>3, <1>4, <1>5, <1>6, <1>7, <1>8, <1>9, <1>10, <1>12 DEF OperationInv

\* The invariant is inductive.
LEMMA StepInv == OperationInv /\ [Next]_vars => OperationInv'
<1> SUFFICES ASSUME OperationInv, [Next]_vars PROVE OperationInv'
  OBVIOUS
<1>1. TypeOK'
  BY TypeStep
<1>2. ControlFits' /\ StopFits' /\ StoppedMeansSettled'
  BY ControlStep
<1>3. OrderFits' /\ RetentionExact'
  BY OrderStep
<1>4. DrainFits'
  BY <1>1, DrainStep
<1>5. HooksFit' /\ CancelReaches' /\ NoResidue'
  BY <1>1, HooksStep
<1>6. EventsFit' /\ EventOrder'
  BY <1>1, EventsStep
<1>8. OffersFit'
  BY <1>1, OffersStep
<1>7. QED
  BY <1>1, <1>2, <1>3, <1>4, <1>5, <1>6, <1>8 DEF OperationInv

\* The invariant always holds.
THEOREM OperationInvariant == Spec => []OperationInv
  BY InitInv, StepInv, PTL DEF Spec

\* Whichever comes first, the cancel or the registration, a registered process
\* of a cancelled operation is terminated or some thread holds it to terminate
\* it (cancel_operation, set_operation_process).
THEOREM CancelReachesAlways == Spec => []CancelReaches
<1>1. OperationInv => CancelReaches
  BY DEF OperationInv
<1>2. QED
  BY <1>1, OperationInvariant, PTL

\* A hook that was accepted is called once if a cancellation of its operation
\* was requested, or a thread holds it to call it, and never without a request:
\* whatever the order of registration, cancel, shutdown and the worker's end
\* (set_cancel_hook, cancel_operation, shutdown).
THEOREM HookReachedAlways == Spec => []HookReached
<1>1. OperationInv => HookReached
  <2> SUFFICES ASSUME OperationInv, NEW o \in Operation
               PROVE  /\ hookRuns[o] <= 1
                      /\ hookRuns[o] > 0 => o \in cancelAsked
                      /\ o \in cancelReq => o \notin hook
                      /\ offer[o] = "kept" /\ o \in cancelAsked => hookRuns[o] = 1 \/ Held(o)
    BY DEF HookReached, Held
  <2>1. TypeOK /\ HooksFit /\ OffersFit /\ NoResidue
    BY DEF OperationInv
  <2>2. ASSUME offer[o] = "kept", o \in cancelAsked, o \in hook PROVE FALSE
    <3>1. worker[o] \in Busy \cup {"dead"}
      BY <2>1, <2>2 DEF TypeOK, OffersFit, Busy
    <3>2. worker[o] # "dead"
      BY <2>1, <2>2 DEF NoResidue
    <3>3. o \in cancelReq
      BY <2>1, <2>2, <3>1, <3>2 DEF OffersFit
    <3>4. QED
      BY <2>1, <2>2, <3>3 DEF HooksFit
  <2>3. hookRuns[o] \in Nat
    BY <2>1 DEF TypeOK
  <2>4. QED
    BY <2>1, <2>2, <2>3 DEF HooksFit, OffersFit
<1>2. QED
  BY <1>1, OperationInvariant, PTL

\* At most one thread is in _drain_events, and one is while the runtime is open
\* and events wait.
LEMMA DrainFitsMeansOne == DrainFits => OneDrainer
<1> SUFFICES ASSUME DrainFits PROVE OneDrainer
  OBVIOUS
<1>1. CASE drainers = {}
  BY <1>1, FS_EmptySet DEF OneDrainer, DrainFits
<1>2. CASE drainers # {}
  <2>1. PICK th \in drainers : drainers = {th}
    BY <1>2 DEF DrainFits
  <2>2. Cardinality(drainers) = 1
    BY <2>1, FS_Singleton
  <2>3. QED
    BY <1>2, <2>2 DEF OneDrainer
<1>3. QED
  BY <1>1, <1>2

\* The records and the tables are sound: one thread drains the events, which
\* reach the observers in order with one final state, a finished worker leaves
\* nothing behind, retention drops no active operation, and shutdown() leaves
\* none active.
THEOREM RecordsSoundAlways == Spec => []RecordsSound
<1>1. OperationInv => RecordsSound
  BY DrainFitsMeansOne DEF OperationInv, RecordsSound
<1>2. QED
  BY <1>1, OperationInvariant, PTL
=============================================================================
