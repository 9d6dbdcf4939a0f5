------------------------ MODULE ForwardRuntimeProofs ------------------------
(***************************************************************************)
(* Theorems about the forward runtime, for any set of forwards, any         *)
(* retention and any capacity of the executor: no process without a keeper, *)
(* truthful records, and final states that are final.                       *)
(***************************************************************************)
EXTENDS ForwardRuntime, SelectionTheorems

\* The table names every record once.
OrderFits ==
    /\ IsInjective(order)
    /\ \A f \in Stored : state[f] # "absent"

\* A lane holds the start of its forward, its close, or both in this order, and
\* the control point of the worker belongs to the first of them.  A close is
\* asked once, and submitted before the daemon stops.
Lanes == {<<>>, <<"start">>, <<"close">>, <<"start", "close">>}
Launching == {"launching", "spawning"}
Launched  == {"registering", "storing", "detecting", "proven"}
LaneOf(f) ==
    /\ lane[f] \in Lanes
    /\ step[f] \in Launching \cup Launched =>
         lane[f] \in {<<"start">>, <<"start", "close">>}
    /\ step[f] = "signalling" => lane[f] = <<"close">>
    /\ f \in submitting => f \in scheduled /\ lane[f] \in {<<>>, <<"start">>}
    /\ lane[f] \in {<<"close">>, <<"start", "close">>} => f \in scheduled
    /\ state[f] = "absent" =>
         lane[f] = <<>> /\ step[f] = "idle" /\ f \notin scheduled
LaneFits ==
    /\ closer # "serving" => submitting = {}
    /\ \A f \in Forward : LaneOf(f)

\* The commands of a forward that wait or run.
HasStart(f) == lane[f] \in {<<"start">>, <<"start", "close">>}
HasClose(f) == lane[f] \in {<<"close">>, <<"start", "close">>}

\* A forward has a child from the spawn on, and its reaper waits as long as the
\* child lives; what _fail let go is over, and so is what the reaper is done
\* with.
ChildOf(f) ==
    /\ state[f] = "absent" => proc[f] = "none"
    /\ HasStart(f) /\ step[f] \notin Launched => proc[f] = "none"
    /\ step[f] \in Launched => proc[f] # "none"
    /\ state[f] = "active" => proc[f] # "none"
    /\ reaper[f] = "waiting" <=> proc[f] # "dead"
    /\ reaper[f] = "done" => state[f] \in Over
    /\ f \in dropped => state[f] \in Over

\* A live child is in the hands of its start, of an open record, or let go.
KeeperOf(f) ==
    proc[f] = "alive" =>
       \/ step[f] \in {"registering", "storing"}
       \/ f \in handle /\ state[f] # "closed"
       \/ f \in dropped

\* While the daemon serves, a forward that is CLOSING and has or may yet have a
\* child also has a close to come.
CloseOf(f) ==
    /\ state[f] = "closing" /\ closer = "serving"
    /\ proc[f] = "alive" \/ HasStart(f)
    => f \in submitting \/ HasClose(f)

ProcessFits == \A f \in Forward : ChildOf(f) /\ KeeperOf(f) /\ CloseOf(f)

\* The selector thread submits one close at a time, and shutdown() signals the
\* first of the forwards it has still to close.
SelectorFits ==
    /\ \A f, h \in submitting : f = h
    /\ closer = "signalling" => walk # <<>>

\* The inductive invariant.
ForwardInv ==
    /\ TypeOK /\ RetentionExact /\ OrderFits /\ LaneFits
    /\ ProcessFits /\ SelectorFits

-----------------------------------------------------------------------------
(* The operators the actions are built from.                               *)

\* The lanes that occur, and what starting, submitting and returning make of
\* them.
LEMMA LaneFacts ==
    /\ \A l \in Lanes : l \in Seq({"start", "close"})
    /\ Append(<<>>, "start") = <<"start">> /\ Append(<<>>, "close") = <<"close">>
    /\ Append(<<"start">>, "close") = <<"start", "close">>
    /\ Head(<<"start">>) = "start" /\ Head(<<"close">>) = "close"
    /\ Head(<<"start", "close">>) = "start"
    /\ Tail(<<"start">>) = <<>> /\ Tail(<<"close">>) = <<>>
    /\ Tail(<<"start", "close">>) = <<"close">>
    /\ SubSeq(<<"start">>, 1, 1) = <<"start">> /\ SubSeq(<<"close">>, 1, 1) = <<"close">>
    /\ SubSeq(<<"start", "close">>, 1, 1) = <<"start">>
    /\ Range(<<>>) = {} /\ Range(<<"start">>) = {"start"} /\ Range(<<"close">>) = {"close"}
    /\ Range(<<"start", "close">>) = {"start", "close"}
    /\ <<>> # <<"start">> /\ <<>> # <<"close">> /\ <<>> # <<"start", "close">>
    /\ <<"start">> # <<"close">> /\ <<"start">> # <<"start", "close">>
    /\ <<"close">> # <<"start", "close">>
<1>1. \A l \in Lanes : l \in Seq({"start", "close"})
  <2>1. /\ <<>> \in Seq({"start", "close"}) /\ <<"start">> \in Seq({"start", "close"})
        /\ <<"close">> \in Seq({"start", "close"})
    OBVIOUS
  <2>2. <<"start", "close">> \in Seq({"start", "close"})
    OBVIOUS
  <2>3. QED
    BY <2>1, <2>2 DEF Lanes
<1>2. /\ Append(<<>>, "start") = <<"start">> /\ Append(<<>>, "close") = <<"close">>
      /\ Append(<<"start">>, "close") = <<"start", "close">>
  <2>1. /\ Append(<<>>, "start") = <<"start">> /\ Append(<<>>, "close") = <<"close">>
    OBVIOUS
  <2>2. Append(<<"start">>, "close") = <<"start", "close">>
    <3>1. <<"start">> \in Seq({"start", "close"}) /\ "close" \in {"start", "close"}
      OBVIOUS
    <3>2. /\ Append(<<"start">>, "close") \in Seq({"start", "close"})
          /\ Len(Append(<<"start">>, "close")) = 2
          /\ Append(<<"start">>, "close")[1] = "start"
          /\ Append(<<"start">>, "close")[2] = "close"
      BY <3>1, AppendProperties
    <3>3. <<"start", "close">> \in Seq({"start", "close"}) /\ Len(<<"start", "close">>) = 2
      OBVIOUS
    <3>4. \A i \in 1..2 : Append(<<"start">>, "close")[i] = <<"start", "close">>[i]
      BY <3>2
    <3>5. QED
      BY <3>2, <3>3, <3>4, SeqEqual, Zenon
  <2>3. QED
    BY <2>1, <2>2
<1>3. /\ Head(<<"start">>) = "start" /\ Head(<<"close">>) = "close"
      /\ Head(<<"start", "close">>) = "start"
      /\ Tail(<<"start">>) = <<>> /\ Tail(<<"close">>) = <<>>
      /\ Tail(<<"start", "close">>) = <<"close">>
  OBVIOUS
<1>4. /\ SubSeq(<<"start">>, 1, 1) = <<"start">> /\ SubSeq(<<"close">>, 1, 1) = <<"close">>
      /\ SubSeq(<<"start", "close">>, 1, 1) = <<"start">>
  <2>1. ASSUME NEW l \in {<<"start">>, <<"close">>, <<"start", "close">>}
        PROVE  SubSeq(l, 1, 1) = <<l[1]>>
    <3>1. \A i \in 1..1 : l[i] \in {l[1]}
      OBVIOUS
    <3>2. /\ SubSeq(l, 1, 1) \in Seq({l[1]}) /\ Len(SubSeq(l, 1, 1)) = 1
      BY <3>1, SubSeqProperties
    <3>3. SubSeq(l, 1, 1)[1] = l[1]
      BY <3>2, ElementOfSeq
    <3>4. <<l[1]>> \in Seq({l[1]}) /\ Len(<<l[1]>>) = 1 /\ <<l[1]>>[1] = l[1]
      OBVIOUS
    <3>5. \A i \in 1..1 : SubSeq(l, 1, 1)[i] = <<l[1]>>[i]
      BY <3>3, <3>4
    <3>6. QED
      BY <3>2, <3>4, <3>5, SeqEqual, Zenon
  <2>2. QED
    BY <2>1
<1>5. /\ Range(<<>>) = {} /\ Range(<<"start">>) = {"start"} /\ Range(<<"close">>) = {"close"}
      /\ Range(<<"start", "close">>) = {"start", "close"}
  BY DEF Range
<1>6. /\ <<>> # <<"start">> /\ <<>> # <<"close">> /\ <<>> # <<"start", "close">>
      /\ <<"start">> # <<"close">> /\ <<"start">> # <<"start", "close">>
      /\ <<"close">> # <<"start", "close">>
  OBVIOUS
<1>7. QED
  BY <1>1, <1>2, <1>3, <1>4, <1>5, <1>6

\* Records that neither end in CLOSED nor appear or go keep the table as it
\* should be.
LEMMA RecordsKept ==
    ASSUME TypeOK, OrderFits, RetentionExact, order' = order,
           \A f \in Forward : state'[f] = "closed" <=> state[f] = "closed",
           \A f \in Forward : state'[f] = "absent" <=> state[f] = "absent"
    PROVE  order' \in Seq(Forward) /\ OrderFits' /\ RetentionExact' /\ EvictsOldest
<1>1. Stored' = Stored /\ Stored \subseteq Forward
  BY RangeOfSeq DEF Stored, TypeOK
<1>2. {f \in Stored' : state'[f] = "closed"} = {f \in Stored : state[f] = "closed"}
  BY <1>1
<1>3. Cardinality({f \in Stored' : state'[f] = "closed"}) <= MaxRetained
  BY <1>2 DEF RetentionExact
<1>4. EvictsOldest
  BY <1>1 DEF EvictsOldest
<1>5. QED
  BY <1>1, <1>3, <1>4 DEF TypeOK, OrderFits, RetentionExact

\* A transition changes one record, and closing one drops closed ones only.
LEMMA TransitionFacts ==
    ASSUME TypeOK, OrderFits, RetentionExact, NEW f \in Forward, f \in Stored,
           state[f] # "closed", NEW s \in States \ {"absent"}, Transition(f, s)
    PROVE  order' \in Seq(Forward) /\ OrderFits' /\ RetentionExact' /\ EvictsOldest
<1>1. /\ state' = [state EXCEPT ![f] = s] /\ state[f] # "absent"
      /\ \A g \in Forward : state'[g] = "absent" <=> state[g] = "absent"
  BY DEF Transition, TypeOK, OrderFits
<1>2. CASE s # "closed"
  <2>1. order' = order /\ \A g \in Forward : state'[g] = "closed" <=> state[g] = "closed"
    BY <1>1, <1>2 DEF Transition, TypeOK
  <2>2. QED
    BY <1>1, <2>1, RecordsKept
<1>3. CASE s = "closed"
  <2> DEFINE C == {g \in Forward : state'[g] = "closed"}
  <2>1. order' = Trimmed(order, C, MaxRetained)
    BY <1>3 DEF Transition, Evict
  <2>2. order \in Seq(Forward) /\ IsInjective(order) /\ MaxRetained \in Nat
    BY ForwardAssumption DEF TypeOK, OrderFits
  <2> HIDE DEF C
  <2>3. /\ order' \in Seq(Forward) /\ IsInjective(order') /\ Range(order') \subseteq Range(order)
        /\ Range(order) \ C \subseteq Range(order')
        /\ Cardinality(Range(order') \cap C) <= MaxRetained
        /\ \A x \in Range(order) \ Range(order') : Cardinality(Range(order') \cap C) = MaxRetained
        /\ \A x \in Range(order') \cap C, y \in C : Before(order, x, y) => y \in Range(order')
        /\ \A x, y \in Range(order') : Before(order, x, y) => Before(order', x, y)
    BY <2>1, <2>2, TrimmedProperties
  <2>4. Range(order') \subseteq Forward
    BY <2>3, RangeOfSeq
  <2>5. {g \in Stored' : state'[g] = "closed"} = Range(order') \cap C
    BY <2>4 DEF Stored, C
  <2>6. OrderFits'
    BY <1>1, <2>3, <2>4 DEF OrderFits, Stored
  <2>7. ASSUME NEW g \in Forward, state'[g] \notin {"absent", "closed"} PROVE g \in Stored'
    <3>1. state[g] = state'[g]
      BY <1>1, <1>3, <2>7 DEF TypeOK
    <3>2. g \in Range(order) \ C
      BY <2>7, <3>1 DEF RetentionExact, C, Stored
    <3>3. QED
      BY <2>3, <3>2 DEF Stored
  <2>8. RetentionExact'
    BY <2>3, <2>5, <2>7 DEF RetentionExact
  <2>9. EvictsOldest
    <3>1. Stored \ Stored' # {} => Cardinality({g \in Stored' : state'[g] = "closed"}) = MaxRetained
      BY <2>3, <2>5 DEF Stored
    <3>2. \A g \in Stored \ Stored' : g \in C
      BY <2>3 DEF Stored
    <3>3. ASSUME NEW g \in Stored \ Stored', NEW h \in Stored, state'[h] = "closed",
                 Before(order, h, g)
          PROVE  h \in Stored \ Stored'
      <4>1. h \in C
        BY <2>2, <3>3, RangeOfSeq DEF C, Stored
      <4>2. QED
        BY <2>3, <3>2, <3>3, <4>1 DEF Stored
    <3>4. QED
      BY <2>3, <3>1, <3>2, <3>3 DEF EvictsOldest, Stored, C
  <2>10. QED
    BY <2>3, <2>6, <2>8, <2>9
<1>4. QED
  BY <1>2, <1>3

-----------------------------------------------------------------------------
(* Each step preserves each part of the invariant.                         *)

\* Every step keeps the table of the records and its retention.
LEMMA RecordsStep ==
    ASSUME ForwardInv, [Next]_vars
    PROVE  order' \in Seq(Forward) /\ OrderFits' /\ RetentionExact' /\ EvictsOldest
<1> DEFINE TableKept == order' \in Seq(Forward) /\ OrderFits' /\ RetentionExact' /\ EvictsOldest
<1> USE DEF ForwardInv, recordVars, commandVars, childVars, requestVars, closerVars
<1>1. ASSUME NEW f \in Forward, OpenForward(f) PROVE TableKept
  <2>1. f \notin Stored /\ order' = Append(order, f) /\ state[f] = "absent"
    BY <1>1 DEF OpenForward, OrderFits
  <2>2. PICK s \in {"starting", "failed"} : state' = [state EXCEPT ![f] = s]
    BY <1>1 DEF OpenForward
  <2>3. /\ order \in Seq(Forward) /\ DOMAIN order = 1..Len(order) /\ Len(order) \in Nat
        /\ order' \in Seq(Forward)
        /\ DOMAIN order' = 1..(Len(order) + 1) /\ order'[Len(order) + 1] = f
        /\ \A i \in 1..Len(order) : order'[i] = order[i]
    BY <2>1, AppendProperties, LenProperties DEF TypeOK
  <2>4. IsInjective(order')
    BY <2>1, <2>3 DEF OrderFits, IsInjective, Stored, Range
  <2>5. Stored' = Stored \cup {f} /\ Stored \subseteq Forward
    <3>1. Range(order') = Range(order) \cup {f}
      BY <2>3 DEF Range
    <3>2. QED
      BY <2>3, <3>1, RangeOfSeq DEF Stored
  <2>6. {h \in Stored' : state'[h] = "closed"} = {h \in Stored : state[h] = "closed"}
    BY <2>1, <2>2, <2>5 DEF TypeOK
  <2>7. OrderFits'
    BY <2>2, <2>4, <2>5 DEF OrderFits, TypeOK
  <2>8. \A h \in Forward : state'[h] \notin {"absent", "closed"} => h \in Stored'
    BY <2>2, <2>5 DEF RetentionExact, TypeOK
  <2>9. Cardinality({h \in Stored' : state'[h] = "closed"}) <= MaxRetained
    BY <2>6 DEF RetentionExact
  <2>10. \A g, h \in Stored : Before(order, g, h) => Before(order', g, h)
    <3>1. \A i \in DOMAIN order : i \in DOMAIN order' /\ order'[i] = order[i]
      BY <2>3
    <3>2. QED
      BY <3>1 DEF Before
  <2>11. EvictsOldest
    BY <2>5, <2>10 DEF EvictsOldest
  <2>12. QED
    BY <2>3, <2>7, <2>8, <2>9, <2>11 DEF RetentionExact
<1>2. ASSUME NEW f \in Forward, CloseForward(f) PROVE TableKept
  <2>0. f \in Stored /\ state[f] # "closed" /\ PrepareClose(f)
    BY <1>2 DEF CloseForward
  <2>1. CASE state[f] = "failed" /\ f \notin handle
    <3>1. Transition(f, "closed")
      BY <2>0, <2>1 DEF PrepareClose
    <3>2. QED
      BY <2>0, <3>1, TransitionFacts DEF States, Over
  <2>2. CASE state[f] \in {"starting", "active"}
    <3>1. Transition(f, "closing")
      BY <2>0, <2>2 DEF PrepareClose
    <3>2. QED
      BY <2>0, <3>1, TransitionFacts DEF States
  <2>3. CASE order' = order /\ state' = state
    BY <2>3, RecordsKept
  <2>4. QED
    BY <2>0, <2>1, <2>2, <2>3 DEF PrepareClose
<1>3. ASSUME NEW f \in Forward, CloseSubmitted(f) PROVE TableKept
  <2>1. order' = order /\ state' = state
    BY <1>3 DEF CloseSubmitted
  <2>2. QED
    BY <2>1, RecordsKept
<1>4. ASSUME NEW f \in Forward, CloseRejected(f) PROVE TableKept
  <2>1. CASE f \in Stored /\ state[f] = "closing"
    <3>1. Transition(f, "failed")
      BY <1>4, <2>1 DEF CloseRejected, RejectClose
    <3>2. f \in Stored /\ state[f] # "closed"
      BY <2>1 DEF RetentionExact, Over
    <3>3. QED
      BY <3>1, <3>2, TransitionFacts DEF States, Over
  <2>2. CASE ~(f \in Stored /\ state[f] = "closing")
    <3>1. order' = order /\ state' = state
      BY <1>4, <2>2 DEF CloseRejected, RejectClose
    <3>2. QED
      BY <3>1, RecordsKept
  <2>3. QED
    BY <2>1, <2>2
<1>5. ASSUME NEW f \in Forward, StartReturnsEarly(f) PROVE TableKept
  <2>1. order' = order /\ state' = state
    BY <1>5 DEF StartReturnsEarly
  <2>2. QED
    BY <2>1, RecordsKept
<1>6. ASSUME NEW f \in Forward, StartBegins(f) PROVE TableKept
  <2>1. order' = order /\ state' = state
    BY <1>6 DEF StartBegins
  <2>2. QED
    BY <2>1, RecordsKept
<1>7. ASSUME NEW f \in Forward, StartFails(f) PROVE TableKept
  <2>1. CASE Fail(f)
    <3>1. state[f] # "absent"
      BY <1>7 DEF StartFails, Runs, LaneFits, LaneOf, ProcessFits, ChildOf, HasStart
    <3>2. CASE state[f] \in Over
      <4>1. order' = order /\ state' = state
        BY <2>1, <3>2 DEF Fail
      <4>2. QED
        BY <4>1, RecordsKept
    <3>3. CASE state[f] \notin Over
      <4>1. Transition(f, "failed") /\ f \in Stored /\ state[f] # "closed"
        BY <2>1, <3>1, <3>3 DEF Fail, RetentionExact, Over
      <4>2. QED
        BY <4>1, TransitionFacts DEF States, Over
    <3>4. QED
      BY <3>2, <3>3
  <2>2. CASE order' = order /\ state' = state
    BY <2>2, RecordsKept
  <2>3. QED
    BY <1>7, <2>1, <2>2 DEF StartFails
<1>8. ASSUME NEW f \in Forward, RunnerIsOpen(f) PROVE TableKept
  <2>1. order' = order /\ state' = state
    BY <1>8 DEF RunnerIsOpen
  <2>2. QED
    BY <2>1, RecordsKept
<1>9. ASSUME NEW f \in Forward, StartSpawns(f) PROVE TableKept
  <2>1. order' = order /\ state' = state
    BY <1>9 DEF StartSpawns
  <2>2. QED
    BY <2>1, RecordsKept
<1>10. ASSUME NEW f \in Forward, StartRegisters(f) PROVE TableKept
  <2>1. CASE Fail(f)
    <3>1. state[f] # "absent"
      BY <1>10 DEF StartRegisters, Runs, LaneFits, LaneOf, ProcessFits, ChildOf, HasStart
    <3>2. CASE state[f] \in Over
      <4>1. order' = order /\ state' = state
        BY <2>1, <3>2 DEF Fail
      <4>2. QED
        BY <4>1, RecordsKept
    <3>3. CASE state[f] \notin Over
      <4>1. Transition(f, "failed") /\ f \in Stored /\ state[f] # "closed"
        BY <2>1, <3>1, <3>3 DEF Fail, RetentionExact, Over
      <4>2. QED
        BY <4>1, TransitionFacts DEF States, Over
    <3>4. QED
      BY <3>2, <3>3
  <2>2. CASE order' = order /\ state' = state
    BY <2>2, RecordsKept
  <2>3. QED
    BY <1>10, <2>1, <2>2 DEF StartRegisters
<1>11. ASSUME NEW f \in Forward, StartStores(f) PROVE TableKept
  <2>1. order' = order /\ state' = state
    BY <1>11 DEF StartStores
  <2>2. QED
    BY <2>1, RecordsKept
<1>12. ASSUME NEW f \in Forward, DetectFails(f) PROVE TableKept
  <2>1. CASE Fail(f)
    <3>1. state[f] # "absent"
      BY <1>12 DEF DetectFails, Runs, LaneFits, LaneOf, ProcessFits, ChildOf, HasStart
    <3>2. CASE state[f] \in Over
      <4>1. order' = order /\ state' = state
        BY <2>1, <3>2 DEF Fail
      <4>2. QED
        BY <4>1, RecordsKept
    <3>3. CASE state[f] \notin Over
      <4>1. Transition(f, "failed") /\ f \in Stored /\ state[f] # "closed"
        BY <2>1, <3>1, <3>3 DEF Fail, RetentionExact, Over
      <4>2. QED
        BY <4>1, TransitionFacts DEF States, Over
    <3>4. QED
      BY <3>2, <3>3
  <2>2. CASE order' = order /\ state' = state
    BY <2>2, RecordsKept
  <2>3. QED
    BY <1>12, <2>1, <2>2 DEF DetectFails
<1>13. ASSUME NEW f \in Forward, DetectSucceeds(f) PROVE TableKept
  <2>1. order' = order /\ state' = state
    BY <1>13 DEF DetectSucceeds
  <2>2. QED
    BY <2>1, RecordsKept
<1>14. ASSUME NEW f \in Forward, StartActivates(f) PROVE TableKept
  <2>1. CASE state[f] = "starting"
    <3>1. Transition(f, "active")
      BY <1>14, <2>1 DEF StartActivates
    <3>2. f \in Stored /\ state[f] # "closed"
      BY <2>1 DEF RetentionExact, Over
    <3>3. QED
      BY <3>1, <3>2, TransitionFacts DEF States, Over
  <2>2. CASE ~(state[f] = "starting")
    <3>1. order' = order /\ state' = state
      BY <1>14, <2>2 DEF StartActivates
    <3>2. QED
      BY <3>1, RecordsKept
  <2>3. QED
    BY <2>1, <2>2
<1>15. ASSUME NEW f \in Forward, CloseReturnsEarly(f) PROVE TableKept
  <2>1. order' = order /\ state' = state
    BY <1>15 DEF CloseReturnsEarly
  <2>2. QED
    BY <2>1, RecordsKept
<1>16. ASSUME NEW f \in Forward, CloseBegins(f) PROVE TableKept
  <2>1. f \in Forward /\ f \in Stored /\ CloseId(f)
    BY <1>16, HeadTailProperties DEF CloseBegins, TypeOK
  <2>2. CASE state[f] = "failed" /\ f \notin handle
    <3>1. Transition(f, "closed")
      BY <2>1, <2>2 DEF CloseId
    <3>2. QED
      BY <2>1, <2>2, <3>1, TransitionFacts DEF States, Over
  <2>3. CASE state[f] \in {"starting", "active"}
    <3>1. Transition(f, "closing")
      BY <2>1, <2>3 DEF CloseId
    <3>2. QED
      BY <2>1, <2>3, <3>1, TransitionFacts DEF States
  <2>4. CASE order' = order /\ state' = state
    BY <2>4, RecordsKept
  <2>5. QED
    BY <2>1, <2>2, <2>3, <2>4 DEF CloseId
<1>17. ASSUME NEW f \in Forward, CloseSignals(f) PROVE TableKept
  <2>1. order' = order /\ state' = state
    BY <1>17 DEF CloseSignals
  <2>2. QED
    BY <2>1, RecordsKept
<1>18. ASSUME NEW f \in Forward, ChildExits(f) PROVE TableKept
  <2>1. order' = order /\ state' = state
    BY <1>18 DEF ChildExits
  <2>2. QED
    BY <2>1, RecordsKept
<1>19. ASSUME NEW f \in Forward, Unregister(f) PROVE TableKept
  <2>1. order' = order /\ state' = state
    BY <1>19 DEF Unregister
  <2>2. QED
    BY <2>1, RecordsKept
<1>20. ASSUME NEW f \in Forward, OnProcessExit(f) PROVE TableKept
  <2>1. CASE f \in Stored /\ state[f] = "closing" /\ Transition(f, "closed")
    BY <2>1, TransitionFacts DEF States, Over
  <2>2. CASE order' = order /\ state' = state
    BY <2>2, RecordsKept
  <2>3. QED
    BY <1>20, <2>1, <2>2 DEF OnProcessExit
<1>21. ASSUME NEW f \in Forward, ExitFails(f) PROVE TableKept
  <2>1. CASE Fail(f)
    <3>1. state[f] # "absent"
      BY <1>21 DEF ExitFails, Runs, LaneFits, LaneOf, ProcessFits, ChildOf, HasStart
    <3>2. CASE state[f] \in Over
      <4>1. order' = order /\ state' = state
        BY <2>1, <3>2 DEF Fail
      <4>2. QED
        BY <4>1, RecordsKept
    <3>3. CASE state[f] \notin Over
      <4>1. Transition(f, "failed") /\ f \in Stored /\ state[f] # "closed"
        BY <2>1, <3>1, <3>3 DEF Fail, RetentionExact, Over
      <4>2. QED
        BY <4>1, TransitionFacts DEF States, Over
    <3>4. QED
      BY <3>2, <3>3
  <2>2. CASE order' = order /\ state' = state
    BY <2>2, RecordsKept
  <2>3. QED
    BY <1>21, <2>1, <2>2 DEF ExitFails
<1>22. CASE StopExecutor
  <2>1. order' = order
    BY <1>22 DEF StopExecutor
  <2>2. PICK cut \in SUBSET {h \in Forward : lane[h] # <<>>} :
          state' = [h \in Forward |-> IF h \in cut /\ state[h] \notin Over THEN "failed" ELSE state[h]]
    <3>1. \A h \in Forward : "start" \in Range(lane[h]) => lane[h] # <<>>
      BY LaneFacts
    <3>2. PICK held \in SUBSET {h \in Forward : lane[h] # <<>> /\ step[h] = "idle"} :
            LET kept == held \cup {h \in Forward : step[h] # "idle"}
                cut == {h \in Forward \ kept : "start" \in Range(lane[h])}
            IN  state' = [h \in Forward |->
                            IF h \in cut /\ state[h] \notin Over THEN "failed" ELSE state[h]]
      BY <1>22 DEF StopExecutor
    <3> DEFINE kept == held \cup {h \in Forward : step[h] # "idle"}
               cut == {h \in Forward \ kept : "start" \in Range(lane[h])}
    <3>3. cut \in SUBSET {h \in Forward : lane[h] # <<>>}
      BY <3>1
    <3>4. QED
      BY <3>2, <3>3
  <2>3. \A h \in Forward :
          /\ state'[h] = "closed" <=> state[h] = "closed"
          /\ state'[h] = "absent" <=> state[h] = "absent"
    BY <2>2 DEF LaneFits, LaneOf, Over
  <2>4. QED
    BY <2>1, <2>3, RecordsKept
<1>23. CASE ShutdownBegins
  <2>1. order' = order /\ state' = state
    BY <1>23 DEF ShutdownBegins
  <2>2. QED
    BY <2>1, RecordsKept
<1>24. CASE ShutdownCloses
  <2>1. Head(walk) \in Forward /\ Head(walk) \in Stored /\ CloseId(Head(walk))
    BY <1>24, HeadTailProperties DEF ShutdownCloses, TypeOK
  <2>2. CASE state[Head(walk)] = "failed" /\ Head(walk) \notin handle
    <3>1. Transition(Head(walk), "closed")
      BY <2>1, <2>2 DEF CloseId
    <3>2. QED
      BY <2>1, <2>2, <3>1, TransitionFacts DEF States, Over
  <2>3. CASE state[Head(walk)] \in {"starting", "active"}
    <3>1. Transition(Head(walk), "closing")
      BY <2>1, <2>3 DEF CloseId
    <3>2. QED
      BY <2>1, <2>3, <3>1, TransitionFacts DEF States
  <2>4. CASE order' = order /\ state' = state
    BY <2>4, RecordsKept
  <2>5. QED
    BY <2>1, <2>2, <2>3, <2>4 DEF CloseId
<1>25. CASE ShutdownSignals
  <2>1. order' = order /\ state' = state
    BY <1>25 DEF ShutdownSignals
  <2>2. QED
    BY <2>1, RecordsKept
<1>26. CASE ShutdownRaises
  <2>1. order' = order /\ state' = state
    BY <1>26 DEF ShutdownRaises
  <2>2. QED
    BY <2>1, RecordsKept
<1>27. CASE RunnerCloses
  <2>1. order' = order /\ state' = state
    BY <1>27 DEF RunnerCloses
  <2>2. QED
    BY <2>1, RecordsKept
<1>28. CASE UNCHANGED vars
  <2>1. order' = order /\ state' = state
    BY <1>28 DEF vars
  <2>2. QED
    BY <2>1, RecordsKept
<1>29. QED
  BY <1>1, <1>2, <1>3, <1>4, <1>5, <1>6, <1>7, <1>8, <1>9, <1>10, <1>11, <1>12, <1>13,
     <1>14, <1>15, <1>16, <1>17, <1>18, <1>19, <1>20, <1>21, <1>22, <1>23, <1>24, <1>25,
     <1>26, <1>27, <1>28 DEF Next, Request, Submission, Shutdown, Worker, Reaper

\* The operators change one record, one lane, one worker, and keep their types.
LEMMA OperatorTypes ==
    ASSUME TypeOK, NEW f \in Forward
    PROVE  /\ \A s \in States : Transition(f, s) =>
                state' = [state EXCEPT ![f] = s] /\ state' \in [Forward -> States]
           /\ Fail(f) =>
                /\ state' = IF state[f] \in Over THEN state ELSE [state EXCEPT ![f] = "failed"]
                /\ state' \in [Forward -> States] /\ handle' \subseteq Forward
                /\ handle' = IF state[f] \in Over THEN handle ELSE handle \ {f}
           /\ CloseId(f) =>
                /\ \/ state' = state
                   \/ state' = [state EXCEPT ![f] = "closed"] /\ state[f] = "failed" /\ f \notin handle
                   \/ state' = [state EXCEPT ![f] = "closing"] /\ state[f] \in {"starting", "active"}
                /\ state' \in [Forward -> States]
           /\ lane[f] # <<>> /\ Returns(f) =>
                /\ lane' = [lane EXCEPT ![f] = Tail(lane[f])] /\ step' = [step EXCEPT ![f] = "idle"]
                /\ lane' \in [Forward -> Seq({"start", "close"})]
           /\ Signal({f}) =>
                /\ proc' \in [Forward -> {"none", "alive", "signalled", "dead"}]
                /\ \A h \in Forward :
                     proc'[h] = proc[h] \/ (h = f /\ proc[h] = "alive" /\ proc'[h] = "signalled")
                /\ proc'[f] # "alive"
<1>1. \A s \in States : Transition(f, s) =>
         state' = [state EXCEPT ![f] = s] /\ state' \in [Forward -> States]
  BY DEF Transition, TypeOK
<1>2. "failed" \in States /\ "closed" \in States /\ "closing" \in States
  BY DEF States, Over
<1>3. Fail(f) => /\ state' = IF state[f] \in Over THEN state ELSE [state EXCEPT ![f] = "failed"]
                 /\ state' \in [Forward -> States] /\ handle' \subseteq Forward
                 /\ handle' = IF state[f] \in Over THEN handle ELSE handle \ {f}
  BY <1>1, <1>2 DEF Fail, TypeOK, recordVars
<1>4. CloseId(f) =>
        /\ \/ state' = state
           \/ state' = [state EXCEPT ![f] = "closed"] /\ state[f] = "failed" /\ f \notin handle
           \/ state' = [state EXCEPT ![f] = "closing"] /\ state[f] \in {"starting", "active"}
        /\ state' \in [Forward -> States]
  BY <1>1, <1>2 DEF CloseId, TypeOK
<1>5. lane[f] # <<>> /\ Returns(f) =>
        /\ lane' = [lane EXCEPT ![f] = Tail(lane[f])] /\ step' = [step EXCEPT ![f] = "idle"]
        /\ lane' \in [Forward -> Seq({"start", "close"})]
  <2>1. lane[f] \in Seq({"start", "close"})
    BY DEF TypeOK
  <2>2. lane[f] # <<>> => Tail(lane[f]) \in Seq({"start", "close"})
    BY <2>1, HeadTailProperties
  <2>3. QED
    BY <2>2 DEF Returns, TypeOK
<1>6. Signal({f}) =>
        /\ proc' \in [Forward -> {"none", "alive", "signalled", "dead"}]
        /\ \A h \in Forward :
             proc'[h] = proc[h] \/ (h = f /\ proc[h] = "alive" /\ proc'[h] = "signalled")
        /\ proc'[f] # "alive"
  BY DEF Signal, TypeOK
<1>7. QED
  BY <1>1, <1>3, <1>4, <1>5, <1>6

\* A step on one forward leaves the lanes of the others alone.
LEMMA LaneFrame ==
    ASSUME ForwardInv, NEW f \in Forward, LaneOf(f)',
           closer' # "serving" => submitting' = {},
           \A h \in Forward \ {f} :
              /\ lane'[h] = lane[h] /\ step'[h] = step[h] /\ state'[h] = state[h]
              /\ h \in submitting' => h \in submitting
              /\ h \in scheduled' <=> h \in scheduled
    PROVE  LaneFits'
<1>1. ASSUME NEW h \in Forward \ {f} PROVE LaneOf(h)'
  BY DEF ForwardInv, LaneFits, LaneOf
<1>2. QED
  BY <1>1 DEF LaneFits

\* So does the return of a worker, which leaves its lane to the next command.
LEMMA LaneReturns ==
    ASSUME ForwardInv, NEW f \in Forward, lane[f] # <<>>, Returns(f),
           UNCHANGED <<closer, submitting, scheduled>>,
           \A h \in Forward : state'[h] = "absent" => state[h] = "absent",
           \A h \in Forward \ {f} : state'[h] = state[h]
    PROVE  LaneFits'
<1> USE DEF ForwardInv
<1>1. lane' = [lane EXCEPT ![f] = Tail(lane[f])] /\ step' = [step EXCEPT ![f] = "idle"]
  BY OperatorTypes
<1>2. lane'[f] = Tail(lane[f]) /\ step'[f] = "idle" /\ LaneOf(f)
  BY <1>1 DEF TypeOK, LaneFits
<1>3. \/ lane[f] \in {<<"start">>, <<"close">>} /\ lane'[f] = <<>>
      \/ lane[f] = <<"start", "close">> /\ lane'[f] = <<"close">>
  BY <1>2, LaneFacts DEF LaneOf, Lanes
<1>4. LaneOf(f)'
  BY <1>2, <1>3, LaneFacts DEF LaneOf, Lanes, Launching, Launched
<1>5. \A h \in Forward \ {f} : lane'[h] = lane[h] /\ step'[h] = step[h]
  BY <1>1 DEF TypeOK
<1>6. QED
  BY <1>4, <1>5, LaneFrame DEF LaneFits

\* Every step keeps the lanes as they should be.
LEMMA LaneStep ==
    ASSUME ForwardInv, [Next]_vars
    PROVE  LaneFits'
<1> USE LaneFacts DEF ForwardInv, recordVars, commandVars, childVars, requestVars, closerVars
<1>1. ASSUME NEW f \in Forward, OpenForward(f) PROVE LaneFits'
  <2>1. /\ closer = "serving" /\ closer' = closer /\ submitting' = submitting /\ submitting = {}
        /\ scheduled' = scheduled /\ step' = step /\ state[f] = "absent" /\ LaneOf(f)
    BY <1>1 DEF OpenForward, SelectorServes, LaneFits
  <2>2. lane' = lane \/ lane' = [lane EXCEPT ![f] = <<"start">>]
    BY <1>1, <2>1 DEF OpenForward, Submit, LaneOf, TypeOK
  <2>3. PICK s \in {"starting", "failed"} : state' = [state EXCEPT ![f] = s]
    BY <1>1 DEF OpenForward
  <2>4. LaneOf(f)'
    <3>1. lane[f] = <<>> /\ step[f] = "idle" /\ state'[f] = s /\ f \notin submitting
      BY <2>1, <2>3 DEF LaneOf, TypeOK
    <3>2. lane'[f] \in {<<>>, <<"start">>}
      BY <2>2, <3>1 DEF TypeOK
    <3>3. QED
      BY <2>1, <3>1, <3>2 DEF LaneOf, Lanes, Launching, Launched
  <2>5. QED
    BY <2>1, <2>2, <2>3, <2>4, LaneFrame DEF TypeOK
<1>2. ASSUME NEW f \in Forward, CloseForward(f) PROVE LaneFits'
  <2>1. /\ closer = "serving" /\ closer' = closer /\ submitting = {}
        /\ lane' = lane /\ step' = step /\ f \notin scheduled /\ state[f] # "absent" /\ LaneOf(f)
    BY <1>2 DEF CloseForward, SelectorServes, OrderFits, LaneFits
  <2>2. PrepareClose(f)
    BY <1>2 DEF CloseForward
  <2>3. CASE state[f] = "failed" /\ f \notin handle
    <3>1. scheduled' = scheduled /\ submitting' = submitting /\ state' = [state EXCEPT ![f] = "closed"]
      BY <2>2, <2>3 DEF PrepareClose, Transition
    <3>2. QED
      BY <2>1, <3>1 DEF LaneFits, LaneOf, Lanes, Launching, Launched, TypeOK
  <2>4. CASE ~(state[f] = "failed" /\ f \notin handle)
    <3>1. scheduled' = scheduled \cup {f} /\ submitting' = {f}
      BY <2>2, <2>4 DEF PrepareClose
    <3>2. state' = state \/ state' = [state EXCEPT ![f] = "closing"]
      BY <2>2, <2>4 DEF PrepareClose, Transition
    <3>3. LaneOf(f)'
      BY <2>1, <3>1, <3>2 DEF LaneOf, Lanes, TypeOK
    <3>4. QED
      BY <2>1, <3>1, <3>2, <3>3, LaneFrame DEF TypeOK
  <2>5. QED
    BY <2>3, <2>4
<1>3. ASSUME NEW f \in Forward, CloseSubmitted(f) PROVE LaneFits'
  BY <1>3 DEF CloseSubmitted, Submit, LaneFits, LaneOf, Lanes, Launching, Launched,
     TypeOK
<1>4. ASSUME NEW f \in Forward, CloseRejected(f) PROVE LaneFits'
  BY <1>4, ZenonT(30) DEF CloseRejected, Transition, RejectClose, LaneFits, LaneOf, Lanes,
     Launching, Launched, TypeOK
<1>5. ASSUME NEW f \in Forward, StartReturnsEarly(f) PROVE LaneFits'
  BY <1>5, ZenonT(30) DEF StartReturnsEarly, Returns, Runs, LaneFits, LaneOf, Lanes, Launching,
     Launched, TypeOK
<1>6. ASSUME NEW f \in Forward, StartBegins(f) PROVE LaneFits'
  BY <1>6 DEF StartBegins, Runs, Goto, LaneFits, LaneOf, Lanes, Launching, Launched,
     TypeOK
<1>7. ASSUME NEW f \in Forward, StartFails(f) PROVE LaneFits'
  BY <1>7, ZenonT(30) DEF StartFails, Transition, Fail, Returns, Runs, LaneFits, LaneOf, Lanes,
     Launching, Launched, TypeOK
<1>8. ASSUME NEW f \in Forward, RunnerIsOpen(f) PROVE LaneFits'
  BY <1>8 DEF RunnerIsOpen, Runs, Goto, LaneFits, LaneOf, Lanes, Launching, Launched,
     TypeOK
<1>9. ASSUME NEW f \in Forward, StartSpawns(f) PROVE LaneFits'
  BY <1>9 DEF StartSpawns, Runs, Goto, LaneFits, LaneOf, Lanes, Launching, Launched,
     TypeOK
<1>10. ASSUME NEW f \in Forward, StartRegisters(f) PROVE LaneFits'
  <2>1. /\ UNCHANGED <<closer, submitting, scheduled>> /\ Runs(f, "start", "registering") /\ LaneOf(f)
    BY <1>10 DEF StartRegisters, LaneFits
  <2>2. CASE Returns(f) /\ Fail(f)
    <3>1. state' = state \/ state' = [state EXCEPT ![f] = "failed"]
      BY <2>2, OperatorTypes
    <3>2. QED
      BY <2>1, <2>2, <3>1, LaneReturns DEF TypeOK, Runs
  <2>3. CASE Goto(f, "storing") /\ state' = state
    BY <2>1, <2>3 DEF Runs, Goto, LaneFits, LaneOf, Lanes, Launching, Launched, TypeOK
  <2>4. QED
    BY <1>10, <2>2, <2>3 DEF StartRegisters
<1>11. ASSUME NEW f \in Forward, StartStores(f) PROVE LaneFits'
  <2>1. /\ UNCHANGED <<closer, submitting, scheduled, state>> /\ Runs(f, "start", "storing")
    BY <1>11 DEF StartStores
  <2>2. CASE Returns(f)
    BY <2>1, <2>2, LaneReturns DEF Runs
  <2>3. CASE Goto(f, "detecting")
    BY <2>1, <2>3 DEF Runs, Goto, LaneFits, LaneOf, Lanes, Launching, Launched, TypeOK
  <2>4. QED
    BY <1>11, <2>2, <2>3 DEF StartStores
<1>12. ASSUME NEW f \in Forward, DetectFails(f) PROVE LaneFits'
  BY <1>12, ZenonT(30) DEF DetectFails, Transition, Fail, Returns, Runs, LaneFits, LaneOf, Lanes,
     Launching, Launched, TypeOK
<1>13. ASSUME NEW f \in Forward, DetectSucceeds(f) PROVE LaneFits'
  BY <1>13 DEF DetectSucceeds, Runs, Goto, LaneFits, LaneOf, Lanes, Launching, Launched,
     TypeOK
<1>14. ASSUME NEW f \in Forward, StartActivates(f) PROVE LaneFits'
  BY <1>14, ZenonT(30) DEF StartActivates, Transition, Returns, Runs, LaneFits, LaneOf, Lanes,
     Launching, Launched, TypeOK
<1>15. ASSUME NEW f \in Forward, CloseReturnsEarly(f) PROVE LaneFits'
  BY <1>15 DEF CloseReturnsEarly, Returns, Runs, LaneFits, LaneOf, Lanes, Launching,
     Launched, TypeOK
<1>16. ASSUME NEW f \in Forward, CloseBegins(f) PROVE LaneFits'
  BY <1>16 DEF CloseBegins, Transition, Returns, Runs, Goto, CloseId, LaneFits, LaneOf,
     Lanes, Launching, Launched, TypeOK
<1>17. ASSUME NEW f \in Forward, CloseSignals(f) PROVE LaneFits'
  BY <1>17 DEF CloseSignals, Signal, Returns, Runs, LaneFits, LaneOf, Lanes, Launching,
     Launched, TypeOK
<1>18. ASSUME NEW f \in Forward, ChildExits(f) PROVE LaneFits'
  BY <1>18 DEF ChildExits, LaneFits, LaneOf, Lanes, Launching, Launched, TypeOK
<1>19. ASSUME NEW f \in Forward, Unregister(f) PROVE LaneFits'
  BY <1>19 DEF Unregister, LaneFits, LaneOf, Lanes, Launching, Launched, TypeOK
<1>20. ASSUME NEW f \in Forward, OnProcessExit(f) PROVE LaneFits'
  BY <1>20 DEF OnProcessExit, Transition, LaneFits, LaneOf, Lanes, Launching, Launched,
     TypeOK
<1>21. ASSUME NEW f \in Forward, ExitFails(f) PROVE LaneFits'
  BY <1>21 DEF ExitFails, Transition, Fail, LaneFits, LaneOf, Lanes, Launching, Launched,
     TypeOK
<1>22. CASE StopExecutor
  <2>1. submitting = {} /\ UNCHANGED <<submitting, scheduled, step>>
    BY <1>22 DEF StopExecutor, SelectorServes
  <2>2. ASSUME NEW h \in Forward
        PROVE  /\ (lane'[h] = SubSeq(lane[h], 1, 1) /\ lane[h] # <<>>) \/ (lane'[h] = <<>> /\ step[h] = "idle")
               /\ state'[h] = "absent" => state[h] = "absent"
    <3>1. \A p \in Forward : step[p] # "idle" => lane[p] # <<>>
      BY DEF LaneFits, LaneOf, Lanes, Launching, Launched, TypeOK
    <3>2. PICK held \in SUBSET {p \in Forward : lane[p] # <<>> /\ step[p] = "idle"} :
            LET kept == held \cup {p \in Forward : step[p] # "idle"}
            IN  lane' = [p \in Forward |-> IF p \in kept THEN SubSeq(lane[p], 1, 1) ELSE <<>>]
      BY <1>22 DEF StopExecutor
    <3>3. state'[h] = "absent" => state[h] = "absent"
      BY <1>22 DEF StopExecutor
    <3>4. QED
      BY <3>1, <3>2, <3>3
  <2>3. ASSUME NEW h \in Forward
        PROVE  \/ lane'[h] = lane[h] /\ lane[h] # <<"start", "close">>
               \/ lane'[h] = <<"start">> /\ lane[h] = <<"start", "close">>
               \/ lane'[h] = <<>> /\ step[h] = "idle"
    BY <2>2 DEF LaneFits, LaneOf, Lanes
  <2>4. QED
    BY <2>1, <2>2, <2>3, ZenonT(30) DEF LaneFits, LaneOf, Lanes, Launching, Launched, TypeOK
<1>23. CASE ShutdownBegins
  BY <1>23 DEF ShutdownBegins, LaneFits, LaneOf, Lanes, Launching, Launched, TypeOK
<1>24. CASE ShutdownCloses
  BY <1>24, SMTT(30) DEF ShutdownCloses, Transition, CloseId, LaneFits, LaneOf, Lanes, Launching,
     Launched, TypeOK
<1>25. CASE ShutdownSignals
  BY <1>25 DEF ShutdownSignals, Signal, LaneFits, LaneOf, Lanes, Launching, Launched,
     TypeOK
<1>26. CASE ShutdownRaises
  BY <1>26 DEF ShutdownRaises, LaneFits, LaneOf, Lanes, Launching, Launched, TypeOK
<1>27. CASE RunnerCloses
  BY <1>27 DEF RunnerCloses, Signal, LaneFits, LaneOf, Lanes, Launching, Launched, TypeOK
<1>28. CASE UNCHANGED vars
  BY <1>28 DEF vars, LaneFits, LaneOf
<1>29. QED
  BY <1>1, <1>2, <1>3, <1>4, <1>5, <1>6, <1>7, <1>8, <1>9, <1>10, <1>11, <1>12, <1>13,
     <1>14, <1>15, <1>16, <1>17, <1>18, <1>19, <1>20, <1>21, <1>22, <1>23, <1>24, <1>25,
     <1>26, <1>27, <1>28 DEF Next, Request, Submission, Shutdown, Worker, Reaper

\* Every step leaves one close to submit, and shutdown() a forward to signal.
LEMMA SelectorStep ==
    ASSUME ForwardInv, [Next]_vars
    PROVE  SelectorFits'
<1> USE DEF ForwardInv, recordVars, commandVars, childVars, requestVars, closerVars
<1>1. ASSUME NEW f \in Forward, OpenForward(f) PROVE SelectorFits'
  BY <1>1 DEF OpenForward, SelectorFits, TypeOK
<1>2. ASSUME NEW f \in Forward, CloseForward(f) PROVE SelectorFits'
  BY <1>2 DEF CloseForward, PrepareClose, SelectorFits, TypeOK
<1>3. ASSUME NEW f \in Forward, CloseSubmitted(f) PROVE SelectorFits'
  BY <1>3 DEF CloseSubmitted, SelectorFits, TypeOK
<1>4. ASSUME NEW f \in Forward, CloseRejected(f) PROVE SelectorFits'
  BY <1>4 DEF CloseRejected, SelectorFits, TypeOK
<1>5. ASSUME NEW f \in Forward, StartReturnsEarly(f) PROVE SelectorFits'
  BY <1>5 DEF StartReturnsEarly, SelectorFits, TypeOK
<1>6. ASSUME NEW f \in Forward, StartBegins(f) PROVE SelectorFits'
  BY <1>6 DEF StartBegins, SelectorFits, TypeOK
<1>7. ASSUME NEW f \in Forward, StartFails(f) PROVE SelectorFits'
  BY <1>7 DEF StartFails, SelectorFits, TypeOK
<1>8. ASSUME NEW f \in Forward, RunnerIsOpen(f) PROVE SelectorFits'
  BY <1>8 DEF RunnerIsOpen, SelectorFits, TypeOK
<1>9. ASSUME NEW f \in Forward, StartSpawns(f) PROVE SelectorFits'
  BY <1>9 DEF StartSpawns, SelectorFits, TypeOK
<1>10. ASSUME NEW f \in Forward, StartRegisters(f) PROVE SelectorFits'
  BY <1>10 DEF StartRegisters, SelectorFits, TypeOK
<1>11. ASSUME NEW f \in Forward, StartStores(f) PROVE SelectorFits'
  BY <1>11 DEF StartStores, SelectorFits, TypeOK
<1>12. ASSUME NEW f \in Forward, DetectFails(f) PROVE SelectorFits'
  BY <1>12 DEF DetectFails, SelectorFits, TypeOK
<1>13. ASSUME NEW f \in Forward, DetectSucceeds(f) PROVE SelectorFits'
  BY <1>13 DEF DetectSucceeds, SelectorFits, TypeOK
<1>14. ASSUME NEW f \in Forward, StartActivates(f) PROVE SelectorFits'
  BY <1>14 DEF StartActivates, SelectorFits, TypeOK
<1>15. ASSUME NEW f \in Forward, CloseReturnsEarly(f) PROVE SelectorFits'
  BY <1>15 DEF CloseReturnsEarly, SelectorFits, TypeOK
<1>16. ASSUME NEW f \in Forward, CloseBegins(f) PROVE SelectorFits'
  BY <1>16 DEF CloseBegins, SelectorFits, TypeOK
<1>17. ASSUME NEW f \in Forward, CloseSignals(f) PROVE SelectorFits'
  BY <1>17 DEF CloseSignals, SelectorFits, TypeOK
<1>18. ASSUME NEW f \in Forward, ChildExits(f) PROVE SelectorFits'
  BY <1>18 DEF ChildExits, SelectorFits, TypeOK
<1>19. ASSUME NEW f \in Forward, Unregister(f) PROVE SelectorFits'
  BY <1>19 DEF Unregister, SelectorFits, TypeOK
<1>20. ASSUME NEW f \in Forward, OnProcessExit(f) PROVE SelectorFits'
  BY <1>20 DEF OnProcessExit, SelectorFits, TypeOK
<1>21. ASSUME NEW f \in Forward, ExitFails(f) PROVE SelectorFits'
  BY <1>21 DEF ExitFails, SelectorFits, TypeOK
<1>22. CASE StopExecutor
  BY <1>22 DEF StopExecutor, SelectorFits, TypeOK
<1>23. CASE ShutdownBegins
  BY <1>23 DEF ShutdownBegins, SelectorFits, TypeOK
<1>24. CASE ShutdownCloses
  BY <1>24 DEF ShutdownCloses, SelectorFits, TypeOK
<1>25. CASE ShutdownSignals
  BY <1>25 DEF ShutdownSignals, SelectorFits, TypeOK
<1>26. CASE ShutdownRaises
  BY <1>26 DEF ShutdownRaises, SelectorFits, TypeOK
<1>27. CASE RunnerCloses
  BY <1>27 DEF RunnerCloses, SelectorFits, TypeOK
<1>28. CASE UNCHANGED vars
  BY <1>28 DEF vars, SelectorFits
<1>29. QED
  BY <1>1, <1>2, <1>3, <1>4, <1>5, <1>6, <1>7, <1>8, <1>9, <1>10, <1>11, <1>12, <1>13,
     <1>14, <1>15, <1>16, <1>17, <1>18, <1>19, <1>20, <1>21, <1>22, <1>23, <1>24, <1>25,
     <1>26, <1>27, <1>28 DEF Next, Request, Submission, Shutdown, Worker, Reaper

\* Every step keeps the types.
LEMMA TypeStep ==
    ASSUME ForwardInv, LaneFits', order' \in Seq(Forward), [Next]_vars
    PROVE  TypeOK'
<1> USE DEF ForwardInv, recordVars, commandVars, childVars, requestVars, closerVars
<1>1. ASSUME NEW f \in Forward, OpenForward(f) PROVE TypeOK'
  <2>1. state' \in [Forward -> States]
    BY <1>1, ZenonT(30) DEF OpenForward, TypeOK, States, Over
  <2>2. lane' \in [Forward -> Seq({"start", "close"})]
    <3>1. lane' = lane \/ lane' = [lane EXCEPT ![f] = Append(lane[f], "start")]
      BY <1>1 DEF OpenForward, Submit
    <3>2. Append(lane[f], "start") \in Seq({"start", "close"})
      BY AppendProperties DEF TypeOK
    <3>3. QED
      BY <3>1, <3>2 DEF TypeOK
  <2>3. UNCHANGED <<handle, step, childVars, requestVars, closerVars, dropped>>
    BY <1>1 DEF OpenForward
  <2>4. QED
    BY <2>1, <2>2, <2>3 DEF TypeOK
<1>2. ASSUME NEW f \in Forward, CloseForward(f) PROVE TypeOK'
  <2>1. state' \in [Forward -> States]
    <3>1. \/ Transition(f, "closed") \/ Transition(f, "closing") \/ state' = state
      BY <1>2 DEF CloseForward, PrepareClose
    <3>2. QED
      BY <3>1, OperatorTypes, ZenonT(30) DEF TypeOK, States, Over
  <2>2. scheduled' \subseteq Forward /\ submitting' \subseteq Forward
    BY <1>2 DEF CloseForward, PrepareClose, TypeOK
  <2>3. closes' \in [Forward -> Nat]
    BY <1>2 DEF CloseForward, TypeOK
  <2>4. UNCHANGED <<handle, commandVars, childVars, closerVars, dropped>>
    BY <1>2 DEF CloseForward
  <2>5. QED
    BY <2>1, <2>2, <2>3, <2>4 DEF TypeOK
<1>3. ASSUME NEW f \in Forward, CloseSubmitted(f) PROVE TypeOK'
  BY <1>3 DEF CloseSubmitted, Submit, TypeOK, States, Over
<1>4. ASSUME NEW f \in Forward, CloseRejected(f) PROVE TypeOK'
  BY <1>4 DEF CloseRejected, Transition, RejectClose, TypeOK, States, Over
<1>5. ASSUME NEW f \in Forward, StartReturnsEarly(f) PROVE TypeOK'
  BY <1>5 DEF StartReturnsEarly, Returns, Runs, TypeOK, States, Over
<1>6. ASSUME NEW f \in Forward, StartBegins(f) PROVE TypeOK'
  BY <1>6 DEF StartBegins, Runs, Goto, TypeOK, States, Over
<1>7. ASSUME NEW f \in Forward, StartFails(f) PROVE TypeOK'
  <2>1. lane[f] # <<>>
    BY <1>7 DEF StartFails, Runs
  <2>2. lane' \in [Forward -> Seq({"start", "close"})] /\ step' = [step EXCEPT ![f] = "idle"]
    BY <1>7, <2>1, OperatorTypes DEF StartFails
  <2>3. state' \in [Forward -> States] /\ handle' \subseteq Forward
    BY <1>7, OperatorTypes DEF StartFails
  <2>4. UNCHANGED <<childVars, requestVars, closerVars, dropped>>
    BY <1>7 DEF StartFails
  <2>5. QED
    BY <2>1, <2>2, <2>3, <2>4 DEF TypeOK
<1>8. ASSUME NEW f \in Forward, RunnerIsOpen(f) PROVE TypeOK'
  BY <1>8 DEF RunnerIsOpen, Runs, Goto, TypeOK, States, Over
<1>9. ASSUME NEW f \in Forward, StartSpawns(f) PROVE TypeOK'
  BY <1>9 DEF StartSpawns, Runs, Goto, TypeOK, States, Over
<1>10. ASSUME NEW f \in Forward, StartRegisters(f) PROVE TypeOK'
  <2>1. lane[f] # <<>>
    BY <1>10 DEF StartRegisters, Runs
  <2>2. CASE Signal({f}) /\ Fail(f) /\ Returns(f) /\ UNCHANGED handles
    <3>1. state' \in [Forward -> States] /\ handle' \subseteq Forward /\ proc' \in [Forward -> {"none", "alive", "signalled", "dead"}]
      BY <2>2, OperatorTypes
    <3>2. lane' \in [Forward -> Seq({"start", "close"})] /\ step' = [step EXCEPT ![f] = "idle"]
      BY <2>1, <2>2, OperatorTypes
    <3>3. UNCHANGED <<handles, reaper, requestVars, closerVars, dropped>>
      BY <1>10, <2>2 DEF StartRegisters
    <3>4. QED
      BY <3>1, <3>2, <3>3 DEF TypeOK
  <2>3. CASE handles' = handles \cup {f} /\ Goto(f, "storing") /\ UNCHANGED <<recordVars, proc>>
    <3>1. UNCHANGED <<lane, state, handle, proc, reaper, requestVars, closerVars, dropped>>
      BY <1>10, <2>3 DEF StartRegisters, Goto
    <3>2. step' = [step EXCEPT ![f] = "storing"] /\ handles' = handles \cup {f}
      BY <2>3 DEF Goto
    <3>3. QED
      BY <3>1, <3>2 DEF TypeOK
  <2>4. QED
    BY <1>10, <2>2, <2>3 DEF StartRegisters
<1>11. ASSUME NEW f \in Forward, StartStores(f) PROVE TypeOK'
  <2>1. lane[f] # <<>>
    BY <1>11 DEF StartStores, Runs
  <2>2. proc' \in [Forward -> {"none", "alive", "signalled", "dead"}]
    BY <1>11, OperatorTypes DEF StartStores, TypeOK
  <2>3. handle' \subseteq Forward
    BY <1>11 DEF StartStores, TypeOK
  <2>4. lane' \in [Forward -> Seq({"start", "close"})] /\ \E at \in {"idle", "detecting"} : step' = [step EXCEPT ![f] = at]
    <3>1. CASE Returns(f)
      BY <2>1, <3>1, OperatorTypes
    <3>2. CASE Goto(f, "detecting")
      BY <3>2 DEF Goto, TypeOK
    <3>3. QED
      BY <1>11, <3>1, <3>2 DEF StartStores
  <2>5. UNCHANGED <<state, reaper, handles, requestVars, closerVars, dropped>>
    BY <1>11 DEF StartStores
  <2>6. PICK at \in {"idle", "detecting"} : step' = [step EXCEPT ![f] = at]
    BY <2>4
  <2>7. step' \in [Forward -> {"idle", "launching", "spawning", "registering", "storing",
                               "detecting", "proven", "signalling"}]
    BY <2>6 DEF TypeOK
  <2>8. QED
    BY <2>2, <2>3, <2>4, <2>5, <2>7 DEF TypeOK
<1>12. ASSUME NEW f \in Forward, DetectFails(f) PROVE TypeOK'
  <2>1. lane[f] # <<>>
    BY <1>12 DEF DetectFails, Runs
  <2>2. lane' \in [Forward -> Seq({"start", "close"})] /\ step' = [step EXCEPT ![f] = "idle"]
    BY <1>12, <2>1, OperatorTypes DEF DetectFails
  <2>3. state' \in [Forward -> States] /\ handle' \subseteq Forward
    BY <1>12, OperatorTypes DEF DetectFails
  <2>4. dropped' \subseteq Forward
    BY <1>12 DEF DetectFails, TypeOK
  <2>5. UNCHANGED <<childVars, requestVars, closerVars>>
    BY <1>12 DEF DetectFails
  <2>6. QED
    BY <2>1, <2>2, <2>3, <2>4, <2>5 DEF TypeOK
<1>13. ASSUME NEW f \in Forward, DetectSucceeds(f) PROVE TypeOK'
  BY <1>13 DEF DetectSucceeds, Runs, Goto, TypeOK, States, Over
<1>14. ASSUME NEW f \in Forward, StartActivates(f) PROVE TypeOK'
  <2>1. lane[f] # <<>>
    BY <1>14 DEF StartActivates, Runs
  <2>2. lane' \in [Forward -> Seq({"start", "close"})] /\ step' = [step EXCEPT ![f] = "idle"]
    BY <1>14, <2>1, OperatorTypes DEF StartActivates
  <2>3. state' \in [Forward -> States]
    <3>1. Transition(f, "active") \/ state' = state
      BY <1>14 DEF StartActivates
    <3>2. QED
      BY <3>1, OperatorTypes DEF TypeOK, States
  <2>4. UNCHANGED <<handle, childVars, requestVars, closerVars, dropped>>
    BY <1>14 DEF StartActivates
  <2>5. QED
    BY <2>1, <2>2, <2>3, <2>4 DEF TypeOK
<1>15. ASSUME NEW f \in Forward, CloseReturnsEarly(f) PROVE TypeOK'
  BY <1>15 DEF CloseReturnsEarly, Returns, Runs, TypeOK, States, Over
<1>16. ASSUME NEW f \in Forward, CloseBegins(f) PROVE TypeOK'
  <2>1. lane[f] # <<>>
    BY <1>16 DEF CloseBegins, Runs
  <2>2. state' \in [Forward -> States]
    BY <1>16, OperatorTypes DEF CloseBegins
  <2>3. lane' \in [Forward -> Seq({"start", "close"})] /\ \E at \in {"idle", "signalling"} : step' = [step EXCEPT ![f] = at]
    <3>1. CASE Returns(f)
      BY <2>1, <3>1, OperatorTypes
    <3>2. CASE Goto(f, "signalling")
      BY <3>2 DEF Goto, TypeOK
    <3>3. QED
      BY <1>16, <3>1, <3>2 DEF CloseBegins
  <2>4. UNCHANGED <<handle, childVars, requestVars, closerVars, dropped>>
    BY <1>16 DEF CloseBegins
  <2>5. QED
    BY <2>2, <2>3, <2>4 DEF TypeOK
<1>17. ASSUME NEW f \in Forward, CloseSignals(f) PROVE TypeOK'
  BY <1>17 DEF CloseSignals, Signal, Returns, Runs, TypeOK, States, Over
<1>18. ASSUME NEW f \in Forward, ChildExits(f) PROVE TypeOK'
  BY <1>18 DEF ChildExits, TypeOK, States, Over
<1>19. ASSUME NEW f \in Forward, Unregister(f) PROVE TypeOK'
  BY <1>19 DEF Unregister, TypeOK, States, Over
<1>20. ASSUME NEW f \in Forward, OnProcessExit(f) PROVE TypeOK'
  BY <1>20 DEF OnProcessExit, Transition, TypeOK, States, Over
<1>21. ASSUME NEW f \in Forward, ExitFails(f) PROVE TypeOK'
  BY <1>21 DEF ExitFails, Transition, Fail, TypeOK, States, Over
<1>22. CASE StopExecutor
  <2>1. state' \in [Forward -> States]
    BY <1>22 DEF StopExecutor, TypeOK, States, Over
  <2>2. lane' \in [Forward -> Seq({"start", "close"})]
    <3>1. lane' = [h \in Forward |-> lane'[h]]
      BY <1>22 DEF StopExecutor
    <3>2. \A h \in Forward : lane'[h] \in Seq({"start", "close"})
      BY LaneFacts DEF LaneFits, LaneOf
    <3>3. QED
      BY <3>1, <3>2
  <2>3. handle' \subseteq Forward
    BY <1>22 DEF StopExecutor, TypeOK
  <2>4. closer' = "stopping" /\ UNCHANGED <<step, childVars, requestVars, walk, dropped>>
    BY <1>22 DEF StopExecutor
  <2>5. QED
    BY <2>1, <2>2, <2>3, <2>4 DEF TypeOK
<1>23. CASE ShutdownBegins
  BY <1>23 DEF ShutdownBegins, TypeOK, States, Over
<1>24. CASE ShutdownCloses
  <2>1. Head(walk) \in Forward /\ walk # <<>> /\ Tail(walk) \in Seq(Forward)
    BY <1>24, HeadTailProperties DEF ShutdownCloses, TypeOK
  <2>2. state' \in [Forward -> States]
    BY <1>24, <2>1, OperatorTypes DEF ShutdownCloses
  <2>3. walk' \in Seq(Forward) /\ closer' \in {"signalling", "walking"}
    BY <1>24, <2>1 DEF ShutdownCloses, TypeOK
  <2>4. UNCHANGED <<handle, commandVars, childVars, requestVars, dropped>>
    BY <1>24 DEF ShutdownCloses
  <2>5. QED
    BY <2>2, <2>3, <2>4 DEF TypeOK
<1>25. CASE ShutdownSignals
  <2>1. Tail(walk) \in Seq(Forward)
    BY <1>25, HeadTailProperties DEF ShutdownSignals, SelectorFits, TypeOK
  <2>2. proc' \in [Forward -> {"none", "alive", "signalled", "dead"}]
    BY <1>25 DEF ShutdownSignals, Signal, TypeOK
  <2>3. walk' = Tail(walk) /\ closer' = "walking"
    BY <1>25 DEF ShutdownSignals
  <2>4. UNCHANGED <<recordVars, commandVars, reaper, handles, requestVars, dropped>>
    BY <1>25 DEF ShutdownSignals
  <2>5. QED
    BY <2>1, <2>2, <2>3, <2>4 DEF TypeOK
<1>26. CASE ShutdownRaises
  BY <1>26 DEF ShutdownRaises, TypeOK, States, Over
<1>27. CASE RunnerCloses
  BY <1>27 DEF RunnerCloses, Signal, TypeOK, States, Over
<1>28. CASE UNCHANGED vars
  BY <1>28 DEF vars, TypeOK
<1>29. QED
  BY <1>1, <1>2, <1>3, <1>4, <1>5, <1>6, <1>7, <1>8, <1>9, <1>10, <1>11, <1>12, <1>13,
     <1>14, <1>15, <1>16, <1>17, <1>18, <1>19, <1>20, <1>21, <1>22, <1>23, <1>24, <1>25,
     <1>26, <1>27, <1>28 DEF Next, Request, Submission, Shutdown, Worker, Reaper

\* What the worker runs tells what its lane holds, and a return takes it away.
LEMMA WorkerFacts ==
    ASSUME ForwardInv, NEW f \in Forward
    PROVE  /\ \A at : Runs(f, "start", at) => HasStart(f) /\ state[f] # "absent"
           /\ \A at : Runs(f, "close", at) => HasClose(f) /\ ~HasStart(f)
           /\ lane[f] # <<>> /\ Returns(f) =>
                /\ ~HasStart(f)' /\ (HasClose(f)' <=> HasStart(f) /\ HasClose(f))
                /\ step'[f] = "idle"
                /\ \A h \in Forward \ {f} : lane'[h] = lane[h] /\ step'[h] = step[h]
           /\ \A at : Goto(f, at) =>
                /\ step'[f] = at /\ lane' = lane
                /\ \A h \in Forward \ {f} : step'[h] = step[h]
<1> USE DEF ForwardInv
<1>1. LaneOf(f)
  BY DEF LaneFits
<1>2. /\ \A at : Runs(f, "start", at) => HasStart(f) /\ state[f] # "absent"
      /\ \A at : Runs(f, "close", at) => HasClose(f) /\ ~HasStart(f)
  BY <1>1, LaneFacts DEF Runs, LaneOf, Lanes, HasStart, HasClose
<1>3. ASSUME lane[f] # <<>>, Returns(f)
      PROVE  /\ ~HasStart(f)' /\ (HasClose(f)' <=> HasStart(f) /\ HasClose(f))
             /\ step'[f] = "idle"
             /\ \A h \in Forward \ {f} : lane'[h] = lane[h] /\ step'[h] = step[h]
  <2>1. lane' = [lane EXCEPT ![f] = Tail(lane[f])] /\ step' = [step EXCEPT ![f] = "idle"]
    BY <1>3, OperatorTypes
  <2>2. /\ lane'[f] = Tail(lane[f]) /\ step'[f] = "idle"
        /\ \A h \in Forward \ {f} : lane'[h] = lane[h] /\ step'[h] = step[h]
    BY <2>1 DEF TypeOK
  <2>3. ~HasStart(f)' /\ (HasClose(f)' <=> HasStart(f) /\ HasClose(f))
    BY <1>1, <1>3, <2>2, LaneFacts DEF LaneOf, Lanes, HasStart, HasClose
  <2>4. QED
    BY <2>2, <2>3
<1>4. \A at : Goto(f, at) => /\ step'[f] = at /\ lane' = lane
                             /\ \A h \in Forward \ {f} : step'[h] = step[h]
  BY DEF Goto, TypeOK
<1>5. QED
  BY <1>2, <1>3, <1>4

\* A step on one forward leaves the processes of the others in good hands.
LEMMA ProcessFrame ==
    ASSUME ForwardInv, NEW f \in Forward, ChildOf(f)', KeeperOf(f)', CloseOf(f)',
           closer' = "serving" => closer = "serving",
           \A h \in Forward \ {f} :
              /\ lane'[h] = lane[h] /\ step'[h] = step[h] /\ state'[h] = state[h]
              /\ proc'[h] = proc[h] /\ reaper'[h] = reaper[h]
              /\ h \in handle' <=> h \in handle
              /\ h \in dropped' <=> h \in dropped
              /\ h \in submitting => h \in submitting'
    PROVE  ProcessFits'
<1>1. ASSUME NEW h \in Forward \ {f} PROVE (ChildOf(h) /\ KeeperOf(h) /\ CloseOf(h))'
  <2>1. ChildOf(h) /\ KeeperOf(h) /\ CloseOf(h)
    BY DEF ForwardInv, ProcessFits
  <2>2. ChildOf(h)'
    BY <2>1 DEF ChildOf, HasStart
  <2>3. KeeperOf(h)'
    BY <2>1 DEF KeeperOf
  <2>4. CloseOf(h)'
    BY <2>1 DEF CloseOf, HasStart, HasClose
  <2>5. QED
    BY <2>2, <2>3, <2>4
<1>2. QED
  BY <1>1 DEF ProcessFits

\* The same operators, seen from one forward and from the others.
LEMMA PointFacts ==
    ASSUME ForwardInv, NEW f \in Forward
    PROVE  /\ Fail(f) =>
             /\ state'[f] = IF state[f] \in Over THEN state[f] ELSE "failed"
             /\ f \in handle' <=> f \in handle /\ state[f] \in Over
             /\ \A h \in Forward \ {f} : state'[h] = state[h] /\ (h \in handle' <=> h \in handle)
           /\ CloseId(f) =>
             /\ \/ state'[f] = state[f]
                \/ state'[f] = "closed" /\ state[f] = "failed" /\ f \notin handle
                \/ state'[f] = "closing" /\ state[f] \in {"starting", "active"}
             /\ \A h \in Forward \ {f} : state'[h] = state[h]
           /\ Signal({f}) =>
             /\ proc'[f] # "alive" /\ (proc'[f] = proc[f] \/ (proc[f] = "alive" /\ proc'[f] = "signalled"))
             /\ \A h \in Forward \ {f} : proc'[h] = proc[h]
<1> USE DEF ForwardInv
<1>1. ASSUME Fail(f)
      PROVE  /\ state'[f] = IF state[f] \in Over THEN state[f] ELSE "failed"
             /\ f \in handle' <=> f \in handle /\ state[f] \in Over
             /\ \A h \in Forward \ {f} : state'[h] = state[h] /\ (h \in handle' <=> h \in handle)
  <2>1. /\ state' = IF state[f] \in Over THEN state ELSE [state EXCEPT ![f] = "failed"]
        /\ handle' = IF state[f] \in Over THEN handle ELSE handle \ {f}
    BY <1>1, OperatorTypes
  <2>2. QED
    BY <2>1 DEF TypeOK
<1>2. ASSUME CloseId(f)
      PROVE  /\ \/ state'[f] = state[f]
                \/ state'[f] = "closed" /\ state[f] = "failed" /\ f \notin handle
                \/ state'[f] = "closing" /\ state[f] \in {"starting", "active"}
             /\ \A h \in Forward \ {f} : state'[h] = state[h]
  <2>1. \/ state' = state
        \/ state' = [state EXCEPT ![f] = "closed"] /\ state[f] = "failed" /\ f \notin handle
        \/ state' = [state EXCEPT ![f] = "closing"] /\ state[f] \in {"starting", "active"}
    BY <1>2, OperatorTypes
  <2>2. QED
    BY <2>1 DEF TypeOK
<1>3. ASSUME Signal({f})
      PROVE  /\ proc'[f] # "alive" /\ (proc'[f] = proc[f] \/ (proc[f] = "alive" /\ proc'[f] = "signalled"))
             /\ \A h \in Forward \ {f} : proc'[h] = proc[h]
  BY <1>3 DEF Signal, TypeOK
<1>4. QED
  BY <1>1, <1>2, <1>3

\* Every step keeps children, reapers, keepers and closes in step.
LEMMA ProcessStep ==
    ASSUME ForwardInv, TypeOK', [Next]_vars
    PROVE  ProcessFits'
<1> USE LaneFacts DEF ForwardInv, recordVars, commandVars, childVars, requestVars, closerVars
<1>1. ASSUME NEW f \in Forward, OpenForward(f) PROVE ProcessFits'
  <2>1. ChildOf(f) /\ KeeperOf(f) /\ CloseOf(f) /\ LaneOf(f)
    BY DEF ProcessFits, LaneFits
  <2>2. UNCHANGED <<handle, step, proc, reaper, submitting, dropped, closer>>
    BY <1>1 DEF OpenForward
  <2>3. state[f] = "absent" /\ ~HasStart(f) /\ step[f] = "idle"
    BY <1>1, <2>1, LaneFacts DEF OpenForward, LaneOf, HasStart
  <2>4. state'[f] \in {"starting", "failed"} /\ \A h \in Forward \ {f} : state'[h] = state[h]
    BY <1>1 DEF OpenForward, TypeOK
  <2>5. \A h \in Forward \ {f} : lane'[h] = lane[h]
    BY <1>1 DEF OpenForward, Submit, TypeOK
  <2>6. ChildOf(f)'
    BY <2>1, <2>2, <2>3, <2>4, <2>5 DEF ChildOf, Launched, Over
  <2>7. KeeperOf(f)'
    BY <2>1, <2>2, <2>3, <2>4, <2>5 DEF KeeperOf, ChildOf, Launched, Over
  <2>8. CloseOf(f)'
    BY <2>1, <2>2, <2>3, <2>4, <2>5 DEF CloseOf, KeeperOf, ChildOf, Launched, Over
  <2>9. QED
    BY <2>1, <2>2, <2>3, <2>4, <2>5, <2>6, <2>7, <2>8, ProcessFrame
<1>2. ASSUME NEW f \in Forward, CloseForward(f) PROVE ProcessFits'
  <2>1. ChildOf(f) /\ KeeperOf(f) /\ CloseOf(f) /\ LaneOf(f)
    BY DEF ProcessFits, LaneFits
  <2>2. UNCHANGED <<handle, lane, step, proc, reaper, dropped, closer>>
    BY <1>2 DEF CloseForward
  <2>3. f \in submitting' \/ (state'[f] = "closed" /\ state[f] = "failed" /\ f \notin handle)
    BY <1>2 DEF CloseForward, PrepareClose, Transition, TypeOK
  <2>4. /\ \/ state'[f] = state[f]
           \/ state'[f] = "closed" /\ state[f] = "failed" /\ f \notin handle
           \/ state'[f] = "closing" /\ state[f] \in {"starting", "active"}
        /\ \A h \in Forward \ {f} : state'[h] = state[h]
    <3>1. CloseId(f)
      BY <1>2 DEF CloseForward, PrepareClose, CloseId
    <3>2. QED
      BY <3>1, PointFacts
  <2>5. submitting = {}
    BY <1>2 DEF CloseForward, SelectorServes
  <2>6. (HasStart(f)' <=> HasStart(f)) /\ (HasClose(f)' <=> HasClose(f))
    BY <2>2 DEF HasStart, HasClose
  <2>7. ChildOf(f)'
    BY <2>1, <2>2, <2>3, <2>4, <2>5, <2>6 DEF ChildOf, Launched, Over
  <2>8. KeeperOf(f)'
    BY <2>1, <2>2, <2>3, <2>4, <2>5, <2>6 DEF KeeperOf, ChildOf, Launched, Over
  <2>9. CloseOf(f)'
    BY <2>1, <2>2, <2>3, <2>4, <2>5, <2>6 DEF CloseOf, KeeperOf, ChildOf, Launched, Over
  <2>10. QED
    BY <2>1, <2>2, <2>3, <2>4, <2>5, <2>6, <2>7, <2>8, <2>9, ProcessFrame
<1>3. ASSUME NEW f \in Forward, CloseSubmitted(f) PROVE ProcessFits'
  <2>1. ChildOf(f) /\ KeeperOf(f) /\ CloseOf(f) /\ LaneOf(f)
    BY DEF ProcessFits, LaneFits
  <2>2. UNCHANGED <<state, handle, step, proc, reaper, dropped, closer>>
    BY <1>3 DEF CloseSubmitted
  <2>3. f \in submitting /\ lane' = [lane EXCEPT ![f] = Append(lane[f], "close")]
    BY <1>3 DEF CloseSubmitted, Submit
  <2>4. HasClose(f)' /\ (HasStart(f)' <=> HasStart(f)) /\ \A h \in Forward \ {f} : lane'[h] = lane[h]
    <3>1. lane[f] \in {<<>>, <<"start">>}
      BY <2>1, <2>3 DEF LaneOf
    <3>2. lane'[f] = Append(lane[f], "close") /\ \A h \in Forward \ {f} : lane'[h] = lane[h]
      BY <2>3 DEF TypeOK
    <3>3. QED
      BY <3>1, <3>2 DEF HasStart, HasClose
  <2>5. \A h \in Forward \ {f} : h \notin submitting
    BY <2>3 DEF SelectorFits
  <2>6. ChildOf(f)'
    BY <2>1, <2>2, <2>3, <2>4, <2>5 DEF ChildOf, Launched, Over
  <2>7. KeeperOf(f)'
    BY <2>1, <2>2, <2>3, <2>4, <2>5 DEF KeeperOf, ChildOf, Launched, Over
  <2>8. CloseOf(f)'
    BY <2>1, <2>2, <2>3, <2>4, <2>5 DEF CloseOf, KeeperOf, ChildOf, Launched, Over
  <2>9. QED
    BY <2>1, <2>2, <2>3, <2>4, <2>5, <2>6, <2>7, <2>8, ProcessFrame
<1>4. ASSUME NEW f \in Forward, CloseRejected(f) PROVE ProcessFits'
  <2>1. ChildOf(f) /\ KeeperOf(f) /\ CloseOf(f) /\ LaneOf(f)
    BY DEF ProcessFits, LaneFits
  <2>2. UNCHANGED <<handle, lane, step, proc, reaper, dropped, closer>>
    BY <1>4 DEF CloseRejected, RejectClose
  <2>3. state[f] \notin {"absent", "closed"} => f \in Stored
    BY DEF RetentionExact
  <2>4. state'[f] = (IF state[f] = "closing" THEN "failed" ELSE state[f]) /\ \A h \in Forward \ {f} : state'[h] = state[h]
    BY <1>4, <2>3 DEF CloseRejected, RejectClose, Transition, TypeOK
  <2>5. \A h \in Forward \ {f} : h \notin submitting
    BY <1>4 DEF CloseRejected, SelectorFits
  <2>6. (HasStart(f)' <=> HasStart(f)) /\ (HasClose(f)' <=> HasClose(f))
    BY <2>2 DEF HasStart, HasClose
  <2>7. ChildOf(f)'
    BY <2>1, <2>2, <2>3, <2>4, <2>5, <2>6 DEF ChildOf, Launched, Over
  <2>8. KeeperOf(f)'
    BY <2>1, <2>2, <2>3, <2>4, <2>5, <2>6 DEF KeeperOf, ChildOf, Launched, Over
  <2>9. CloseOf(f)'
    BY <2>1, <2>2, <2>3, <2>4, <2>5, <2>6 DEF CloseOf, KeeperOf, ChildOf, Launched, Over
  <2>10. QED
    BY <2>1, <2>2, <2>3, <2>4, <2>5, <2>6, <2>7, <2>8, <2>9, ProcessFrame
<1>5. ASSUME NEW f \in Forward, StartReturnsEarly(f) PROVE ProcessFits'
  <2>1. ChildOf(f) /\ KeeperOf(f) /\ CloseOf(f) /\ LaneOf(f)
    BY DEF ProcessFits, LaneFits
  <2>2. UNCHANGED <<state, handle, proc, reaper, submitting, dropped, closer>>
    BY <1>5 DEF StartReturnsEarly
  <2>3. HasStart(f) /\ state[f] # "absent" /\ step[f] = "idle" /\ lane[f] # <<>>
    <3>1. Runs(f, "start", "idle")
      BY <1>5 DEF StartReturnsEarly
    <3>2. QED
      BY <3>1, WorkerFacts DEF Runs
  <2>4. /\ ~HasStart(f)' /\ (HasClose(f)' <=> HasStart(f) /\ HasClose(f)) /\ step'[f] = "idle"
        /\ \A h \in Forward \ {f} : lane'[h] = lane[h] /\ step'[h] = step[h]
    <3>1. Returns(f)
      BY <1>5 DEF StartReturnsEarly
    <3>2. QED
      BY <2>3, <3>1, WorkerFacts
  <2>5. ChildOf(f)'
    BY <2>1, <2>2, <2>3, <2>4 DEF ChildOf, Launched, Over
  <2>6. KeeperOf(f)'
    BY <2>1, <2>2, <2>3, <2>4 DEF KeeperOf, ChildOf, Launched, Over
  <2>7. CloseOf(f)'
    BY <2>1, <2>2, <2>3, <2>4 DEF CloseOf, KeeperOf, ChildOf, Launched, Over
  <2>8. QED
    BY <2>1, <2>2, <2>3, <2>4, <2>5, <2>6, <2>7, ProcessFrame
<1>6. ASSUME NEW f \in Forward, StartBegins(f) PROVE ProcessFits'
  <2>1. ChildOf(f) /\ KeeperOf(f) /\ CloseOf(f) /\ LaneOf(f)
    BY DEF ProcessFits, LaneFits
  <2>2. UNCHANGED <<state, handle, lane, proc, reaper, submitting, dropped, closer>>
    BY <1>6 DEF StartBegins, Goto
  <2>3. HasStart(f) /\ state[f] # "absent" /\ step[f] = "idle" /\ lane[f] # <<>>
    <3>1. Runs(f, "start", "idle")
      BY <1>6 DEF StartBegins
    <3>2. QED
      BY <3>1, WorkerFacts DEF Runs
  <2>4. step'[f] = "launching" /\ \A h \in Forward \ {f} : step'[h] = step[h]
    <3>1. Goto(f, "launching")
      BY <1>6 DEF StartBegins
    <3>2. QED
      BY <3>1, WorkerFacts
  <2>5. (HasStart(f)' <=> HasStart(f)) /\ (HasClose(f)' <=> HasClose(f))
    BY <2>2 DEF HasStart, HasClose
  <2>6. ChildOf(f)'
    BY <2>1, <2>2, <2>3, <2>4, <2>5 DEF ChildOf, Launched, Over
  <2>7. KeeperOf(f)'
    BY <2>1, <2>2, <2>3, <2>4, <2>5 DEF KeeperOf, ChildOf, Launched, Over
  <2>8. CloseOf(f)'
    BY <2>1, <2>2, <2>3, <2>4, <2>5 DEF CloseOf, KeeperOf, ChildOf, Launched, Over
  <2>9. QED
    BY <2>1, <2>2, <2>3, <2>4, <2>5, <2>6, <2>7, <2>8, ProcessFrame
<1>7. ASSUME NEW f \in Forward, StartFails(f) PROVE ProcessFits'
  <2>1. ChildOf(f) /\ KeeperOf(f) /\ CloseOf(f) /\ LaneOf(f)
    BY DEF ProcessFits, LaneFits
  <2>2. UNCHANGED <<proc, reaper, submitting, dropped, closer>>
    BY <1>7 DEF StartFails
  <2>3. HasStart(f) /\ state[f] # "absent" /\ step[f] = "launching" /\ lane[f] # <<>>
    <3>1. Runs(f, "start", "launching")
      BY <1>7 DEF StartFails
    <3>2. QED
      BY <3>1, WorkerFacts DEF Runs
  <2>4. /\ ~HasStart(f)' /\ (HasClose(f)' <=> HasStart(f) /\ HasClose(f)) /\ step'[f] = "idle"
        /\ \A h \in Forward \ {f} : lane'[h] = lane[h] /\ step'[h] = step[h]
    <3>1. Returns(f)
      BY <1>7 DEF StartFails
    <3>2. QED
      BY <2>3, <3>1, WorkerFacts
  <2>5. /\ state'[f] = IF state[f] \in Over THEN state[f] ELSE "failed"
        /\ f \in handle' <=> f \in handle /\ state[f] \in Over
        /\ \A h \in Forward \ {f} : state'[h] = state[h] /\ (h \in handle' <=> h \in handle)
    <3>1. Fail(f)
      BY <1>7 DEF StartFails
    <3>2. QED
      BY <3>1, PointFacts
  <2>6. ChildOf(f)'
    BY <2>1, <2>2, <2>3, <2>4, <2>5 DEF ChildOf, Launched, Over
  <2>7. KeeperOf(f)'
    BY <2>1, <2>2, <2>3, <2>4, <2>5 DEF KeeperOf, ChildOf, Launched, Over
  <2>8. CloseOf(f)'
    BY <2>1, <2>2, <2>3, <2>4, <2>5 DEF CloseOf, KeeperOf, ChildOf, Launched, Over
  <2>9. QED
    BY <2>1, <2>2, <2>3, <2>4, <2>5, <2>6, <2>7, <2>8, ProcessFrame
<1>8. ASSUME NEW f \in Forward, RunnerIsOpen(f) PROVE ProcessFits'
  <2>1. ChildOf(f) /\ KeeperOf(f) /\ CloseOf(f) /\ LaneOf(f)
    BY DEF ProcessFits, LaneFits
  <2>2. UNCHANGED <<state, handle, lane, proc, reaper, submitting, dropped, closer>>
    BY <1>8 DEF RunnerIsOpen, Goto
  <2>3. HasStart(f) /\ state[f] # "absent" /\ step[f] = "launching" /\ lane[f] # <<>>
    <3>1. Runs(f, "start", "launching")
      BY <1>8 DEF RunnerIsOpen
    <3>2. QED
      BY <3>1, WorkerFacts DEF Runs
  <2>4. step'[f] = "spawning" /\ \A h \in Forward \ {f} : step'[h] = step[h]
    <3>1. Goto(f, "spawning")
      BY <1>8 DEF RunnerIsOpen
    <3>2. QED
      BY <3>1, WorkerFacts
  <2>5. (HasStart(f)' <=> HasStart(f)) /\ (HasClose(f)' <=> HasClose(f))
    BY <2>2 DEF HasStart, HasClose
  <2>6. ChildOf(f)'
    BY <2>1, <2>2, <2>3, <2>4, <2>5 DEF ChildOf, Launched, Over
  <2>7. KeeperOf(f)'
    BY <2>1, <2>2, <2>3, <2>4, <2>5 DEF KeeperOf, ChildOf, Launched, Over
  <2>8. CloseOf(f)'
    BY <2>1, <2>2, <2>3, <2>4, <2>5 DEF CloseOf, KeeperOf, ChildOf, Launched, Over
  <2>9. QED
    BY <2>1, <2>2, <2>3, <2>4, <2>5, <2>6, <2>7, <2>8, ProcessFrame
<1>9. ASSUME NEW f \in Forward, StartSpawns(f) PROVE ProcessFits'
  <2>1. ChildOf(f) /\ KeeperOf(f) /\ CloseOf(f) /\ LaneOf(f)
    BY DEF ProcessFits, LaneFits
  <2>2. UNCHANGED <<state, handle, lane, reaper, submitting, dropped, closer>>
    BY <1>9 DEF StartSpawns, Goto
  <2>3. HasStart(f) /\ state[f] # "absent" /\ step[f] = "spawning" /\ lane[f] # <<>>
    <3>1. Runs(f, "start", "spawning")
      BY <1>9 DEF StartSpawns
    <3>2. QED
      BY <3>1, WorkerFacts DEF Runs
  <2>4. step'[f] = "registering" /\ \A h \in Forward \ {f} : step'[h] = step[h]
    <3>1. Goto(f, "registering")
      BY <1>9 DEF StartSpawns
    <3>2. QED
      BY <3>1, WorkerFacts
  <2>5. proc'[f] = "alive" /\ \A h \in Forward \ {f} : proc'[h] = proc[h]
    BY <1>9 DEF StartSpawns, TypeOK
  <2>6. (HasStart(f)' <=> HasStart(f)) /\ (HasClose(f)' <=> HasClose(f))
    BY <2>2 DEF HasStart, HasClose
  <2>7. ChildOf(f)'
    BY <2>1, <2>2, <2>3, <2>4, <2>5, <2>6 DEF ChildOf, Launched, Over
  <2>8. KeeperOf(f)'
    BY <2>1, <2>2, <2>3, <2>4, <2>5, <2>6 DEF KeeperOf, ChildOf, Launched, Over
  <2>9. CloseOf(f)'
    BY <2>1, <2>2, <2>3, <2>4, <2>5, <2>6 DEF CloseOf, KeeperOf, ChildOf, Launched, Over
  <2>10. QED
    BY <2>1, <2>2, <2>3, <2>4, <2>5, <2>6, <2>7, <2>8, <2>9, ProcessFrame
<1>10. ASSUME NEW f \in Forward, StartRegisters(f) PROVE ProcessFits'
  <2>1. CASE Signal({f}) /\ Fail(f) /\ Returns(f)
    <3>1. ChildOf(f) /\ KeeperOf(f) /\ CloseOf(f) /\ LaneOf(f)
      BY DEF ProcessFits, LaneFits
    <3>2. UNCHANGED <<reaper, submitting, dropped, closer>>
      BY <1>10, <2>1 DEF StartRegisters
    <3>3. HasStart(f) /\ state[f] # "absent" /\ step[f] = "registering" /\ lane[f] # <<>>
      <4>1. Runs(f, "start", "registering")
        BY <1>10, <2>1 DEF StartRegisters
      <4>2. QED
        BY <4>1, WorkerFacts DEF Runs
    <3>4. /\ ~HasStart(f)' /\ (HasClose(f)' <=> HasStart(f) /\ HasClose(f)) /\ step'[f] = "idle"
          /\ \A h \in Forward \ {f} : lane'[h] = lane[h] /\ step'[h] = step[h]
      <4>1. Returns(f)
        BY <1>10, <2>1
      <4>2. QED
        BY <3>3, <4>1, WorkerFacts
    <3>5. /\ state'[f] = IF state[f] \in Over THEN state[f] ELSE "failed"
          /\ f \in handle' <=> f \in handle /\ state[f] \in Over
          /\ \A h \in Forward \ {f} : state'[h] = state[h] /\ (h \in handle' <=> h \in handle)
      <4>1. Fail(f)
        BY <1>10, <2>1
      <4>2. QED
        BY <4>1, PointFacts
    <3>6. proc'[f] # "alive" /\ (proc'[f] = proc[f] \/ (proc[f] = "alive" /\ proc'[f] = "signalled"))
          /\ \A h \in Forward \ {f} : proc'[h] = proc[h]
      <4>1. Signal({f})
        BY <1>10, <2>1
      <4>2. QED
        BY <4>1, PointFacts
    <3>7. ChildOf(f)'
      BY <3>1, <3>2, <3>3, <3>4, <3>5, <3>6 DEF ChildOf, Launched, Over
    <3>8. KeeperOf(f)'
      BY <3>1, <3>2, <3>3, <3>4, <3>5, <3>6 DEF KeeperOf, ChildOf, Launched, Over
    <3>9. CloseOf(f)'
      BY <3>1, <3>2, <3>3, <3>4, <3>5, <3>6 DEF CloseOf, KeeperOf, ChildOf, Launched, Over
    <3>10. QED
      BY <3>1, <3>2, <3>3, <3>4, <3>5, <3>6, <3>7, <3>8, <3>9, ProcessFrame
  <2>2. CASE Goto(f, "storing") /\ UNCHANGED <<recordVars, proc>>
    <3>1. ChildOf(f) /\ KeeperOf(f) /\ CloseOf(f) /\ LaneOf(f)
      BY DEF ProcessFits, LaneFits
    <3>2. UNCHANGED <<state, handle, lane, proc, reaper, submitting, dropped, closer>>
      BY <1>10, <2>2 DEF StartRegisters, Goto
    <3>3. HasStart(f) /\ state[f] # "absent" /\ step[f] = "registering" /\ lane[f] # <<>>
      <4>1. Runs(f, "start", "registering")
        BY <1>10, <2>2 DEF StartRegisters
      <4>2. QED
        BY <4>1, WorkerFacts DEF Runs
    <3>4. step'[f] = "storing" /\ \A h \in Forward \ {f} : step'[h] = step[h]
      <4>1. Goto(f, "storing")
        BY <1>10, <2>2
      <4>2. QED
        BY <4>1, WorkerFacts
    <3>5. (HasStart(f)' <=> HasStart(f)) /\ (HasClose(f)' <=> HasClose(f))
      BY <3>2 DEF HasStart, HasClose
    <3>6. ChildOf(f)'
      BY <3>1, <3>2, <3>3, <3>4, <3>5 DEF ChildOf, Launched, Over
    <3>7. KeeperOf(f)'
      BY <3>1, <3>2, <3>3, <3>4, <3>5 DEF KeeperOf, ChildOf, Launched, Over
    <3>8. CloseOf(f)'
      BY <3>1, <3>2, <3>3, <3>4, <3>5 DEF CloseOf, KeeperOf, ChildOf, Launched, Over
    <3>9. QED
      BY <3>1, <3>2, <3>3, <3>4, <3>5, <3>6, <3>7, <3>8, ProcessFrame
  <2>3. QED
    BY <1>10, <2>1, <2>2 DEF StartRegisters
<1>11. ASSUME NEW f \in Forward, StartStores(f) PROVE ProcessFits'
  <2>1. CASE state[f] \notin {"starting", "closing"} /\ Signal({f}) /\ Returns(f) /\ UNCHANGED handle
    <3>1. ChildOf(f) /\ KeeperOf(f) /\ CloseOf(f) /\ LaneOf(f)
      BY DEF ProcessFits, LaneFits
    <3>2. UNCHANGED <<state, handle, reaper, submitting, dropped, closer>>
      BY <1>11, <2>1 DEF StartStores
    <3>3. HasStart(f) /\ state[f] # "absent" /\ step[f] = "storing" /\ lane[f] # <<>>
      <4>1. Runs(f, "start", "storing")
        BY <1>11, <2>1 DEF StartStores
      <4>2. QED
        BY <4>1, WorkerFacts DEF Runs
    <3>4. /\ ~HasStart(f)' /\ (HasClose(f)' <=> HasStart(f) /\ HasClose(f)) /\ step'[f] = "idle"
          /\ \A h \in Forward \ {f} : lane'[h] = lane[h] /\ step'[h] = step[h]
      <4>1. Returns(f)
        BY <1>11, <2>1
      <4>2. QED
        BY <3>3, <4>1, WorkerFacts
    <3>5. proc'[f] # "alive" /\ (proc'[f] = proc[f] \/ (proc[f] = "alive" /\ proc'[f] = "signalled"))
          /\ \A h \in Forward \ {f} : proc'[h] = proc[h]
      <4>1. Signal({f})
        BY <1>11, <2>1
      <4>2. QED
        BY <4>1, PointFacts
    <3>6. state[f] \notin {"starting", "closing"}
      BY <1>11, <2>1
    <3>7. ChildOf(f)'
      BY <3>1, <3>2, <3>3, <3>4, <3>5, <3>6 DEF ChildOf, Launched, Over
    <3>8. KeeperOf(f)'
      BY <3>1, <3>2, <3>3, <3>4, <3>5, <3>6 DEF KeeperOf, ChildOf, Launched, Over
    <3>9. CloseOf(f)'
      BY <3>1, <3>2, <3>3, <3>4, <3>5, <3>6 DEF CloseOf, KeeperOf, ChildOf, Launched, Over
    <3>10. QED
      BY <3>1, <3>2, <3>3, <3>4, <3>5, <3>6, <3>7, <3>8, <3>9, ProcessFrame
  <2>2. CASE state[f] = "closing" /\ handle' = handle \cup {f} /\ Returns(f) /\ UNCHANGED proc
    <3>1. ChildOf(f) /\ KeeperOf(f) /\ CloseOf(f) /\ LaneOf(f)
      BY DEF ProcessFits, LaneFits
    <3>2. UNCHANGED <<state, proc, reaper, submitting, dropped, closer>>
      BY <1>11, <2>2 DEF StartStores
    <3>3. HasStart(f) /\ state[f] # "absent" /\ step[f] = "storing" /\ lane[f] # <<>>
      <4>1. Runs(f, "start", "storing")
        BY <1>11, <2>2 DEF StartStores
      <4>2. QED
        BY <4>1, WorkerFacts DEF Runs
    <3>4. /\ ~HasStart(f)' /\ (HasClose(f)' <=> HasStart(f) /\ HasClose(f)) /\ step'[f] = "idle"
          /\ \A h \in Forward \ {f} : lane'[h] = lane[h] /\ step'[h] = step[h]
      <4>1. Returns(f)
        BY <1>11, <2>2
      <4>2. QED
        BY <3>3, <4>1, WorkerFacts
    <3>5. f \in handle' /\ state[f] = "closing" /\ \A h \in Forward \ {f} : h \in handle' <=> h \in handle
      BY <1>11, <2>2
    <3>6. ChildOf(f)'
      BY <3>1, <3>2, <3>3, <3>4, <3>5 DEF ChildOf, Launched, Over
    <3>7. KeeperOf(f)'
      BY <3>1, <3>2, <3>3, <3>4, <3>5 DEF KeeperOf, ChildOf, Launched, Over
    <3>8. CloseOf(f)'
      BY <3>1, <3>2, <3>3, <3>4, <3>5 DEF CloseOf, KeeperOf, ChildOf, Launched, Over
    <3>9. QED
      BY <3>1, <3>2, <3>3, <3>4, <3>5, <3>6, <3>7, <3>8, ProcessFrame
  <2>3. CASE state[f] = "starting" /\ handle' = handle \cup {f} /\ Goto(f, "detecting") /\ UNCHANGED proc
    <3>1. ChildOf(f) /\ KeeperOf(f) /\ CloseOf(f) /\ LaneOf(f)
      BY DEF ProcessFits, LaneFits
    <3>2. UNCHANGED <<state, lane, proc, reaper, submitting, dropped, closer>>
      BY <1>11, <2>3 DEF StartStores, Goto
    <3>3. HasStart(f) /\ state[f] # "absent" /\ step[f] = "storing" /\ lane[f] # <<>>
      <4>1. Runs(f, "start", "storing")
        BY <1>11, <2>3 DEF StartStores
      <4>2. QED
        BY <4>1, WorkerFacts DEF Runs
    <3>4. step'[f] = "detecting" /\ \A h \in Forward \ {f} : step'[h] = step[h]
      <4>1. Goto(f, "detecting")
        BY <1>11, <2>3
      <4>2. QED
        BY <4>1, WorkerFacts
    <3>5. f \in handle' /\ state[f] = "starting" /\ \A h \in Forward \ {f} : h \in handle' <=> h \in handle
      BY <1>11, <2>3
    <3>6. (HasStart(f)' <=> HasStart(f)) /\ (HasClose(f)' <=> HasClose(f))
      BY <3>2 DEF HasStart, HasClose
    <3>7. ChildOf(f)'
      BY <3>1, <3>2, <3>3, <3>4, <3>5, <3>6 DEF ChildOf, Launched, Over
    <3>8. KeeperOf(f)'
      BY <3>1, <3>2, <3>3, <3>4, <3>5, <3>6 DEF KeeperOf, ChildOf, Launched, Over
    <3>9. CloseOf(f)'
      BY <3>1, <3>2, <3>3, <3>4, <3>5, <3>6 DEF CloseOf, KeeperOf, ChildOf, Launched, Over
    <3>10. QED
      BY <3>1, <3>2, <3>3, <3>4, <3>5, <3>6, <3>7, <3>8, <3>9, ProcessFrame
  <2>4. QED
    BY <1>11, <2>1, <2>2, <2>3 DEF StartStores
<1>12. ASSUME NEW f \in Forward, DetectFails(f) PROVE ProcessFits'
  <2>1. ChildOf(f) /\ KeeperOf(f) /\ CloseOf(f) /\ LaneOf(f)
    BY DEF ProcessFits, LaneFits
  <2>2. UNCHANGED <<proc, reaper, submitting, closer>>
    BY <1>12 DEF DetectFails
  <2>3. HasStart(f) /\ state[f] # "absent" /\ step[f] = "detecting" /\ lane[f] # <<>>
    <3>1. Runs(f, "start", "detecting")
      BY <1>12 DEF DetectFails
    <3>2. QED
      BY <3>1, WorkerFacts DEF Runs
  <2>4. /\ ~HasStart(f)' /\ (HasClose(f)' <=> HasStart(f) /\ HasClose(f)) /\ step'[f] = "idle"
        /\ \A h \in Forward \ {f} : lane'[h] = lane[h] /\ step'[h] = step[h]
    <3>1. Returns(f)
      BY <1>12 DEF DetectFails
    <3>2. QED
      BY <2>3, <3>1, WorkerFacts
  <2>5. /\ state'[f] = IF state[f] \in Over THEN state[f] ELSE "failed"
        /\ f \in handle' <=> f \in handle /\ state[f] \in Over
        /\ \A h \in Forward \ {f} : state'[h] = state[h] /\ (h \in handle' <=> h \in handle)
    <3>1. Fail(f)
      BY <1>12 DEF DetectFails
    <3>2. QED
      BY <3>1, PointFacts
  <2>6. /\ f \in dropped' <=> f \in dropped \/ (state[f] \notin Over /\ f \in handle /\ proc[f] # "dead")
        /\ \A h \in Forward \ {f} : h \in dropped' <=> h \in dropped
    BY <1>12 DEF DetectFails
  <2>7. ChildOf(f)'
    BY <2>1, <2>2, <2>3, <2>4, <2>5, <2>6 DEF ChildOf, Launched, Over
  <2>8. KeeperOf(f)'
    BY <2>1, <2>2, <2>3, <2>4, <2>5, <2>6 DEF KeeperOf, ChildOf, Launched, Over
  <2>9. CloseOf(f)'
    BY <2>1, <2>2, <2>3, <2>4, <2>5, <2>6 DEF CloseOf, KeeperOf, ChildOf, Launched, Over
  <2>10. QED
    BY <2>1, <2>2, <2>3, <2>4, <2>5, <2>6, <2>7, <2>8, <2>9, ProcessFrame
<1>13. ASSUME NEW f \in Forward, DetectSucceeds(f) PROVE ProcessFits'
  <2>1. ChildOf(f) /\ KeeperOf(f) /\ CloseOf(f) /\ LaneOf(f)
    BY DEF ProcessFits, LaneFits
  <2>2. UNCHANGED <<state, handle, lane, proc, reaper, submitting, dropped, closer>>
    BY <1>13 DEF DetectSucceeds, Goto
  <2>3. HasStart(f) /\ state[f] # "absent" /\ step[f] = "detecting" /\ lane[f] # <<>>
    <3>1. Runs(f, "start", "detecting")
      BY <1>13 DEF DetectSucceeds
    <3>2. QED
      BY <3>1, WorkerFacts DEF Runs
  <2>4. step'[f] = "proven" /\ \A h \in Forward \ {f} : step'[h] = step[h]
    <3>1. Goto(f, "proven")
      BY <1>13 DEF DetectSucceeds
    <3>2. QED
      BY <3>1, WorkerFacts
  <2>5. (HasStart(f)' <=> HasStart(f)) /\ (HasClose(f)' <=> HasClose(f))
    BY <2>2 DEF HasStart, HasClose
  <2>6. ChildOf(f)'
    BY <2>1, <2>2, <2>3, <2>4, <2>5 DEF ChildOf, Launched, Over
  <2>7. KeeperOf(f)'
    BY <2>1, <2>2, <2>3, <2>4, <2>5 DEF KeeperOf, ChildOf, Launched, Over
  <2>8. CloseOf(f)'
    BY <2>1, <2>2, <2>3, <2>4, <2>5 DEF CloseOf, KeeperOf, ChildOf, Launched, Over
  <2>9. QED
    BY <2>1, <2>2, <2>3, <2>4, <2>5, <2>6, <2>7, <2>8, ProcessFrame
<1>14. ASSUME NEW f \in Forward, StartActivates(f) PROVE ProcessFits'
  <2>1. ChildOf(f) /\ KeeperOf(f) /\ CloseOf(f) /\ LaneOf(f)
    BY DEF ProcessFits, LaneFits
  <2>2. UNCHANGED <<handle, proc, reaper, submitting, dropped, closer>>
    BY <1>14 DEF StartActivates
  <2>3. HasStart(f) /\ state[f] # "absent" /\ step[f] = "proven" /\ lane[f] # <<>>
    <3>1. Runs(f, "start", "proven")
      BY <1>14 DEF StartActivates
    <3>2. QED
      BY <3>1, WorkerFacts DEF Runs
  <2>4. /\ ~HasStart(f)' /\ (HasClose(f)' <=> HasStart(f) /\ HasClose(f)) /\ step'[f] = "idle"
        /\ \A h \in Forward \ {f} : lane'[h] = lane[h] /\ step'[h] = step[h]
    <3>1. Returns(f)
      BY <1>14 DEF StartActivates
    <3>2. QED
      BY <2>3, <3>1, WorkerFacts
  <2>5. state'[f] = (IF state[f] = "starting" THEN "active" ELSE state[f]) /\ \A h \in Forward \ {f} : state'[h] = state[h]
    BY <1>14 DEF StartActivates, Transition, TypeOK
  <2>6. ChildOf(f)'
    BY <2>1, <2>2, <2>3, <2>4, <2>5 DEF ChildOf, Launched, Over
  <2>7. KeeperOf(f)'
    BY <2>1, <2>2, <2>3, <2>4, <2>5 DEF KeeperOf, ChildOf, Launched, Over
  <2>8. CloseOf(f)'
    BY <2>1, <2>2, <2>3, <2>4, <2>5 DEF CloseOf, KeeperOf, ChildOf, Launched, Over
  <2>9. QED
    BY <2>1, <2>2, <2>3, <2>4, <2>5, <2>6, <2>7, <2>8, ProcessFrame
<1>15. ASSUME NEW f \in Forward, CloseReturnsEarly(f) PROVE ProcessFits'
  <2>1. ChildOf(f) /\ KeeperOf(f) /\ CloseOf(f) /\ LaneOf(f)
    BY DEF ProcessFits, LaneFits
  <2>2. UNCHANGED <<state, handle, proc, reaper, submitting, dropped, closer>>
    BY <1>15 DEF CloseReturnsEarly
  <2>3. HasClose(f) /\ ~HasStart(f) /\ step[f] = "idle" /\ lane[f] # <<>>
    <3>1. Runs(f, "close", "idle")
      BY <1>15 DEF CloseReturnsEarly
    <3>2. QED
      BY <3>1, WorkerFacts DEF Runs
  <2>4. /\ ~HasStart(f)' /\ (HasClose(f)' <=> HasStart(f) /\ HasClose(f)) /\ step'[f] = "idle"
        /\ \A h \in Forward \ {f} : lane'[h] = lane[h] /\ step'[h] = step[h]
    <3>1. Returns(f)
      BY <1>15 DEF CloseReturnsEarly
    <3>2. QED
      BY <2>3, <3>1, WorkerFacts
  <2>5. state[f] # "closing"
    BY <1>15 DEF CloseReturnsEarly, RetentionExact
  <2>6. ChildOf(f)'
    BY <2>1, <2>2, <2>3, <2>4, <2>5 DEF ChildOf, Launched, Over
  <2>7. KeeperOf(f)'
    BY <2>1, <2>2, <2>3, <2>4, <2>5 DEF KeeperOf, ChildOf, Launched, Over
  <2>8. CloseOf(f)'
    BY <2>1, <2>2, <2>3, <2>4, <2>5 DEF CloseOf, KeeperOf, ChildOf, Launched, Over
  <2>9. QED
    BY <2>1, <2>2, <2>3, <2>4, <2>5, <2>6, <2>7, <2>8, ProcessFrame
<1>16. ASSUME NEW f \in Forward, CloseBegins(f) PROVE ProcessFits'
  <2>1. ChildOf(f) /\ KeeperOf(f) /\ CloseOf(f) /\ LaneOf(f)
    BY DEF ProcessFits, LaneFits
  <2>2. UNCHANGED <<handle, proc, reaper, submitting, dropped, closer>>
    BY <1>16 DEF CloseBegins
  <2>3. HasClose(f) /\ ~HasStart(f) /\ step[f] = "idle" /\ lane[f] # <<>>
    <3>1. Runs(f, "close", "idle")
      BY <1>16 DEF CloseBegins
    <3>2. QED
      BY <3>1, WorkerFacts DEF Runs
  <2>4. /\ \/ state'[f] = state[f]
           \/ state'[f] = "closed" /\ state[f] = "failed" /\ f \notin handle
           \/ state'[f] = "closing" /\ state[f] \in {"starting", "active"}
        /\ \A h \in Forward \ {f} : state'[h] = state[h]
    <3>1. CloseId(f)
      BY <1>16 DEF CloseBegins
    <3>2. QED
      BY <3>1, PointFacts
  <2>5. /\ ~HasStart(f)' /\ step'[f] \in {"idle", "signalling"} /\ (f \in handle => HasClose(f)')
        /\ \A h \in Forward \ {f} : lane'[h] = lane[h] /\ step'[h] = step[h]
    <3>1. CASE f \in handle /\ Goto(f, "signalling")
      BY <2>3, <3>1, WorkerFacts DEF HasStart, HasClose
    <3>2. CASE f \notin handle /\ Returns(f)
      BY <2>3, <3>2, WorkerFacts
    <3>3. QED
      BY <1>16, <3>1, <3>2 DEF CloseBegins
  <2>6. ChildOf(f)'
    BY <2>1, <2>2, <2>3, <2>4, <2>5 DEF ChildOf, Launched, Over
  <2>7. KeeperOf(f)'
    BY <2>1, <2>2, <2>3, <2>4, <2>5 DEF KeeperOf, ChildOf, Launched, Over
  <2>8. CloseOf(f)'
    BY <2>1, <2>2, <2>3, <2>4, <2>5 DEF CloseOf, KeeperOf, ChildOf, Launched, Over
  <2>9. QED
    BY <2>1, <2>2, <2>3, <2>4, <2>5, <2>6, <2>7, <2>8, ProcessFrame
<1>17. ASSUME NEW f \in Forward, CloseSignals(f) PROVE ProcessFits'
  <2>1. ChildOf(f) /\ KeeperOf(f) /\ CloseOf(f) /\ LaneOf(f)
    BY DEF ProcessFits, LaneFits
  <2>2. UNCHANGED <<state, handle, reaper, submitting, dropped, closer>>
    BY <1>17 DEF CloseSignals
  <2>3. HasClose(f) /\ ~HasStart(f) /\ step[f] = "signalling" /\ lane[f] # <<>>
    <3>1. Runs(f, "close", "signalling")
      BY <1>17 DEF CloseSignals
    <3>2. QED
      BY <3>1, WorkerFacts DEF Runs
  <2>4. /\ ~HasStart(f)' /\ (HasClose(f)' <=> HasStart(f) /\ HasClose(f)) /\ step'[f] = "idle"
        /\ \A h \in Forward \ {f} : lane'[h] = lane[h] /\ step'[h] = step[h]
    <3>1. Returns(f)
      BY <1>17 DEF CloseSignals
    <3>2. QED
      BY <2>3, <3>1, WorkerFacts
  <2>5. proc'[f] # "alive" /\ (proc'[f] = proc[f] \/ (proc[f] = "alive" /\ proc'[f] = "signalled"))
        /\ \A h \in Forward \ {f} : proc'[h] = proc[h]
    <3>1. Signal({f})
      BY <1>17 DEF CloseSignals
    <3>2. QED
      BY <3>1, PointFacts
  <2>6. ChildOf(f)'
    BY <2>1, <2>2, <2>3, <2>4, <2>5 DEF ChildOf, Launched, Over
  <2>7. KeeperOf(f)'
    BY <2>1, <2>2, <2>3, <2>4, <2>5 DEF KeeperOf, ChildOf, Launched, Over
  <2>8. CloseOf(f)'
    BY <2>1, <2>2, <2>3, <2>4, <2>5 DEF CloseOf, KeeperOf, ChildOf, Launched, Over
  <2>9. QED
    BY <2>1, <2>2, <2>3, <2>4, <2>5, <2>6, <2>7, <2>8, ProcessFrame
<1>18. ASSUME NEW f \in Forward, ChildExits(f) PROVE ProcessFits'
  <2>1. ChildOf(f) /\ KeeperOf(f) /\ CloseOf(f) /\ LaneOf(f)
    BY DEF ProcessFits, LaneFits
  <2>2. UNCHANGED <<state, handle, lane, step, submitting, dropped, closer>>
    BY <1>18 DEF ChildExits
  <2>3. proc[f] \in {"alive", "signalled"} /\ proc'[f] = "dead" /\ reaper'[f] = "returned"
    BY <1>18 DEF ChildExits, TypeOK
  <2>4. \A h \in Forward \ {f} : proc'[h] = proc[h] /\ reaper'[h] = reaper[h]
    BY <1>18 DEF ChildExits, TypeOK
  <2>5. (HasStart(f)' <=> HasStart(f)) /\ (HasClose(f)' <=> HasClose(f))
    BY <2>2 DEF HasStart, HasClose
  <2>6. ChildOf(f)'
    BY <2>1, <2>2, <2>3, <2>4, <2>5 DEF ChildOf, Launched, Over
  <2>7. KeeperOf(f)'
    BY <2>1, <2>2, <2>3, <2>4, <2>5 DEF KeeperOf, ChildOf, Launched, Over
  <2>8. CloseOf(f)'
    BY <2>1, <2>2, <2>3, <2>4, <2>5 DEF CloseOf, KeeperOf, ChildOf, Launched, Over
  <2>9. QED
    BY <2>1, <2>2, <2>3, <2>4, <2>5, <2>6, <2>7, <2>8, ProcessFrame
<1>19. ASSUME NEW f \in Forward, Unregister(f) PROVE ProcessFits'
  <2>1. ChildOf(f) /\ KeeperOf(f) /\ CloseOf(f) /\ LaneOf(f)
    BY DEF ProcessFits, LaneFits
  <2>2. UNCHANGED <<state, handle, lane, step, proc, submitting, dropped, closer>>
    BY <1>19 DEF Unregister
  <2>3. reaper[f] = "returned" /\ reaper'[f] = "notifying" /\ \A h \in Forward \ {f} : reaper'[h] = reaper[h]
    BY <1>19 DEF Unregister, TypeOK
  <2>4. (HasStart(f)' <=> HasStart(f)) /\ (HasClose(f)' <=> HasClose(f))
    BY <2>2 DEF HasStart, HasClose
  <2>5. ChildOf(f)'
    BY <2>1, <2>2, <2>3, <2>4 DEF ChildOf, Launched, Over
  <2>6. KeeperOf(f)'
    BY <2>1, <2>2, <2>3, <2>4 DEF KeeperOf, ChildOf, Launched, Over
  <2>7. CloseOf(f)'
    BY <2>1, <2>2, <2>3, <2>4 DEF CloseOf, KeeperOf, ChildOf, Launched, Over
  <2>8. QED
    BY <2>1, <2>2, <2>3, <2>4, <2>5, <2>6, <2>7, ProcessFrame
<1>20. ASSUME NEW f \in Forward, OnProcessExit(f) PROVE ProcessFits'
  <2>1. ChildOf(f) /\ KeeperOf(f) /\ CloseOf(f) /\ LaneOf(f)
    BY DEF ProcessFits, LaneFits
  <2>2. UNCHANGED <<lane, step, proc, submitting, dropped, closer>>
    BY <1>20 DEF OnProcessExit
  <2>3. state[f] \notin {"absent", "closed"} => f \in Stored
    BY DEF RetentionExact
  <2>4. reaper[f] = "notifying" /\ reaper'[f] # "waiting" /\ \A h \in Forward \ {f} : reaper'[h] = reaper[h]
    BY <1>20 DEF OnProcessExit, TypeOK
  <2>5. reaper'[f] = "done" => state'[f] \in Over \/ (state[f] \in {"absent", "closed"} /\ state'[f] = state[f])
    BY <1>20, <2>3 DEF OnProcessExit, Transition, TypeOK, Over
  <2>6. (state'[f] = state[f] \/ state'[f] = "closed") /\ \A h \in Forward \ {f} : state'[h] = state[h] /\ (h \in handle' <=> h \in handle)
    BY <1>20 DEF OnProcessExit, Transition, TypeOK
  <2>7. (HasStart(f)' <=> HasStart(f)) /\ (HasClose(f)' <=> HasClose(f))
    BY <2>2 DEF HasStart, HasClose
  <2>8. ChildOf(f)'
    BY <2>1, <2>2, <2>3, <2>4, <2>5, <2>6, <2>7 DEF ChildOf, Launched, Over
  <2>9. KeeperOf(f)'
    BY <2>1, <2>2, <2>3, <2>4, <2>5, <2>6, <2>7 DEF KeeperOf, ChildOf, Launched, Over
  <2>10. CloseOf(f)'
    BY <2>1, <2>2, <2>3, <2>4, <2>5, <2>6, <2>7 DEF CloseOf, KeeperOf, ChildOf, Launched, Over
  <2>11. QED
    BY <2>1, <2>2, <2>3, <2>4, <2>5, <2>6, <2>7, <2>8, <2>9, <2>10, ProcessFrame
<1>21. ASSUME NEW f \in Forward, ExitFails(f) PROVE ProcessFits'
  <2>1. ChildOf(f) /\ KeeperOf(f) /\ CloseOf(f) /\ LaneOf(f)
    BY DEF ProcessFits, LaneFits
  <2>2. UNCHANGED <<lane, step, proc, submitting, dropped, closer>>
    BY <1>21 DEF ExitFails
  <2>3. /\ state'[f] = IF state[f] \in Over THEN state[f] ELSE "failed"
        /\ f \in handle' <=> f \in handle /\ state[f] \in Over
        /\ \A h \in Forward \ {f} : state'[h] = state[h] /\ (h \in handle' <=> h \in handle)
    <3>1. Fail(f)
      BY <1>21 DEF ExitFails
    <3>2. QED
      BY <3>1, PointFacts
  <2>4. reaper[f] = "failing" /\ reaper'[f] = "done" /\ \A h \in Forward \ {f} : reaper'[h] = reaper[h]
    BY <1>21 DEF ExitFails, TypeOK
  <2>5. (HasStart(f)' <=> HasStart(f)) /\ (HasClose(f)' <=> HasClose(f))
    BY <2>2 DEF HasStart, HasClose
  <2>6. ChildOf(f)'
    BY <2>1, <2>2, <2>3, <2>4, <2>5 DEF ChildOf, Launched, Over
  <2>7. KeeperOf(f)'
    BY <2>1, <2>2, <2>3, <2>4, <2>5 DEF KeeperOf, ChildOf, Launched, Over
  <2>8. CloseOf(f)'
    BY <2>1, <2>2, <2>3, <2>4, <2>5 DEF CloseOf, KeeperOf, ChildOf, Launched, Over
  <2>9. QED
    BY <2>1, <2>2, <2>3, <2>4, <2>5, <2>6, <2>7, <2>8, ProcessFrame
<1>22. CASE StopExecutor
  <2>1. UNCHANGED <<step, proc, reaper, dropped, submitting>> /\ closer' # "serving"
    BY <1>22 DEF StopExecutor
  <2>2. PICK cut \in SUBSET Forward :
          /\ \A h \in Forward : lane'[h] = <<>> \/ (lane'[h] = SubSeq(lane[h], 1, 1) /\ lane[h] # <<>>)
          /\ \A h \in cut : "start" \in Range(lane[h]) /\ step[h] = "idle"
          /\ \A h \in Forward :
               /\ state'[h] = IF h \in cut /\ state[h] \notin Over THEN "failed" ELSE state[h]
               /\ h \in handle' <=> h \in handle /\ ~(h \in cut /\ state[h] \notin Over)
    <3>1. PICK held \in SUBSET {h \in Forward : lane[h] # <<>> /\ step[h] = "idle"} :
            LET kept == held \cup {h \in Forward : step[h] # "idle"}
                cut  == {h \in Forward \ kept : "start" \in Range(lane[h])}
            IN  /\ lane' = [h \in Forward |->
                              IF h \in kept THEN SubSeq(lane[h], 1, 1) ELSE <<>>]
                /\ state' = [h \in Forward |->
                               IF h \in cut /\ state[h] \notin Over THEN "failed" ELSE state[h]]
                /\ handle' = handle \ {h \in cut : state[h] \notin Over}
      BY <1>22 DEF StopExecutor
    <3> DEFINE kept == held \cup {h \in Forward : step[h] # "idle"}
               cut  == {h \in Forward \ kept : "start" \in Range(lane[h])}
    <3>0. \A h \in Forward : step[h] # "idle" => lane[h] # <<>>
      BY SMTT(30), ZenonT(30) DEF LaneFits, LaneOf, Launching, Launched, TypeOK
    <3>2. \A h \in Forward : lane'[h] = <<>> \/ (lane'[h] = SubSeq(lane[h], 1, 1) /\ lane[h] # <<>>)
      BY <3>0, <3>1
    <3>3. \A h \in cut : "start" \in Range(lane[h]) /\ step[h] = "idle"
      OBVIOUS
    <3>4. \A h \in Forward :
            /\ state'[h] = IF h \in cut /\ state[h] \notin Over THEN "failed" ELSE state[h]
            /\ h \in handle' <=> h \in handle /\ ~(h \in cut /\ state[h] \notin Over)
      BY <3>1
    <3>5. cut \in SUBSET Forward
      OBVIOUS
    <3> HIDE DEF cut
    <3>6. QED
      BY <3>2, <3>3, <3>4, <3>5
  <2>3. ASSUME NEW h \in Forward PROVE (ChildOf(h) /\ KeeperOf(h) /\ CloseOf(h))'
    <3>1. ChildOf(h) /\ KeeperOf(h) /\ LaneOf(h)
      BY DEF ProcessFits, LaneFits
    <3>2. lane'[h] = <<>> \/ (lane'[h] = SubSeq(lane[h], 1, 1) /\ lane[h] # <<>>)
      BY <2>2
    <3>3. HasStart(h)' => HasStart(h)
      <4>1. CASE lane'[h] = <<>>
        BY <4>1 DEF HasStart
      <4>2. CASE lane'[h] = SubSeq(lane[h], 1, 1) /\ lane[h] # <<>>
        BY <3>1, <4>2 DEF LaneOf, Lanes, HasStart
      <4>3. QED
        BY <3>2, <4>1, <4>2
    <3>4. h \in cut => HasStart(h) /\ step[h] = "idle"
      <4>1. "start" \in Range(lane[h]) => HasStart(h)
        BY <3>1 DEF LaneOf, Lanes, HasStart
      <4>2. QED
        BY <2>2, <4>1
    <3>5. ChildOf(h)'
      BY <2>1, <2>2, <3>1, <3>3, <3>4 DEF ChildOf, Launched, Over
    <3>6. KeeperOf(h)'
      BY <2>1, <2>2, <3>1, <3>4 DEF KeeperOf, ChildOf, Launched, Over
    <3>7. QED
      BY <2>1, <3>5, <3>6 DEF CloseOf
  <2>4. QED
    BY <2>3 DEF ProcessFits
<1>23. CASE ShutdownBegins
  <2>1. ASSUME NEW h \in Forward PROVE (ChildOf(h) /\ KeeperOf(h) /\ CloseOf(h))'
    <3>1. ChildOf(h) /\ KeeperOf(h) /\ CloseOf(h)
      BY DEF ProcessFits
    <3>2. UNCHANGED <<lane, step, state, handle, reaper, dropped, submitting>> /\ closer' # "serving"
      BY <1>23 DEF ShutdownBegins
    <3>3. proc'[h] = proc[h] \/ (proc[h] = "alive" /\ proc'[h] = "signalled")
      BY <1>23 DEF ShutdownBegins
    <3>4. QED
      BY <3>1, <3>2, <3>3 DEF ChildOf, KeeperOf, CloseOf, HasStart, HasClose
  <2>2. QED
    BY <2>1 DEF ProcessFits
<1>24. CASE ShutdownCloses
  <2>0. PICK f \in Forward : f = Head(walk)
    BY <1>24, HeadTailProperties DEF ShutdownCloses, TypeOK
  <2>1. ChildOf(f) /\ KeeperOf(f) /\ CloseOf(f) /\ LaneOf(f)
    BY DEF ProcessFits, LaneFits
  <2>2. UNCHANGED <<handle, lane, step, proc, reaper, submitting, dropped>>
    BY <1>24 DEF ShutdownCloses
  <2>3. closer' # "serving"
    BY <1>24 DEF ShutdownCloses
  <2>4. /\ \/ state'[f] = state[f]
           \/ state'[f] = "closed" /\ state[f] = "failed" /\ f \notin handle
           \/ state'[f] = "closing" /\ state[f] \in {"starting", "active"}
        /\ \A h \in Forward \ {f} : state'[h] = state[h]
    <3>1. CloseId(f)
      BY <1>24, <2>0 DEF ShutdownCloses
    <3>2. QED
      BY <2>0, <3>1, PointFacts
  <2>5. (HasStart(f)' <=> HasStart(f)) /\ (HasClose(f)' <=> HasClose(f))
    BY <2>2 DEF HasStart, HasClose
  <2>6. ChildOf(f)'
    BY <2>1, <2>2, <2>3, <2>4, <2>5 DEF ChildOf, Launched, Over
  <2>7. KeeperOf(f)'
    BY <2>1, <2>2, <2>3, <2>4, <2>5 DEF KeeperOf, ChildOf, Launched, Over
  <2>8. CloseOf(f)'
    BY <2>1, <2>2, <2>3, <2>4, <2>5 DEF CloseOf, KeeperOf, ChildOf, Launched, Over
  <2>9. QED
    BY <2>1, <2>2, <2>3, <2>4, <2>5, <2>6, <2>7, <2>8, ProcessFrame
<1>25. CASE ShutdownSignals
  <2>1. ASSUME NEW h \in Forward PROVE (ChildOf(h) /\ KeeperOf(h) /\ CloseOf(h))'
    <3>1. ChildOf(h) /\ KeeperOf(h) /\ CloseOf(h)
      BY DEF ProcessFits
    <3>2. UNCHANGED <<lane, step, state, handle, reaper, dropped, submitting>> /\ closer' # "serving"
      BY <1>25 DEF ShutdownSignals
    <3>3. proc'[h] = proc[h] \/ (proc[h] = "alive" /\ proc'[h] = "signalled")
      BY <1>25 DEF ShutdownSignals, Signal
    <3>4. QED
      BY <3>1, <3>2, <3>3 DEF ChildOf, KeeperOf, CloseOf, HasStart, HasClose
  <2>2. QED
    BY <2>1 DEF ProcessFits
<1>26. CASE ShutdownRaises
  <2>1. ASSUME NEW h \in Forward PROVE (ChildOf(h) /\ KeeperOf(h) /\ CloseOf(h))'
    <3>1. ChildOf(h) /\ KeeperOf(h) /\ CloseOf(h)
      BY DEF ProcessFits
    <3>2. UNCHANGED <<lane, step, state, handle, reaper, dropped, submitting>> /\ closer' # "serving"
      BY <1>26 DEF ShutdownRaises
    <3>3. proc'[h] = proc[h] \/ (proc[h] = "alive" /\ proc'[h] = "signalled")
      BY <1>26 DEF ShutdownRaises
    <3>4. QED
      BY <3>1, <3>2, <3>3 DEF ChildOf, KeeperOf, CloseOf, HasStart, HasClose
  <2>2. QED
    BY <2>1 DEF ProcessFits
<1>27. CASE RunnerCloses
  <2>1. ASSUME NEW h \in Forward PROVE (ChildOf(h) /\ KeeperOf(h) /\ CloseOf(h))'
    <3>1. ChildOf(h) /\ KeeperOf(h) /\ CloseOf(h)
      BY DEF ProcessFits
    <3>2. UNCHANGED <<lane, step, state, handle, reaper, dropped, submitting>> /\ closer' # "serving"
      BY <1>27 DEF RunnerCloses
    <3>3. proc'[h] = proc[h] \/ (proc[h] = "alive" /\ proc'[h] = "signalled")
      BY <1>27 DEF RunnerCloses, Signal
    <3>4. QED
      BY <3>1, <3>2, <3>3 DEF ChildOf, KeeperOf, CloseOf, HasStart, HasClose
  <2>2. QED
    BY <2>1 DEF ProcessFits
<1>28. CASE UNCHANGED vars
  BY <1>28 DEF vars, ProcessFits, ChildOf, KeeperOf, CloseOf, HasStart, HasClose
<1>29. QED
  BY <1>1, <1>2, <1>3, <1>4, <1>5, <1>6, <1>7, <1>8, <1>9, <1>10, <1>11, <1>12, <1>13,
     <1>14, <1>15, <1>16, <1>17, <1>18, <1>19, <1>20, <1>21, <1>22, <1>23, <1>24, <1>25,
     <1>26, <1>27, <1>28 DEF Next, Request, Submission, Shutdown, Worker, Reaper

\* What is over stays over.
StaysOver ==
    \A f \in Forward : /\ state[f] = "closed" => state'[f] = "closed"
                       /\ state[f] = "failed" => state'[f] \in Over

\* No step leaves CLOSED, or FAILED for anything but CLOSED.
LEMMA FinalStep ==
    ASSUME ForwardInv, [Next]_vars
    PROVE  StaysOver
<1> USE DEF ForwardInv, recordVars, commandVars, childVars, requestVars, closerVars
<1>1. ASSUME NEW f \in Forward, OpenForward(f) PROVE StaysOver
  BY <1>1 DEF OpenForward, StaysOver, Over, TypeOK
<1>2. ASSUME NEW f \in Forward, CloseForward(f) PROVE StaysOver
  <2>1. CloseId(f)
    BY <1>2 DEF CloseForward, PrepareClose, CloseId
  <2>2. QED
    BY <2>1, PointFacts DEF StaysOver, Over
<1>3. ASSUME NEW f \in Forward, CloseSubmitted(f) PROVE StaysOver
  BY <1>3 DEF CloseSubmitted, StaysOver, Over, TypeOK
<1>4. ASSUME NEW f \in Forward, CloseRejected(f) PROVE StaysOver
  BY <1>4 DEF CloseRejected, Transition, RejectClose, StaysOver, Over, TypeOK
<1>5. ASSUME NEW f \in Forward, StartReturnsEarly(f) PROVE StaysOver
  BY <1>5 DEF StartReturnsEarly, StaysOver, Over, TypeOK
<1>6. ASSUME NEW f \in Forward, StartBegins(f) PROVE StaysOver
  BY <1>6 DEF StartBegins, StaysOver, Over, TypeOK
<1>7. ASSUME NEW f \in Forward, StartFails(f) PROVE StaysOver
  <2>1. Fail(f)
    BY <1>7 DEF StartFails
  <2>2. QED
    BY <2>1, PointFacts DEF StaysOver, Over
<1>8. ASSUME NEW f \in Forward, RunnerIsOpen(f) PROVE StaysOver
  BY <1>8 DEF RunnerIsOpen, StaysOver, Over, TypeOK
<1>9. ASSUME NEW f \in Forward, StartSpawns(f) PROVE StaysOver
  BY <1>9 DEF StartSpawns, StaysOver, Over, TypeOK
<1>10. ASSUME NEW f \in Forward, StartRegisters(f) PROVE StaysOver
  <2>1. CASE Fail(f)
    BY <2>1, PointFacts DEF StaysOver, Over
  <2>2. CASE state' = state
    BY <2>2 DEF StaysOver, Over
  <2>3. QED
    BY <1>10, <2>1, <2>2 DEF StartRegisters
<1>11. ASSUME NEW f \in Forward, StartStores(f) PROVE StaysOver
  BY <1>11 DEF StartStores, StaysOver, Over, TypeOK
<1>12. ASSUME NEW f \in Forward, DetectFails(f) PROVE StaysOver
  <2>1. Fail(f)
    BY <1>12 DEF DetectFails
  <2>2. QED
    BY <2>1, PointFacts DEF StaysOver, Over
<1>13. ASSUME NEW f \in Forward, DetectSucceeds(f) PROVE StaysOver
  BY <1>13 DEF DetectSucceeds, StaysOver, Over, TypeOK
<1>14. ASSUME NEW f \in Forward, StartActivates(f) PROVE StaysOver
  BY <1>14 DEF StartActivates, Transition, StaysOver, Over, TypeOK
<1>15. ASSUME NEW f \in Forward, CloseReturnsEarly(f) PROVE StaysOver
  BY <1>15 DEF CloseReturnsEarly, StaysOver, Over, TypeOK
<1>16. ASSUME NEW f \in Forward, CloseBegins(f) PROVE StaysOver
  <2>1. CloseId(f)
    BY <1>16 DEF CloseBegins
  <2>2. QED
    BY <2>1, PointFacts DEF StaysOver, Over
<1>17. ASSUME NEW f \in Forward, CloseSignals(f) PROVE StaysOver
  BY <1>17 DEF CloseSignals, StaysOver, Over, TypeOK
<1>18. ASSUME NEW f \in Forward, ChildExits(f) PROVE StaysOver
  BY <1>18 DEF ChildExits, StaysOver, Over, TypeOK
<1>19. ASSUME NEW f \in Forward, Unregister(f) PROVE StaysOver
  BY <1>19 DEF Unregister, StaysOver, Over, TypeOK
<1>20. ASSUME NEW f \in Forward, OnProcessExit(f) PROVE StaysOver
  BY <1>20 DEF OnProcessExit, Transition, StaysOver, Over, TypeOK
<1>21. ASSUME NEW f \in Forward, ExitFails(f) PROVE StaysOver
  <2>1. Fail(f)
    BY <1>21 DEF ExitFails
  <2>2. QED
    BY <2>1, PointFacts DEF StaysOver, Over
<1>22. CASE StopExecutor
  BY <1>22 DEF StopExecutor, StaysOver, Over, TypeOK
<1>23. CASE ShutdownBegins
  BY <1>23 DEF ShutdownBegins, StaysOver, Over, TypeOK
<1>24. CASE ShutdownCloses
  <2>1. PICK f \in Forward : CloseId(f)
    BY <1>24, HeadTailProperties DEF ShutdownCloses, TypeOK
  <2>2. QED
    BY <2>1, PointFacts DEF StaysOver, Over
<1>25. CASE ShutdownSignals
  BY <1>25 DEF ShutdownSignals, StaysOver, Over, TypeOK
<1>26. CASE ShutdownRaises
  BY <1>26 DEF ShutdownRaises, StaysOver, Over, TypeOK
<1>27. CASE RunnerCloses
  BY <1>27 DEF RunnerCloses, StaysOver, Over, TypeOK
<1>28. CASE UNCHANGED vars
  BY <1>28 DEF vars, StaysOver, Over
<1>29. QED
  BY <1>1, <1>2, <1>3, <1>4, <1>5, <1>6, <1>7, <1>8, <1>9, <1>10, <1>11, <1>12, <1>13,
     <1>14, <1>15, <1>16, <1>17, <1>18, <1>19, <1>20, <1>21, <1>22, <1>23, <1>24, <1>25,
     <1>26, <1>27, <1>28 DEF Next, Request, Submission, Shutdown, Worker, Reaper

-----------------------------------------------------------------------------
(* The theorems.                                                           *)

\* The daemon starts with no forward, and so with the invariant.
LEMMA InitInv == Init => ForwardInv
<1> SUFFICES ASSUME Init PROVE ForwardInv
  OBVIOUS
<1> USE DEF Init
<1>1. <<>> \in Seq(Forward) /\ <<>> \in Seq({"start", "close"}) /\ Len(<<>>) = 0
  BY EmptySeq
<1>2. TypeOK
  BY <1>1 DEF TypeOK, States
<1>3. Stored = {} /\ IsInjective(<<>>)
  BY DEF Stored, Range, IsInjective
<1>4. RetentionExact /\ OrderFits
  <2>1. {f \in Stored : state[f] = "closed"} = {} /\ Cardinality({}) = 0
    BY <1>3, FS_EmptySet
  <2>2. QED
    BY <1>3, <2>1, ForwardAssumption DEF RetentionExact, OrderFits
<1>5. LaneFits
  BY DEF LaneFits, LaneOf, Lanes, Launching, Launched
<1>6. ProcessFits
  BY LaneFacts DEF ProcessFits, ChildOf, KeeperOf, CloseOf, HasStart, HasClose, Launched, Over
<1>7. QED
  BY <1>2, <1>4, <1>5, <1>6 DEF ForwardInv, SelectorFits

\* Every step preserves the invariant.
LEMMA StepInv == ForwardInv /\ [Next]_vars => ForwardInv'
<1> SUFFICES ASSUME ForwardInv, [Next]_vars PROVE ForwardInv'
  OBVIOUS
<1>1. order' \in Seq(Forward) /\ OrderFits' /\ RetentionExact'
  BY RecordsStep
<1>2. LaneFits'
  BY LaneStep
<1>3. TypeOK'
  BY <1>1, <1>2, TypeStep
<1>4. ProcessFits' /\ SelectorFits'
  BY <1>3, ProcessStep, SelectorStep
<1>5. QED
  BY <1>1, <1>2, <1>3, <1>4 DEF ForwardInv

\* The inductive invariant holds throughout: the types, the table of records,
\* the lanes and the control points of their workers, the children with their
\* reapers and keepers, and the closes to come.
THEOREM ForwardInvariant == Spec => []ForwardInv
<1>1. Init => ForwardInv
  BY InitInv
<1>2. ForwardInv /\ [Next]_vars => ForwardInv'
  BY StepInv
<1>3. QED
  BY <1>1, <1>2, PTL DEF Spec

\* No process without a keeper, wherever the start, the exit, a close, a refused
\* close and the stop of the daemon fall (start_forward, _fail,
\* reject_pending_close, _on_process_exit and shutdown of forward_runtime.py); and
\* while the daemon serves a forward that is CLOSING with a live child has a close
\* on its way.
THEOREM ProcessesKeptAlways == Spec => []ProcessesKept
<1>1. ForwardInv => ProcessesKept
  <2> SUFFICES ASSUME ForwardInv PROVE ProcessesKept
    OBVIOUS
  <2> USE DEF ForwardInv
  <2>1. ASSUME NEW f \in Forward, proc[f] = "alive"
        PROVE  \/ step[f] \in {"registering", "storing"}
               \/ f \in handle /\ f \in Stored /\ state[f] # "closed"
               \/ f \in dropped
    <3>1. ChildOf(f) /\ KeeperOf(f)
      BY DEF ProcessFits
    <3>2. state[f] # "absent" /\ (state[f] # "closed" => f \in Stored)
      BY <2>1, <3>1 DEF ChildOf, RetentionExact
    <3>3. QED
      BY <2>1, <3>1, <3>2 DEF KeeperOf
  <2>2. ASSUME NEW f \in Forward,
               state[f] = "closing" /\ proc[f] = "alive" /\ closer = "serving"
        PROVE  f \in submitting \/ "close" \in Range(lane[f])
    <3>1. f \in submitting \/ HasClose(f)
      BY <2>2 DEF ProcessFits, CloseOf
    <3>2. HasClose(f) => "close" \in Range(lane[f])
      BY LaneFacts DEF HasClose
    <3>3. QED
      BY <3>1, <3>2
  <2>3. QED
    BY <2>1, <2>2 DEF ProcessesKept, ProcessHasKeeper, ClosingIsDriven
<1>2. QED
  BY <1>1, ForwardInvariant, PTL

\* The records: their types, at most MaxRetained of them CLOSED, none lost that is
\* not CLOSED (_evict_closed_locked), and ACTIVE only with a child that lives or
\* whose exit the reaper has yet to report (start_forward, _on_process_exit).
THEOREM RecordsSoundAlways == Spec => []RecordsSound
<1>1. ForwardInv => RecordsSound
  <2> SUFFICES ASSUME ForwardInv PROVE RecordsSound
    OBVIOUS
  <2> USE DEF ForwardInv
  <2>1. ASSUME NEW f \in Forward, state[f] = "active"
        PROVE  proc[f] \in {"alive", "signalled"} \/ reaper[f] \notin {"waiting", "done"}
    <3>1. ChildOf(f) /\ proc[f] \in {"none", "alive", "signalled", "dead"}
      BY DEF ProcessFits, TypeOK
    <3>2. QED
      BY <2>1, <3>1 DEF ChildOf, Over
  <2>2. QED
    BY <2>1 DEF RecordsSound, ActiveIsLive
<1>2. QED
  BY <1>1, ForwardInvariant, PTL

\* CLOSED is final and FAILED is left only for CLOSED (_transition_locked, _fail,
\* reject_pending_close and _close_forward_id), whoever comes last.
THEOREM OverIsFinalAlways == Spec => OverIsFinal
<1>1. ForwardInv /\ [Next]_vars => [StaysOver]_vars
  BY FinalStep
<1>2. [StaysOver]_vars <=> [\A f \in Forward :
         /\ state[f] = "closed" => state'[f] = "closed"
         /\ state[f] = "failed" => state'[f] \in Over]_vars
  BY DEF StaysOver
<1>3. QED
  BY <1>1, <1>2, ForwardInvariant, PTL DEF Spec, OverIsFinal

\* Retention (_evict_closed_locked): closing a forward evicts the oldest closed
\* records, only when more than the limit would stay, and keeps the order of the
\* others, whichever of five actions closed it.
THEOREM OldestEvictedAlways == Spec => OldestEvicted
<1>1. ForwardInv /\ [Next]_vars => [EvictsOldest]_vars
  BY RecordsStep
<1>2. QED
  BY <1>1, ForwardInvariant, PTL DEF Spec, OldestEvicted

=============================================================================
