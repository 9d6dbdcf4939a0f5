----------------------- MODULE TransferRuntimeProofs -----------------------
(***************************************************************************)
(* Theorems about the transfer runtime, for any finite set of transfers,    *)
(* any services and limits: the pool keeps its caps, an active transfer has *)
(* a keeper, the records are sound and a finished transfer stays as it is.  *)
(***************************************************************************)
EXTENDS TransferRuntime, SelectionTheorems

Active(t)  == state[t] \notin Terminal \cup {"absent"}
Serving    == closer = "serving"

(* The table and its retention. *)
OrderFits ==
    /\ IsInjective(order)
    /\ Cardinality({t \in Stored : state[t] \in Terminal}) <= MaxRetained

(* The pool counts every worker thread that may use a connection, and never *)
(* more of a service than its limit.                                       *)
PoolFits ==
    /\ IsInjective(slots)
    /\ Len(slots) <= MaxConcurrent
    /\ \A s \in Service : Cardinality(ServiceWorkers(s, slots)) <= ServiceLimit[s]

(* The order in which the daemon stops; shutdown() fails accepted records. *)
StopFits ==
    /\ accepting <=> Serving
    /\ Serving \/ ~executorOpen
    /\ \A t \in stuck : state[t] # "absent"

(* A finished worker promotes a transfer that no other one starts. *)
PromoteFits ==
    /\ \A u \in Transfer : \A v \in promoting[u] :
         thread[u] = "promoting" /\ thread[v] = "registered" /\ command[v] = "done"
    /\ \A u, w \in Transfer : u # w => promoting[u] \cap promoting[w] = {}

(* An active record is in the table, and shutdown() knows of it. *)
RecordOf(t) ==
    /\ t \in Stored => state[t] # "absent"
    /\ Active(t) => t \in Stored
    /\ state[t] = "absent" => command[t] = "none" /\ thread[t] = "none"
    /\ closer = "failing" /\ Active(t) => t \in stuck
    /\ closer = "closed" => ~Active(t)

(* The slot, the thread and the record of a transfer agree. *)
WorkerOf(t) ==
    /\ thread[t] \in {"registered", "started", "acquiring", "copying", "finally"} =>
         t \in Range(slots)
    /\ t \in Range(slots) => thread[t] \notin {"none", "promoting"}
    /\ thread[t] = "dead" => t \in Range(slots) \/ state[t] \in Terminal
    /\ thread[t] \in {"finally", "promoting"} => state[t] \in Terminal
    /\ Serving /\ thread[t] \in {"registered", "started"} =>
         state[t] \in {"starting", "cancelling"}
    /\ thread[t] \in {"acquiring", "copying"} =>
         state[t] \in {"running", "cancelling"} \cup Terminal
    /\ Serving /\ thread[t] \in {"acquiring", "copying"} => state[t] \notin Terminal
    /\ Serving /\ state[t] \in {"starting", "running", "cancelling"} => thread[t] # "none"
    /\ state[t] = "queued" => thread[t] = "none"

(* A transfer without a thread waits in the executor or in the queue. *)
CommandOf(t) ==
    /\ command[t] \in {"submitted", "dropped"} =>
         /\ thread[t] = "none" /\ t \notin Range(pending)
         /\ state[t] \in {"queued"} \cup Terminal
    /\ command[t] = "starting" => thread[t] = "registered"
    /\ t \in Range(pending) =>
         /\ thread[t] = "none" /\ command[t] = "done"
         /\ Serving => state[t] = "queued"
    /\ state[t] = "queued" => command[t] # "none"
    /\ Serving /\ state[t] = "queued" /\ command[t] = "done" => t \in Range(pending)
    /\ Serving /\ t \in cancelReq => state[t] \notin {"absent", "queued"}

(* What was told of a transfer: the events that a log may hold, in the     *)
(* order it may hold them in, x being the final one.                       *)
Begun(l)   == l \in {<<"created", "started">>} \cup
                    {<<"created", "started", x>> : x \in Terminal} \cup
                    {<<"created", x, "started">> : x \in Terminal}
Ended(l, x) == l \in {<<"created", x>>, <<"created", "started", x>>,
                      <<"created", x, "started">>}
LogOf(t) ==
    /\ state[t] = "absent" => log[t] = <<>>
    /\ state[t] # "absent" =>
         \/ log[t] \in {<<"created">>, <<"created", "started">>}
         \/ state[t] \in Terminal /\ Ended(log[t], state[t])
    /\ Begun(log[t]) => thread[t] \notin {"none", "registered"}
    /\ Serving => \A x \in Terminal : log[t] # <<"created", x, "started">>

EachFits ==
    \A t \in Transfer : RecordOf(t) /\ WorkerOf(t) /\ CommandOf(t) /\ LogOf(t)

(* A client leaves only when another one may follow; this holds by itself. *)
ClientFits == client \in Client /\ (presence # "here" => client < MaxClients)

(* The inductive invariant. *)
TransferInv ==
    TypeOK /\ OrderFits /\ PoolFits /\ StopFits /\ PromoteFits /\ EachFits

-----------------------------------------------------------------------------
(* The operators the actions are built from.                               *)

(* What an append makes of a sequence. *)
LEMMA AppendFacts ==
    ASSUME NEW s \in Seq(Transfer), NEW t \in Transfer
    PROVE  /\ Append(s, t) \in Seq(Transfer) /\ Len(Append(s, t)) = Len(s) + 1
           /\ Range(Append(s, t)) = Range(s) \cup {t}
           /\ IsInjective(s) /\ t \notin Range(s) => IsInjective(Append(s, t))
<1>1. PICK a : a = Append(s, t)
  OBVIOUS
<1>2. /\ DOMAIN s = 1..Len(s) /\ Len(s) \in Nat /\ a \in Seq(Transfer) /\ Len(a) = Len(s) + 1
      /\ DOMAIN a = 1..(Len(s) + 1) /\ a[Len(s) + 1] = t
      /\ \A k \in 1..Len(s) : a[k] = s[k]
  BY <1>1, AppendProperties, LenProperties
<1>3. IsInjective(s) /\ t \notin Range(s) => IsInjective(a)
  BY <1>2 DEF IsInjective, Range
<1>4. Range(a) = Range(s) \cup {t}
  BY <1>2 DEF Range
<1>5. QED
  BY <1>1, <1>2, <1>3, <1>4

(* The finished records of the table stay what they are when no record      *)
(* finishes, appears or goes.                                               *)
LEMMA TableKept ==
    ASSUME TransferInv, order' = order,
           \A t \in Transfer : state'[t] \in Terminal <=> state[t] \in Terminal
    PROVE  OrderFits' /\ Stored' = Stored
<1>1. Stored' = Stored /\ Stored \subseteq Transfer
  BY RangeOfSeq DEF TransferInv, TypeOK, Stored
<1>2. {t \in Stored' : state'[t] \in Terminal} = {t \in Stored : state[t] \in Terminal}
  BY <1>1
<1>3. QED
  BY <1>1, <1>2 DEF TransferInv, OrderFits

(* Eviction drops finished records only, and as many as it should. *)
LEMMA EvictFacts ==
    ASSUME TransferInv, NEW ord \in Seq(Transfer), IsInjective(ord),
           order' = Evict(ord, state')
    PROVE  /\ order' \in Seq(Transfer) /\ OrderFits' /\ Stored' \subseteq Range(ord)
           /\ \A j \in Range(ord) : state'[j] \notin Terminal => j \in Stored'
<1> DEFINE done == {j \in Transfer : state'[j] \in Terminal}
<1>1. order' = Trimmed(ord, done, MaxRetained)
  BY DEF Evict
<1>2. MaxRetained \in Nat
  BY TransferAssumption
<1> HIDE DEF done
<1>3. /\ order' \in Seq(Transfer) /\ IsInjective(order') /\ Range(order') \subseteq Range(ord)
      /\ Range(ord) \ done \subseteq Range(order')
      /\ Cardinality(Range(order') \cap done) <= MaxRetained
  BY <1>1, <1>2, TrimmedMembers
<1>4. Range(order') \subseteq Transfer /\ Range(ord) \subseteq Transfer
  BY <1>3, RangeOfSeq
<1>5. {j \in Stored' : state'[j] \in Terminal} = Range(order') \cap done
  BY <1>4 DEF Stored, done
<1>6. OrderFits'
  BY <1>3, <1>5 DEF OrderFits
<1>7. \A j \in Range(ord) : state'[j] \notin Terminal => j \in Stored'
  BY <1>3, <1>4 DEF Stored, done
<1>8. QED
  BY <1>3, <1>6, <1>7 DEF Stored

(* A record ends: finished records may leave the table, and no other does.  *)
LEMMA EndFacts ==
    ASSUME TransferInv, NEW t \in Transfer, NEW x \in Terminal, Transition(t, x)
    PROVE  /\ order' \in Seq(Transfer) /\ OrderFits' /\ Stored' \subseteq Stored
           /\ \A j \in Stored : state'[j] \notin Terminal => j \in Stored'
<1>1. order' = Evict(order, state')
  BY DEF Transition
<1>2. order \in Seq(Transfer) /\ IsInjective(order)
  BY DEF TransferInv, TypeOK, OrderFits
<1>3. QED
  BY <1>1, <1>2, EvictFacts DEF Stored

(* The pool keeps its limits when no worker is added and none returns to    *)
(* the table.                                                               *)
LEMMA PoolKept ==
    ASSUME TransferInv, slots' \in Seq(Transfer), IsInjective(slots'),
           Len(slots') <= Len(slots), Range(slots') \subseteq Range(slots),
           \A t \in Range(slots') : t \in Stored' => t \in Stored
    PROVE  PoolFits'
<1>1. slots \in Seq(Transfer) /\ Range(slots) \subseteq Transfer /\ IsFiniteSet(Transfer)
  BY RangeOfSeq, TransferAssumption DEF TransferInv, TypeOK
<1>2. Len(slots') <= MaxConcurrent
  <2>1. Len(slots) \in Nat /\ Len(slots') \in Nat /\ MaxConcurrent \in Nat /\ Len(slots) <= MaxConcurrent
    BY <1>1, LenProperties, TransferAssumption DEF TransferInv, PoolFits
  <2>2. QED
    BY <2>1
<1>3. ASSUME NEW s \in Service
      PROVE  Cardinality(ServiceWorkers(s, slots)') <= ServiceLimit[s]
  <2>1. ServiceWorkers(s, slots)' \subseteq ServiceWorkers(s, slots)
    BY DEF ServiceWorkers
  <2>2. IsFiniteSet(ServiceWorkers(s, slots))
    <3>1. ServiceWorkers(s, slots) \subseteq Transfer
      BY <1>1 DEF ServiceWorkers
    <3>2. QED
      BY <1>1, <3>1, FS_Subset
  <2>3. Cardinality(ServiceWorkers(s, slots)') <= Cardinality(ServiceWorkers(s, slots))
        /\ IsFiniteSet(ServiceWorkers(s, slots)')
    BY <2>1, <2>2, FS_Subset
  <2>4. Cardinality(ServiceWorkers(s, slots)) \in Nat /\ Cardinality(ServiceWorkers(s, slots)') \in Nat
    BY <2>2, <2>3, FS_CardinalityType
  <2>5. Cardinality(ServiceWorkers(s, slots)) <= ServiceLimit[s] /\ ServiceLimit[s] \in Nat
    BY TransferAssumption DEF TransferInv, PoolFits
  <2>6. QED
    BY <2>3, <2>4, <2>5
<1>4. QED
  BY <1>2, <1>3 DEF PoolFits

(* A worker that CanStart lets in keeps the limits. *)
LEMMA PoolGrows ==
    ASSUME TransferInv, NEW sl \in Seq(Transfer), IsInjective(sl),
           Range(sl) \subseteq Range(slots), NEW t \in Transfer, t \notin Range(sl),
           CanStart(t, sl), slots' = Append(sl, t), Stored' = Stored
    PROVE  PoolFits' /\ slots' \in Seq(Transfer) /\ Range(slots') = Range(sl) \cup {t}
<1>1. /\ slots' \in Seq(Transfer) /\ IsInjective(slots') /\ Range(slots') = Range(sl) \cup {t}
      /\ Len(slots') = Len(sl) + 1
  BY AppendFacts
<1>2. Len(slots') <= MaxConcurrent
  <2>1. Len(sl) \in Nat /\ MaxConcurrent \in Nat /\ Len(sl) < MaxConcurrent
    BY LenProperties, TransferAssumption DEF CanStart
  <2>2. QED
    BY <1>1, <2>1
<1>3. /\ Range(slots) \subseteq Transfer /\ Range(sl) \subseteq Transfer
      /\ IsFiniteSet(Transfer)
  BY RangeOfSeq, TransferAssumption DEF TransferInv, TypeOK
<1>4. ASSUME NEW s \in Service
      PROVE  Cardinality(ServiceWorkers(s, slots)') <= ServiceLimit[s]
  <2> DEFINE W == ServiceWorkers(s, sl)
  <2>1. W \subseteq Transfer /\ IsFiniteSet(W) /\ Cardinality(W) \in Nat
    <3>1. W \subseteq Transfer
      BY <1>3 DEF ServiceWorkers
    <3>2. IsFiniteSet(W)
      BY <1>3, <3>1, FS_Subset
    <3>3. QED
      BY <3>1, <3>2, FS_CardinalityType
  <2>2. ServiceLimit[s] \in Nat
    BY TransferAssumption
  <2>3. CASE ServiceOf[t] = s
    <3>1. ServiceWorkers(s, slots)' \subseteq W \cup {t}
      BY <1>1 DEF ServiceWorkers
    <3>2. Cardinality(W) < ServiceLimit[s]
      BY <2>3, TransferAssumption DEF CanStart
    <3>3. /\ IsFiniteSet(W \cup {t})
          /\ (Cardinality(W \cup {t}) = Cardinality(W) \/ Cardinality(W \cup {t}) = Cardinality(W) + 1)
      BY <2>1, FS_AddElement
    <3>4. /\ IsFiniteSet(ServiceWorkers(s, slots)')
          /\ Cardinality(ServiceWorkers(s, slots)') <= Cardinality(W \cup {t})
      BY <3>1, <3>3, FS_Subset
    <3>5. Cardinality(ServiceWorkers(s, slots)') \in Nat /\ Cardinality(W \cup {t}) \in Nat
      BY <3>3, <3>4, FS_CardinalityType
    <3>6. QED
      BY <2>1, <2>2, <3>2, <3>3, <3>4, <3>5
  <2>4. CASE ServiceOf[t] # s
    <3>1. ServiceWorkers(s, slots)' \subseteq ServiceWorkers(s, slots)
      BY <1>1, <2>4 DEF ServiceWorkers
    <3>2. IsFiniteSet(ServiceWorkers(s, slots))
      <4>1. ServiceWorkers(s, slots) \subseteq Transfer
        BY <1>3 DEF ServiceWorkers
      <4>2. QED
        BY <1>3, <4>1, FS_Subset
    <3>3. /\ IsFiniteSet(ServiceWorkers(s, slots)')
          /\ Cardinality(ServiceWorkers(s, slots)') <= Cardinality(ServiceWorkers(s, slots))
      BY <3>1, <3>2, FS_Subset
    <3>4. Cardinality(ServiceWorkers(s, slots)') \in Nat /\ Cardinality(ServiceWorkers(s, slots)) \in Nat
      BY <3>2, <3>3, FS_CardinalityType
    <3>5. Cardinality(ServiceWorkers(s, slots)) <= ServiceLimit[s]
      BY DEF TransferInv, PoolFits
    <3>6. QED
      BY <2>2, <3>3, <3>4, <3>5
  <2>5. QED
    BY <2>3, <2>4
<1>5. QED
  BY <1>1, <1>2, <1>4 DEF PoolFits

(* The logs that occur, and what publishing makes of them. *)
LEMMA LogFacts ==
    ASSUME NEW x \in Terminal
    PROVE  /\ <<>> \o <<"created">> = <<"created">>
           /\ <<>> \o <<"created", "failed">> = <<"created", "failed">>
           /\ <<"created">> \o <<"started">> = <<"created", "started">>
           /\ <<"created">> \o <<x>> = <<"created", x>>
           /\ <<"created", "started">> \o <<x>> = <<"created", "started", x>>
           /\ <<"created", x>> \o <<"started">> = <<"created", x, "started">>
<1>1. /\ <<>> \o <<"created">> = <<"created">>
      /\ <<>> \o <<"created", "failed">> = <<"created", "failed">>
  OBVIOUS
<1>2. ASSUME NEW a, NEW b PROVE <<a>> \o <<b>> = <<a, b>>
  <2>1. /\ <<a>> \in Seq({a, b}) /\ <<b>> \in Seq({a, b}) /\ <<a, b>> \in Seq({a, b})
        /\ Len(<<a>>) = 1 /\ Len(<<b>>) = 1 /\ Len(<<a, b>>) = 2
    OBVIOUS
  <2>2. /\ <<a>> \o <<b>> \in Seq({a, b}) /\ Len(<<a>> \o <<b>>) = 2
        /\ \A i \in 1..1 + 1 :
             (<<a>> \o <<b>>)[i] = IF i <= 1 THEN <<a>>[i] ELSE <<b>>[i - 1]
    BY <2>1, ConcatProperties
  <2>3. \A i \in 1..2 : (<<a>> \o <<b>>)[i] = <<a, b>>[i]
    BY <2>2
  <2>4. QED
    BY <2>1, <2>2, <2>3, SeqEqual, Zenon
<1>3. ASSUME NEW a, NEW b, NEW c PROVE <<a, b>> \o <<c>> = <<a, b, c>>
  <2>1. /\ <<a, b>> \in Seq({a, b, c}) /\ <<c>> \in Seq({a, b, c})
        /\ <<a, b, c>> \in Seq({a, b, c})
        /\ Len(<<a, b>>) = 2 /\ Len(<<c>>) = 1 /\ Len(<<a, b, c>>) = 3
    OBVIOUS
  <2>2. /\ <<a, b>> \o <<c>> \in Seq({a, b, c}) /\ Len(<<a, b>> \o <<c>>) = 3
        /\ \A i \in 1..2 + 1 :
             (<<a, b>> \o <<c>>)[i] = IF i <= 2 THEN <<a, b>>[i] ELSE <<c>>[i - 2]
    BY <2>1, ConcatProperties
  <2>3. \A i \in 1..3 : (<<a, b>> \o <<c>>)[i] = <<a, b, c>>[i]
    BY <2>2
  <2>4. QED
    BY <2>1, <2>2, <2>3, SeqEqual, Zenon
<1>4. QED
  BY <1>1, <1>2, <1>3

(* Which of them tell that the transfer began, and none tells it late while *)
(* nothing but created and one more event was published.                    *)
LEMMA LogShapes ==
    ASSUME NEW x \in Terminal
    PROVE  /\ ~Begun(<<>>) /\ ~Begun(<<"created">>) /\ ~Begun(<<"created", x>>)
           /\ <<"created">> # <<"created", "started">>
           /\ \A y \in Terminal :
                /\ <<>> # <<"created", y, "started">>
                /\ <<"created">> # <<"created", y, "started">>
                /\ <<"created", "started">> # <<"created", y, "started">>
                /\ <<"created", x>> # <<"created", y, "started">>
                /\ <<"created", "started", x>> # <<"created", y, "started">>
<1>1. x # "started"
  BY DEF Terminal
<1>2. ASSUME NEW y \in Terminal
      PROVE  /\ <<>> # <<"created", y, "started">> /\ <<>> # <<"created", "started">>
             /\ <<>> # <<"created", "started", y>>
             /\ <<"created">> # <<"created", y, "started">>
             /\ <<"created">> # <<"created", "started">>
             /\ <<"created">> # <<"created", "started", y>>
             /\ <<"created", x>> # <<"created", y, "started">>
             /\ <<"created", x>> # <<"created", "started">>
             /\ <<"created", x>> # <<"created", "started", y>>
             /\ <<"created", "started">> # <<"created", y, "started">>
             /\ <<"created", "started", x>> # <<"created", y, "started">>
  <2>1. /\ Len(<<>>) = 0 /\ Len(<<"created">>) = 1 /\ Len(<<"created", x>>) = 2
        /\ Len(<<"created", "started">>) = 2 /\ Len(<<"created", y, "started">>) = 3
        /\ Len(<<"created", "started", y>>) = 3
    OBVIOUS
  <2>2. <<"created", x>>[2] = x /\ <<"created", "started">>[2] = "started"
    OBVIOUS
  <2>3. <<"created", "started", x>>[2] = "started" /\ <<"created", y, "started">>[2] = y
    OBVIOUS
  <2>4. y # "started"
    BY DEF Terminal
  <2>5. QED
    BY <1>1, <2>1, <2>2, <2>3, <2>4
<1>3. QED
  BY <1>2 DEF Begun

(* A transfer that a step does not touch fits as before. *)
LEMMA Untouched ==
    ASSUME TransferInv, NEW j \in Transfer, closer' = closer,
           state'[j] = state[j], thread'[j] = thread[j], command'[j] = command[j],
           log'[j] = log[j], j \in Stored' => j \in Stored, Active(j) => j \in Stored',
           j \in Range(slots') <=> j \in Range(slots),
           j \in Range(pending') => j \in Range(pending),
           Serving /\ j \in Range(pending) => j \in Range(pending'),
           j \in cancelReq' => j \in cancelReq, j \in stuck => j \in stuck'
    PROVE  (RecordOf(j) /\ WorkerOf(j) /\ CommandOf(j) /\ LogOf(j))'
<1>1. RecordOf(j) /\ WorkerOf(j) /\ CommandOf(j) /\ LogOf(j)
  BY DEF TransferInv, EachFits
<1>2. (Active(j)' <=> Active(j)) /\ (Serving' <=> Serving)
  BY DEF Active, Serving
<1>3. RecordOf(j)'
  BY <1>1, <1>2 DEF RecordOf
<1>4. WorkerOf(j)'
  BY <1>1, <1>2 DEF WorkerOf
<1>5. CommandOf(j)'
  BY <1>1, <1>2 DEF CommandOf
<1>6. LogOf(j)'
  BY <1>1, <1>2 DEF LogOf
<1>7. QED
  BY <1>3, <1>4, <1>5, <1>6

(* The final event of an active transfer. *)
LEMMA EndLog ==
    ASSUME TransferInv, NEW t \in Transfer, Active(t), NEW x \in Terminal, Publish(t, <<x>>)
    PROVE  /\ log' \in [Transfer -> Seq({"created", "started"} \cup Terminal)]
           /\ log'[t] \in {<<"created", x>>, <<"created", "started", x>>}
           /\ Begun(log'[t]) => Begun(log[t])
           /\ \A y \in Terminal : log'[t] # <<"created", y, "started">>
           /\ \A j \in Transfer : j # t => log'[j] = log[j]
<1>1. RecordOf(t) /\ LogOf(t) /\ log \in [Transfer -> Seq({"created", "started"} \cup Terminal)]
  BY DEF TransferInv, EachFits, TypeOK
<1>2. log' = [log EXCEPT ![t] = log[t] \o <<x>>]
  BY <1>1 DEF RecordOf, Publish
<1>3. log[t] \in {<<"created">>, <<"created", "started">>}
  BY <1>1 DEF LogOf, Active
<1>4. log'[t] \in {<<"created", x>>, <<"created", "started", x>>}
  BY <1>1, <1>2, <1>3, LogFacts
<1>5. /\ <<"created", x>> \in Seq({"created", "started"} \cup Terminal)
      /\ <<"created", "started", x>> \in Seq({"created", "started"} \cup Terminal)
  OBVIOUS
<1>6. log' \in [Transfer -> Seq({"created", "started"} \cup Terminal)]
  BY <1>1, <1>2, <1>4, <1>5
<1>7. Begun(log'[t]) => Begun(log[t])
  <2>1. CASE log[t] = <<"created">>
    <3>1. log'[t] = <<"created", x>>
      BY <1>1, <1>2, <2>1, LogFacts
    <3>2. QED
      BY <3>1, LogShapes
  <2>2. CASE log[t] = <<"created", "started">>
    BY <2>2 DEF Begun
  <2>3. QED
    BY <1>3, <2>1, <2>2
<1>8. \A y \in Terminal : log'[t] # <<"created", y, "started">>
  BY <1>4, LogShapes
<1>9. QED
  BY <1>1, <1>2, <1>4, <1>6, <1>7, <1>8

(* A step that ends a transfer, or finds it ended: its thread, if it has    *)
(* one, leaves the copy.                                                    *)
LEMMA EndStep ==
    ASSUME TransferInv, NEW t \in Transfer,
           \/ state[t] \in Terminal /\ UNCHANGED recordVars
           \/ Active(t) /\ \E x \in Terminal : Transition(t, x) /\ Publish(t, <<x>>),
           UNCHANGED <<owner, slots, promoting, accepting, executorOpen, closer, joining,
                       svcVars, clientVars>>,
           thread' \in [Transfer -> Threads],
           command' \in [Transfer -> {"none", "submitted", "starting", "dropped", "done"}],
           pending' \in Seq(Transfer), cancelReq' \subseteq Transfer, stuck' \subseteq stuck,
           \A j \in Transfer : j # t =>
              /\ thread'[j] = thread[j] /\ command'[j] = command[j]
              /\ j \in Range(pending') <=> j \in Range(pending)
              /\ j \in cancelReq' => j \in cancelReq
              /\ j \in stuck => j \in stuck',
           t \in Range(pending') => t \in Range(pending) /\ ~Serving,
           \/ thread'[t] = thread[t]
           \/ thread[t] \in {"acquiring", "copying"} /\ thread'[t] \in {"finally", "dead"},
           Serving => thread'[t] \in {"none", "finally", "dead", "promoting"},
           \/ command'[t] = command[t]
           \/ command[t] \in {"submitted", "dropped"} /\ command'[t] = "done"
    PROVE  TransferInv'
<1>1. RecordOf(t) /\ WorkerOf(t) /\ CommandOf(t) /\ LogOf(t) /\ TypeOK
  BY DEF TransferInv, EachFits
<1>2. /\ order' \in Seq(Transfer) /\ OrderFits' /\ Stored' \subseteq Stored
      /\ \A j \in Stored : state'[j] \notin Terminal => j \in Stored'
      /\ state' \in [Transfer -> States] /\ state'[t] \in Terminal
      /\ log' \in [Transfer -> Seq({"created", "started"} \cup Terminal)]
      /\ \A j \in Transfer : j # t => state'[j] = state[j] /\ log'[j] = log[j]
      /\ Ended(log'[t], state'[t]) \/ log'[t] \in {<<"created">>, <<"created", "started">>}
      /\ Begun(log'[t]) => Begun(log[t])
      /\ Serving => \A y \in Terminal : log'[t] # <<"created", y, "started">>
  <2>1. CASE state[t] \in Terminal /\ UNCHANGED recordVars
    <3>1. state' = state /\ order' = order /\ log' = log
      BY <2>1 DEF recordVars
    <3>2. OrderFits' /\ Stored' = Stored
      BY <3>1, TableKept
    <3>3. state[t] # "absent"
      BY <2>1 DEF Terminal
    <3>4. Ended(log[t], state[t]) \/ log[t] \in {<<"created">>, <<"created", "started">>}
      BY <1>1, <3>3 DEF LogOf
    <3>5. Serving => \A y \in Terminal : log[t] # <<"created", y, "started">>
      BY <1>1 DEF LogOf
    <3>6. QED
      BY <1>1, <2>1, <3>1, <3>2, <3>4, <3>5 DEF TypeOK
  <2>2. CASE Active(t) /\ \E x \in Terminal : Transition(t, x) /\ Publish(t, <<x>>)
    <3>1. PICK x \in Terminal : Transition(t, x) /\ Publish(t, <<x>>)
      BY <2>2
    <3>2. state' = [state EXCEPT ![t] = x]
      BY <3>1 DEF Transition
    <3>3. state' \in [Transfer -> States] /\ state'[t] = x
          /\ \A j \in Transfer : j # t => state'[j] = state[j]
      BY <1>1, <3>2 DEF TypeOK, States
    <3>4. /\ order' \in Seq(Transfer) /\ OrderFits' /\ Stored' \subseteq Stored
          /\ \A j \in Stored : state'[j] \notin Terminal => j \in Stored'
      BY <3>1, EndFacts
    <3>5. /\ log' \in [Transfer -> Seq({"created", "started"} \cup Terminal)]
          /\ log'[t] \in {<<"created", x>>, <<"created", "started", x>>}
          /\ Begun(log'[t]) => Begun(log[t])
          /\ \A y \in Terminal : log'[t] # <<"created", y, "started">>
          /\ \A j \in Transfer : j # t => log'[j] = log[j]
      BY <2>2, <3>1, EndLog
    <3>6. Ended(log'[t], state'[t])
      BY <3>3, <3>5 DEF Ended
    <3>7. QED
      BY <3>3, <3>4, <3>5, <3>6
  <2>3. QED
    BY <2>1, <2>2
<1>3. TypeOK'
  BY <1>1, <1>2 DEF TypeOK, svcVars, clientVars
<1>4. PoolFits'
  <2>1. /\ slots' = slots /\ slots \in Seq(Transfer) /\ IsInjective(slots) /\ Len(slots) \in Nat
    BY LenProperties DEF TransferInv, PoolFits, TypeOK
  <2>2. Len(slots') <= Len(slots)
    BY <2>1
  <2>3. QED
    BY <1>2, <2>1, <2>2, PoolKept
<1>5. StopFits'
  <2>1. \A j \in stuck' : state'[j] # "absent"
    BY <1>1, <1>2 DEF TransferInv, StopFits, TypeOK, Terminal
  <2>2. QED
    BY <2>1 DEF TransferInv, StopFits, Serving
<1>6. PromoteFits'
  <2>1. ASSUME NEW u \in Transfer, NEW v \in promoting'[u]
        PROVE  thread'[u] = "promoting" /\ thread'[v] = "registered" /\ command'[v] = "done"
    <3>1. v \in Transfer /\ v \in promoting[u]
      BY <1>1, <2>1 DEF TypeOK
    <3>2. thread[u] = "promoting" /\ thread[v] = "registered" /\ command[v] = "done"
      BY <3>1 DEF TransferInv, PromoteFits
    <3>3. QED
      BY <3>1, <3>2
  <2>2. QED
    BY <2>1 DEF TransferInv, PromoteFits
<1>7. ASSUME NEW j \in Transfer
      PROVE  (RecordOf(j) /\ WorkerOf(j) /\ CommandOf(j) /\ LogOf(j))'
  <2>1. CASE j # t
    <3>1. Active(j) => j \in Stored /\ state'[j] \notin Terminal
      BY <1>2, <2>1 DEF TransferInv, EachFits, RecordOf, Active
    <3>2. Active(j) => j \in Stored'
      BY <1>2, <3>1
    <3>3. state'[j] = state[j] /\ log'[j] = log[j] /\ (j \in Stored' => j \in Stored)
      BY <1>2, <2>1
    <3>4. /\ thread'[j] = thread[j] /\ command'[j] = command[j]
          /\ (j \in Range(pending') <=> j \in Range(pending))
          /\ (j \in cancelReq' => j \in cancelReq) /\ (j \in stuck => j \in stuck')
          /\ closer' = closer /\ slots' = slots
      BY <2>1
    <3>5. QED
      BY <3>2, <3>3, <3>4, Untouched
  <2>2. CASE j = t
    <3>1. state'[t] \in Terminal /\ state'[t] \notin {"absent", "queued", "starting", "running", "cancelling"}
      BY <1>2 DEF Terminal
    <3>2. ~Active(t)' /\ (Serving' <=> Serving)
      BY <3>1 DEF Active, Serving
    <3>3. RecordOf(t)'
      BY <1>2, <3>1, <3>2 DEF RecordOf
    <3>4. WorkerOf(t)'
      BY <1>1, <1>2, <3>1, <3>2 DEF WorkerOf
    <3>5. CommandOf(t)'
      BY <1>1, <1>2, <3>1, <3>2 DEF CommandOf
    <3>6. LogOf(t)'
      BY <1>1, <1>2, <3>1, <3>2 DEF LogOf
    <3>7. QED
      BY <2>2, <3>3, <3>4, <3>5, <3>6
  <2>3. QED
    BY <2>1, <2>2
<1>8. QED
  BY <1>2, <1>3, <1>4, <1>5, <1>6, <1>7 DEF TransferInv, EachFits

(* What start_transfer finds of an id that is not used yet. *)
LEMMA Fresh ==
    ASSUME TransferInv, NEW t \in Transfer, state[t] = "absent", executorOpen
    PROVE  /\ t \notin Stored /\ t \notin Range(slots) /\ t \notin Range(pending)
           /\ t \notin cancelReq /\ log[t] = <<>> /\ command[t] = "none" /\ thread[t] = "none"
           /\ closer = "serving" /\ Serving
<1>1. RecordOf(t) /\ WorkerOf(t) /\ CommandOf(t) /\ LogOf(t) /\ StopFits
  BY DEF TransferInv, EachFits
<1>2. Serving /\ closer = "serving"
  BY <1>1 DEF StopFits, Serving
<1>3. command[t] = "none" /\ thread[t] = "none" /\ t \notin Stored
  BY <1>1 DEF RecordOf
<1>4. t \notin Range(slots)
  BY <1>1, <1>3 DEF WorkerOf
<1>5. t \notin Range(pending) /\ t \notin cancelReq
  BY <1>1, <1>2, <1>3 DEF CommandOf
<1>6. QED
  BY <1>1, <1>2, <1>3, <1>4, <1>5 DEF LogOf

(* The STARTED event of a transfer whose thread is registered. *)
LEMMA StartLog ==
    ASSUME TransferInv, NEW t \in Transfer, thread[t] = "registered",
           Publish(t, <<"started">>)
    PROVE  /\ log' \in [Transfer -> Seq({"created", "started"} \cup Terminal)]
           /\ \A j \in Transfer : j # t => log'[j] = log[j]
           /\ state[t] # "absent"
           /\ \/ log'[t] \in {<<"created">>, <<"created", "started">>}
              \/ state[t] \in Terminal /\ Ended(log'[t], state[t])
           /\ Serving => \A y \in Terminal : log'[t] # <<"created", y, "started">>
<1>1. /\ RecordOf(t) /\ WorkerOf(t) /\ LogOf(t)
      /\ log \in [Transfer -> Seq({"created", "started"} \cup Terminal)]
  BY DEF TransferInv, EachFits, TypeOK
<1>2. state[t] # "absent"
  BY <1>1 DEF RecordOf
<1>3. CASE closer = "closed"
  <2>1. log' = log
    BY <1>3 DEF Publish
  <2>2. QED
    BY <1>1, <1>2, <2>1 DEF LogOf
<1>4. CASE closer # "closed"
  <2>1. log' = [log EXCEPT ![t] = log[t] \o <<"started">>]
    BY <1>4 DEF Publish
  <2>2. ~Begun(log[t])
    BY <1>1 DEF LogOf
  <2>3. log[t] = <<"created">> \/ (state[t] \in Terminal /\ log[t] = <<"created", state[t]>>)
    BY <1>1, <1>2, <2>2 DEF LogOf, Ended, Begun
  <2>4. CASE log[t] = <<"created">>
    <3>1. "failed" \in Terminal
      BY DEF Terminal
    <3>2. log'[t] = <<"created", "started">>
      BY <1>1, <2>1, <2>4, <3>1, LogFacts
    <3>3. <<"created", "started">> \in Seq({"created", "started"} \cup Terminal)
      OBVIOUS
    <3>4. \A y \in Terminal : log'[t] # <<"created", y, "started">>
      BY <3>1, <3>2, LogShapes
    <3>5. log' \in [Transfer -> Seq({"created", "started"} \cup Terminal)]
      BY <1>1, <2>1, <3>2, <3>3
    <3>6. QED
      BY <1>1, <1>2, <2>1, <3>2, <3>4, <3>5
  <2>5. CASE state[t] \in Terminal /\ log[t] = <<"created", state[t]>>
    <3>1. log'[t] = <<"created", state[t], "started">>
      BY <1>1, <2>1, <2>5, LogFacts
    <3>2. <<"created", state[t], "started">> \in Seq({"created", "started"} \cup Terminal)
      BY <2>5
    <3>3. ~Serving
      BY <1>1, <2>5 DEF WorkerOf, Terminal
    <3>4. Ended(log'[t], state[t])
      BY <3>1 DEF Ended
    <3>5. log' \in [Transfer -> Seq({"created", "started"} \cup Terminal)]
      BY <1>1, <2>1, <3>1, <3>2
    <3>6. QED
      BY <1>1, <1>2, <2>1, <2>5, <3>3, <3>4, <3>5
  <2>6. QED
    BY <2>3, <2>4, <2>5
<1>5. QED
  BY <1>3, <1>4

(* A step that touches no record, pool, command or flag. *)
LEMMA CoreKept ==
    ASSUME TransferInv, TypeOK',
           UNCHANGED <<state, order, log, cancelReq, slots, pending, thread, promoting,
                       command, accepting, executorOpen, closer, stuck>>
    PROVE  TransferInv'
<1>1. OrderFits' /\ PoolFits' /\ StopFits' /\ PromoteFits'
  BY DEF TransferInv, OrderFits, PoolFits, StopFits, PromoteFits, Stored, ServiceWorkers, Serving
<1>2. ASSUME NEW j \in Transfer
      PROVE  (RecordOf(j) /\ WorkerOf(j) /\ CommandOf(j) /\ LogOf(j))'
  <2>1. (j \in Stored' <=> j \in Stored) /\ (Active(j) => j \in Stored)
    BY DEF Stored, TransferInv, EachFits, RecordOf
  <2>2. QED
    BY <2>1, Untouched
<1>3. QED
  BY <1>1, <1>2 DEF TransferInv, EachFits

(* The pool and the table when neither changes. *)
LEMMA PoolSame ==
    ASSUME TransferInv, slots' = slots, Stored' \subseteq Stored
    PROVE  PoolFits'
<1>1. slots \in Seq(Transfer) /\ IsInjective(slots) /\ Len(slots) \in Nat
  BY LenProperties DEF TransferInv, PoolFits, TypeOK
<1>2. Len(slots') <= Len(slots)
  BY <1>1
<1>3. QED
  BY <1>1, <1>2, PoolKept

(* The promotions, when the threads that take part in one stay. *)
LEMMA PromoteKept ==
    ASSUME TransferInv, promoting' = promoting,
           \A j \in Transfer : thread[j] \in {"promoting", "registered"} =>
              thread'[j] = thread[j] \/ (thread[j] = "registered" /\ command[j] # "done"),
           \A j \in Transfer : command[j] = "done" => command'[j] = "done"
    PROVE  PromoteFits'
<1>1. ASSUME NEW u \in Transfer, NEW v \in promoting[u]
      PROVE  thread'[u] = "promoting" /\ thread'[v] = "registered" /\ command'[v] = "done"
  <2>1. v \in Transfer
    BY DEF TransferInv, TypeOK
  <2>2. thread[u] = "promoting" /\ thread[v] = "registered" /\ command[v] = "done"
    BY DEF TransferInv, PromoteFits
  <2>3. QED
    BY <2>1, <2>2
<1>2. QED
  BY <1>1 DEF TransferInv, PromoteFits

(* A step of shutdown() that leaves the records and the threads alone. *)
LEMMA CloserMoves ==
    ASSUME TransferInv, ~Serving', TypeOK', StopFits',
           UNCHANGED <<state, order, log, slots, thread, promoting, command>>,
           Range(pending') \subseteq Range(pending),
           \A j \in Transfer : RecordOf(j)'
    PROVE  TransferInv'
<1>1. OrderFits' /\ PoolFits' /\ PromoteFits'
  BY DEF TransferInv, OrderFits, PoolFits, PromoteFits, Stored, ServiceWorkers
<1>2. ASSUME NEW j \in Transfer
      PROVE  (WorkerOf(j) /\ CommandOf(j) /\ LogOf(j))'
  <2>1. WorkerOf(j) /\ CommandOf(j) /\ LogOf(j)
    BY DEF TransferInv, EachFits
  <2>2. WorkerOf(j)'
    BY <2>1 DEF WorkerOf
  <2>3. CommandOf(j)'
    BY <2>1 DEF CommandOf
  <2>4. LogOf(j)'
    BY <2>1 DEF LogOf
  <2>5. QED
    BY <2>2, <2>3, <2>4
<1>3. QED
  BY <1>1, <1>2 DEF TransferInv, EachFits

(* Another client may follow the one that leaves. *)
LEMMA ClientStep ==
    ASSUME ClientFits, [Next]_vars
    PROVE  ClientFits'
<1>1. CASE DetachFromServices
  BY <1>1 DEF ClientFits, DetachFromServices
<1>2. CASE DetachClient
  BY <1>2 DEF ClientFits, DetachClient
<1>3. CASE Reconnect
  <2>1. MaxClients \in Nat
    BY TransferAssumption
  <2>2. QED
    BY <1>3, <2>1 DEF ClientFits, Reconnect, Client
<1>4. CASE UNCHANGED clientVars
  BY <1>4 DEF ClientFits, clientVars
<1>5. QED
  <2>1. DetachFromServices \/ DetachClient \/ Reconnect \/ UNCHANGED clientVars
    BY DEF Next, Selector, Executor, Worker, Shutdown, StartTransfer, StartTransferRejected,
       AttachService, ServiceEnds, RunTransfer, RunTransferStarts, RunTransferQueues,
       RunTransferTooLate, WorkerEnters, WorkerReturnsEarly, WorkerAcquires,
       WorkerCannotAcquire, CopyCompletes, CopyFails, CopyCancelled, CopyEnds, WorkerFinally,
       WorkerPromotes, CancelTransfer, StopExecutor, ShutdownBegins, ShutdownJoins,
       ShutdownJoinRaises, ShutdownFindsStuck, ShutdownCloses, StartDropped, ShutdownFails,
       vars
  <2>2. QED
    BY <1>1, <1>2, <1>3, <1>4, <2>1

(* What the finally clause makes of _worker_threads. *)
LEMMA FreeFacts ==
    ASSUME TransferInv, NEW t \in Transfer
    PROVE  \E free \in Seq(Transfer) :
              /\ free = Only(slots, Transfer \ {t})
              /\ IsInjective(free) /\ Range(free) = Range(slots) \ {t}
              /\ Range(free) \subseteq Range(slots) /\ Len(free) <= Len(slots)
<1>1. slots \in Seq(Transfer) /\ IsInjective(slots) /\ Range(slots) \subseteq Transfer
  BY DEF TransferInv, TypeOK, PoolFits, Range
<1>2. PICK free : free = Only(slots, Transfer \ {t})
  OBVIOUS
<1>3. /\ free \in Seq(Transfer) /\ IsInjective(free)
      /\ Range(free) = Range(slots) \cap (Transfer \ {t})
  BY <1>1, <1>2, OnlyMembers, OnlyInjective
<1>4. Range(free) = Range(slots) \ {t} /\ Range(free) \subseteq Range(slots)
  BY <1>1, <1>3
<1>5. /\ IsFiniteSet(Range(slots)) /\ Cardinality(Range(slots)) = Len(slots)
      /\ IsFiniteSet(Range(free)) /\ Cardinality(Range(free)) = Len(free)
  BY <1>1, <1>3, InjectiveLen
<1>6. Cardinality(Range(free)) <= Cardinality(Range(slots))
  BY <1>4, <1>5, FS_Subset
<1>7. Len(free) <= Len(slots)
  BY <1>5, <1>6
<1>8. QED
  BY <1>2, <1>3, <1>4, <1>7

(* The transfer that a free slot goes to: at most one, and it may start. *)
LEMMA NextFacts ==
    ASSUME TransferInv, NEW free, NEW u \in NextRunnable(free)
    PROVE  /\ u \in Transfer /\ u \in Range(pending) /\ Waiting(u) /\ CanStart(u, free)
           /\ NextRunnable(free) = {u}
<1> DEFINE fits == {i \in DOMAIN pending : Waiting(pending[i]) /\ CanStart(pending[i], free)}
           least == {j \in fits : \A k \in fits : j <= k}
<1>1. NextRunnable(free) = {pending[i] : i \in least}
  BY DEF NextRunnable
<1>2. pending \in Seq(Transfer) /\ DOMAIN pending \subseteq Int
  BY DEF TransferInv, TypeOK
<1>3. PICK i \in least : u = pending[i]
  BY <1>1
<1>4. \A j \in least : j = i
  BY <1>2, <1>3
<1>5. u \in Transfer /\ u \in Range(pending) /\ Waiting(u) /\ CanStart(u, free)
  BY <1>2, <1>3 DEF Range
<1>6. NextRunnable(free) = {u}
  BY <1>1, <1>3, <1>4
<1>7. QED
  BY <1>5, <1>6

(* What the queue keeps: while the daemon serves, all but the one taken. *)
LEMMA KeptFacts ==
    ASSUME TransferInv, NEW taken, pending' = KeptPending(taken)
    PROVE  /\ pending' \in Seq(Transfer) /\ Range(pending') \subseteq Range(pending) \ taken
           /\ Serving => Range(pending') = Range(pending) \ taken
<1> DEFINE keep == {t \in Transfer \ taken : Waiting(t)}
<1>1. pending \in Seq(Transfer) /\ Range(pending) \subseteq Transfer
  BY DEF TransferInv, TypeOK, Range
<1>2. pending' \in Seq(Transfer) /\ Range(pending') = Range(pending) \cap keep
  BY <1>1, OnlyMembers DEF KeptPending
<1>3. ASSUME Serving, NEW t \in Range(pending) PROVE Waiting(t)
  <2>1. RecordOf(t) /\ CommandOf(t)
    BY <1>1 DEF TransferInv, EachFits
  <2>2. state[t] = "queued" /\ t \notin cancelReq
    BY <1>3, <2>1 DEF CommandOf
  <2>3. QED
    BY <2>1, <2>2 DEF RecordOf, Active, Waiting, Terminal
<1>4. QED
  BY <1>1, <1>2, <1>3

(* Every step keeps the inductive invariant. *)
LEMMA StepInv ==
    ASSUME TransferInv, ClientFits, [Next]_vars
    PROVE  TransferInv'
<1> USE DEF TransferInv, recordVars, poolVars, closerVars, svcVars, clientVars
<1>1. ASSUME NEW t \in Transfer, StartTransfer(t) PROVE TransferInv'
  <2>1. /\ t \notin Stored /\ t \notin Range(slots) /\ t \notin Range(pending)
        /\ t \notin cancelReq /\ log[t] = <<>> /\ command[t] = "none" /\ thread[t] = "none"
        /\ closer = "serving" /\ Serving
    BY <1>1, Fresh DEF StartTransfer, Prepare, SelectorServes
  <2>2. UNCHANGED <<cancelReq, slots, pending, thread, promoting, accepting, executorOpen,
                    closerVars, svcVars, clientVars>>
    BY <1>1 DEF StartTransfer
  <2>3. /\ state[t] = "absent" /\ state' = [state EXCEPT ![t] = "queued"]
        /\ state'[t] = "queued" /\ (\A h \in Transfer : h # t => state'[h] = state[h])
        /\ command'[t] = "submitted" /\ (\A h \in Transfer : h # t => command'[h] = command[h])
        /\ command' \in [Transfer -> {"none", "submitted", "starting", "dropped", "done"}]
        /\ owner' \in [Transfer -> Client \cup {NoClient}]
        /\ log' = [log EXCEPT ![t] = log[t] \o <<"created">>]
    BY <1>1, <2>1 DEF StartTransfer, Prepare, Publish, TypeOK
  <2>4. /\ log'[t] = <<"created">> /\ (\A h \in Transfer : h # t => log'[h] = log[h])
        /\ log' \in [Transfer -> Seq({"created", "started"} \cup Terminal)]
    <3>1. <<>> \o <<"created">> = <<"created">> /\ <<"created">> \in Seq({"created", "started"} \cup Terminal)
      BY LogFacts DEF Terminal
    <3>2. QED
      BY <2>1, <2>3, <3>1 DEF TypeOK
  <2>5. PICK ord \in Seq(Transfer) : ord = Append(order, t)
    BY AppendFacts DEF TypeOK
  <2>6. IsInjective(ord) /\ Range(ord) = Stored \cup {t}
    BY <2>1, <2>5, AppendFacts DEF TypeOK, OrderFits, Stored
  <2>7. /\ order' \in Seq(Transfer) /\ OrderFits' /\ Stored' = Stored \cup {t}
    <3>1. order' = ord
      BY <1>1, <2>5 DEF StartTransfer
    <3>2. Stored' = Stored \cup {t}
      BY <2>6, <3>1 DEF Stored
    <3>3. Stored \subseteq Transfer
      BY DEF Stored, Range, TypeOK
    <3>4. {j \in Stored' : state'[j] \in Terminal} = {j \in Stored : state[j] \in Terminal}
      BY <2>1, <2>3, <3>2, <3>3 DEF Terminal
    <3>5. QED
      BY <2>6, <3>1, <3>2, <3>4 DEF OrderFits
  <2>8. TypeOK'
    BY <2>2, <2>3, <2>4, <2>7 DEF TypeOK, States, Terminal
  <2>9. PoolFits'
    <3>1. slots \in Seq(Transfer) /\ IsInjective(slots) /\ Len(slots) \in Nat
      BY DEF TypeOK, PoolFits
    <3>2. /\ slots' \in Seq(Transfer) /\ IsInjective(slots') /\ Len(slots') <= Len(slots)
          /\ Range(slots') \subseteq Range(slots)
      BY <2>2, <3>1
    <3>3. \A j \in Range(slots') : j \in Stored' => j \in Stored
      BY <2>1, <2>2, <2>7
    <3>4. QED
      BY <3>2, <3>3, PoolKept
  <2>10. StopFits'
    BY <2>2, <2>3 DEF StopFits, Serving, TypeOK
  <2>11. PromoteFits'
    BY <2>1, <2>2, <2>3, PromoteKept
  <2>12. ASSUME NEW j \in Transfer
        PROVE  (RecordOf(j) /\ WorkerOf(j) /\ CommandOf(j) /\ LogOf(j))'
    <3>1. CASE j # t
      <4>1. Active(j) => j \in Stored /\ state[j] \notin Terminal
        BY DEF EachFits, RecordOf, Active
      <4>2. /\ state'[j] = state[j] /\ thread'[j] = thread[j] /\ command'[j] = command[j]
            /\ log'[j] = log[j] /\ closer' = closer
            /\ j \in Range(slots') <=> j \in Range(slots)
            /\ j \in Range(pending') => j \in Range(pending)
            /\ Serving /\ j \in Range(pending) => j \in Range(pending')
            /\ j \in cancelReq' => j \in cancelReq
            /\ j \in stuck => j \in stuck'
        BY <2>2, <2>3, <2>4, <3>1
      <4>3. (j \in Stored' => j \in Stored) /\ (Active(j) => j \in Stored')
        BY <2>7, <3>1, <4>1, <4>2
      <4>4. QED
        BY <4>2, <4>3, Untouched
    <3>2. CASE j = t
      <4>1. RecordOf(t)'
        BY <2>1, <2>2, <2>3, <2>7 DEF RecordOf, Active, Terminal
      <4>2. WorkerOf(t)'
        BY <2>1, <2>2, <2>3 DEF WorkerOf, Terminal
      <4>3. CommandOf(t)'
        BY <2>1, <2>2, <2>3 DEF CommandOf, Terminal
      <4>4. LogOf(t)'
        <5>1. "failed" \in Terminal
          BY DEF Terminal
        <5>2. ~Begun(<<"created">>) /\ (\A y \in Terminal : <<"created">> # <<"created", y, "started">>)
          BY <5>1, LogShapes
        <5>3. QED
          BY <2>1, <2>3, <2>4, <5>1, <5>2 DEF LogOf, Ended
      <4>5. QED
        BY <3>2, <4>1, <4>2, <4>3, <4>4
    <3>3. QED
      BY <3>1, <3>2
  <2>13. QED
    BY <2>7, <2>8, <2>9, <2>10, <2>11, <2>12 DEF EachFits
<1>2. ASSUME NEW t \in Transfer, StartTransferRejected(t) PROVE TransferInv'
  <2>1. /\ t \notin Stored /\ t \notin Range(slots) /\ t \notin Range(pending)
        /\ t \notin cancelReq /\ log[t] = <<>> /\ command[t] = "none" /\ thread[t] = "none"
        /\ closer = "serving" /\ Serving
    BY <1>2, Fresh DEF StartTransferRejected, Prepare, SelectorServes
  <2>2. UNCHANGED <<cancelReq, slots, pending, thread, promoting, accepting, executorOpen,
                    closerVars, svcVars, clientVars>>
    BY <1>2 DEF StartTransferRejected
  <2>3. /\ state[t] = "absent" /\ state' = [state EXCEPT ![t] = "failed"]
        /\ state'[t] = "failed" /\ (\A h \in Transfer : h # t => state'[h] = state[h])
        /\ command'[t] = "none" /\ (\A h \in Transfer : h # t => command'[h] = command[h])
        /\ command' \in [Transfer -> {"none", "submitted", "starting", "dropped", "done"}]
        /\ owner' \in [Transfer -> Client \cup {NoClient}]
        /\ log' = [log EXCEPT ![t] = log[t] \o <<"created", "failed">>]
    BY <1>2, <2>1 DEF StartTransferRejected, Prepare, Publish, TypeOK
  <2>4. /\ log'[t] = <<"created", "failed">> /\ (\A h \in Transfer : h # t => log'[h] = log[h])
        /\ log' \in [Transfer -> Seq({"created", "started"} \cup Terminal)]
    <3>1. <<>> \o <<"created", "failed">> = <<"created", "failed">> /\ <<"created", "failed">> \in Seq({"created", "started"} \cup Terminal)
      BY LogFacts DEF Terminal
    <3>2. QED
      BY <2>1, <2>3, <3>1 DEF TypeOK
  <2>5. PICK ord \in Seq(Transfer) : ord = Append(order, t)
    BY AppendFacts DEF TypeOK
  <2>6. IsInjective(ord) /\ Range(ord) = Stored \cup {t}
    BY <2>1, <2>5, AppendFacts DEF TypeOK, OrderFits, Stored
  <2>7. /\ order' \in Seq(Transfer) /\ OrderFits' /\ Stored' \subseteq Stored \cup {t}
        /\ \A j \in Stored : state'[j] \notin Terminal => j \in Stored'
    BY <1>2, <2>5, <2>6, EvictFacts DEF StartTransferRejected
  <2>8. TypeOK'
    BY <2>2, <2>3, <2>4, <2>7 DEF TypeOK, States, Terminal
  <2>9. PoolFits'
    <3>1. slots \in Seq(Transfer) /\ IsInjective(slots) /\ Len(slots) \in Nat
      BY DEF TypeOK, PoolFits
    <3>2. /\ slots' \in Seq(Transfer) /\ IsInjective(slots') /\ Len(slots') <= Len(slots)
          /\ Range(slots') \subseteq Range(slots)
      BY <2>2, <3>1
    <3>3. \A j \in Range(slots') : j \in Stored' => j \in Stored
      BY <2>1, <2>2, <2>7
    <3>4. QED
      BY <3>2, <3>3, PoolKept
  <2>10. StopFits'
    BY <2>2, <2>3 DEF StopFits, Serving, TypeOK
  <2>11. PromoteFits'
    BY <2>1, <2>2, <2>3, PromoteKept
  <2>12. ASSUME NEW j \in Transfer
        PROVE  (RecordOf(j) /\ WorkerOf(j) /\ CommandOf(j) /\ LogOf(j))'
    <3>1. CASE j # t
      <4>1. Active(j) => j \in Stored /\ state[j] \notin Terminal
        BY DEF EachFits, RecordOf, Active
      <4>2. /\ state'[j] = state[j] /\ thread'[j] = thread[j] /\ command'[j] = command[j]
            /\ log'[j] = log[j] /\ closer' = closer
            /\ j \in Range(slots') <=> j \in Range(slots)
            /\ j \in Range(pending') => j \in Range(pending)
            /\ Serving /\ j \in Range(pending) => j \in Range(pending')
            /\ j \in cancelReq' => j \in cancelReq
            /\ j \in stuck => j \in stuck'
        BY <2>2, <2>3, <2>4, <3>1
      <4>3. (j \in Stored' => j \in Stored) /\ (Active(j) => j \in Stored')
        BY <2>7, <3>1, <4>1, <4>2
      <4>4. QED
        BY <4>2, <4>3, Untouched
    <3>2. CASE j = t
      <4>1. RecordOf(t)'
        BY <2>1, <2>2, <2>3, <2>7 DEF RecordOf, Active, Terminal
      <4>2. WorkerOf(t)'
        BY <2>1, <2>2, <2>3 DEF WorkerOf, Terminal
      <4>3. CommandOf(t)'
        BY <2>1, <2>2, <2>3 DEF CommandOf, Terminal
      <4>4. LogOf(t)'
        <5>1. "failed" \in Terminal
          BY DEF Terminal
        <5>2. ~Begun(<<"created", "failed">>) /\ (\A y \in Terminal : <<"created", "failed">> # <<"created", y, "started">>)
          BY <5>1, LogShapes
        <5>3. QED
          BY <2>1, <2>3, <2>4, <5>1, <5>2 DEF LogOf, Ended
      <4>5. QED
        BY <3>2, <4>1, <4>2, <4>3, <4>4
    <3>3. QED
      BY <3>1, <3>2
  <2>13. QED
    BY <2>7, <2>8, <2>9, <2>10, <2>11, <2>12 DEF EachFits
<1>3. ASSUME NEW s \in Service, AttachService(s) PROVE TransferInv'
  <2>1. UNCHANGED <<state, order, log, cancelReq, slots, pending, thread, promoting,
                    command, accepting, executorOpen, closer, stuck>>
    BY <1>3 DEF AttachService
  <2>2. TypeOK'
    BY <1>3, TransferAssumption DEF AttachService, SelectorServes, TypeOK, Client, NoClient
  <2>3. QED
    BY <2>1, <2>2, CoreKept
<1>4. CASE DetachFromServices
  <2>1. UNCHANGED <<state, order, log, cancelReq, slots, pending, thread, promoting,
                    command, accepting, executorOpen, closer, stuck>>
    BY <1>4 DEF DetachFromServices
  <2>2. TypeOK'
    BY <1>4, TransferAssumption DEF DetachFromServices, SelectorServes, TypeOK, Client, NoClient
  <2>3. QED
    BY <2>1, <2>2, CoreKept
<1>5. CASE DetachClient
  <2>1. UNCHANGED <<state, order, log, cancelReq, slots, pending, thread, promoting,
                    command, accepting, executorOpen, closer, stuck>>
    BY <1>5 DEF DetachClient
  <2>2. TypeOK'
    BY <1>5, TransferAssumption DEF DetachClient, SelectorServes, TypeOK, Client, NoClient
  <2>3. QED
    BY <2>1, <2>2, CoreKept
<1>6. CASE Reconnect
  <2>1. UNCHANGED <<state, order, log, cancelReq, slots, pending, thread, promoting,
                    command, accepting, executorOpen, closer, stuck>>
    BY <1>6 DEF Reconnect
  <2>2. client' \in Client
    BY <1>6, ClientStep DEF ClientFits, Next, Selector
  <2>3. TypeOK'
    BY <1>6, <2>1, <2>2 DEF Reconnect, TypeOK
  <2>4. QED
    BY <2>1, <2>3, CoreKept
<1>7. ASSUME NEW s \in Service, ServiceEnds(s) PROVE TransferInv'
  <2>1. UNCHANGED <<state, order, log, cancelReq, slots, pending, thread, promoting,
                    command, accepting, executorOpen, closer, stuck>>
    BY <1>7 DEF ServiceEnds
  <2>2. TypeOK'
    BY <1>7, TransferAssumption DEF ServiceEnds, SelectorServes, TypeOK, Client, NoClient
  <2>3. QED
    BY <2>1, <2>2, CoreKept
<1>8. ASSUME NEW t \in Transfer, RunTransfer(t) PROVE TransferInv'
  <2>1. RecordOf(t) /\ WorkerOf(t) /\ CommandOf(t) /\ LogOf(t)
    BY DEF EachFits
  <2>2. UNCHANGED <<log, owner, cancelReq, pending, promoting, accepting, executorOpen, closerVars,
                    svcVars, clientVars>>
    BY <1>8 DEF RunTransfer
  <2>3. /\ state[t] = "queued" /\ command[t] = "submitted" /\ thread[t] = "none"
        /\ state' = [state EXCEPT ![t] = "starting"] /\ thread' = [thread EXCEPT ![t] = "registered"]
        /\ command' = [command EXCEPT ![t] = "starting"] /\ order' = order
        /\ slots' = Append(slots, t) /\ CanStart(t, slots)
        /\ state'[t] = "starting" /\ (\A h \in Transfer : h # t => state'[h] = state[h])
        /\ thread'[t] = "registered" /\ (\A h \in Transfer : h # t => thread'[h] = thread[h])
        /\ command'[t] = "starting" /\ (\A h \in Transfer : h # t => command'[h] = command[h])
    BY <1>8, <2>1 DEF RunTransfer, Transition, Terminal, TypeOK, WorkerOf
  <2>4. slots \in Seq(Transfer) /\ IsInjective(slots) /\ t \notin Range(slots) /\ Range(slots') = Range(slots) \cup {t}
        /\ slots' \in Seq(Transfer)
    BY <2>1, <2>3, AppendFacts DEF TypeOK, PoolFits, WorkerOf
  <2>5. TypeOK'
    BY <2>2, <2>3, <2>4 DEF TypeOK, Threads, States
  <2>6. OrderFits' /\ Stored' = Stored
    BY <2>2, <2>3, <2>4, TableKept DEF Terminal
  <2>7. PoolFits'
    BY <2>3, <2>4, <2>6, PoolGrows
  <2>8. StopFits'
    BY <2>2, <2>3, <2>4 DEF StopFits, Serving, TypeOK
  <2>9. PromoteFits'
    BY <2>2, <2>3, <2>4, PromoteKept
  <2>10. ASSUME NEW j \in Transfer
        PROVE  (RecordOf(j) /\ WorkerOf(j) /\ CommandOf(j) /\ LogOf(j))'
    <3>1. CASE j # t
      <4>1. Active(j) => j \in Stored
        BY DEF EachFits, RecordOf
      <4>2. /\ state'[j] = state[j] /\ thread'[j] = thread[j] /\ command'[j] = command[j]
            /\ log'[j] = log[j] /\ closer' = closer
            /\ (j \in Range(slots') <=> j \in Range(slots))
            /\ (j \in Range(pending') <=> j \in Range(pending))
            /\ (j \in cancelReq' => j \in cancelReq) /\ (j \in stuck => j \in stuck')
        BY <2>2, <2>3, <2>4, <3>1
      <4>3. QED
        BY <2>6, <4>1, <4>2, Untouched
    <3>2. CASE j = t
      <4>1. (Serving' <=> Serving) /\ (t \in Stored' <=> t \in Stored)
        BY <2>2, <2>6 DEF Serving
      <4>2. RecordOf(t)'
        BY <2>1, <2>2, <2>3, <2>4, <4>1 DEF RecordOf, Active, Terminal
      <4>3. WorkerOf(t)'
        BY <2>1, <2>2, <2>3, <2>4, <4>1 DEF WorkerOf, Terminal
      <4>4. CommandOf(t)'
        BY <2>1, <2>2, <2>3, <2>4, <4>1 DEF CommandOf, Terminal
      <4>5. LogOf(t)'
        BY <2>1, <2>2, <2>3, <2>4, <4>1 DEF LogOf, Terminal
      <4>6. QED
        BY <3>2, <4>2, <4>3, <4>4, <4>5
    <3>3. QED
      BY <3>1, <3>2
  <2>11. QED
    BY <2>5, <2>6, <2>7, <2>8, <2>9, <2>10 DEF EachFits
<1>9. ASSUME NEW t \in Transfer, RunTransferStarts(t) PROVE TransferInv'
  <2>1. RecordOf(t) /\ WorkerOf(t) /\ CommandOf(t) /\ LogOf(t)
    BY DEF EachFits
  <2>2. UNCHANGED <<state, order, owner, cancelReq, slots, pending, promoting, accepting, executorOpen,
                    closerVars, svcVars, clientVars>>
    BY <1>9 DEF RunTransferStarts
  <2>3. /\ thread[t] = "registered" /\ command[t] = "starting"
        /\ command' = [command EXCEPT ![t] = "done"] /\ thread' = [thread EXCEPT ![t] = "started"]
        /\ command'[t] = "done" /\ (\A h \in Transfer : h # t => command'[h] = command[h])
        /\ thread'[t] = "started" /\ (\A h \in Transfer : h # t => thread'[h] = thread[h])
        /\ Publish(t, <<"started">>)
    BY <1>9, <2>1 DEF RunTransferStarts, TypeOK, CommandOf
  <2>4. /\ log' \in [Transfer -> Seq({"created", "started"} \cup Terminal)]
        /\ \A h \in Transfer : h # t => log'[h] = log[h]
        /\ state[t] # "absent"
        /\ \/ log'[t] \in {<<"created">>, <<"created", "started">>}
           \/ state[t] \in Terminal /\ Ended(log'[t], state[t])
        /\ Serving => \A y \in Terminal : log'[t] # <<"created", y, "started">>
    BY <2>3, StartLog
  <2>5. TypeOK'
    BY <2>2, <2>3, <2>4 DEF TypeOK, Threads, States
  <2>6. OrderFits' /\ Stored' = Stored
    BY <2>2, <2>3, <2>4, TableKept DEF Terminal
  <2>7. PoolFits'
    BY <2>2, <2>6, PoolSame
  <2>8. StopFits'
    BY <2>2, <2>3, <2>4 DEF StopFits, Serving, TypeOK
  <2>9. PromoteFits'
    BY <2>2, <2>3, <2>4, PromoteKept
  <2>10. ASSUME NEW j \in Transfer
        PROVE  (RecordOf(j) /\ WorkerOf(j) /\ CommandOf(j) /\ LogOf(j))'
    <3>1. CASE j # t
      <4>1. Active(j) => j \in Stored
        BY DEF EachFits, RecordOf
      <4>2. /\ state'[j] = state[j] /\ thread'[j] = thread[j] /\ command'[j] = command[j]
            /\ log'[j] = log[j] /\ closer' = closer
            /\ (j \in Range(slots') <=> j \in Range(slots))
            /\ (j \in Range(pending') <=> j \in Range(pending))
            /\ (j \in cancelReq' => j \in cancelReq) /\ (j \in stuck => j \in stuck')
        BY <2>2, <2>3, <2>4, <3>1
      <4>3. QED
        BY <2>6, <4>1, <4>2, Untouched
    <3>2. CASE j = t
      <4>1. (Serving' <=> Serving) /\ (t \in Stored' <=> t \in Stored)
        BY <2>2, <2>6 DEF Serving
      <4>2. RecordOf(t)'
        BY <2>1, <2>2, <2>3, <2>4, <4>1 DEF RecordOf, Active, Terminal
      <4>3. WorkerOf(t)'
        BY <2>1, <2>2, <2>3, <2>4, <4>1 DEF WorkerOf, Terminal
      <4>4. CommandOf(t)'
        BY <2>1, <2>2, <2>3, <2>4, <4>1 DEF CommandOf, WorkerOf, Terminal
      <4>5. LogOf(t)'
        BY <2>2, <2>3, <2>4, <4>1 DEF LogOf
      <4>6. QED
        BY <3>2, <4>2, <4>3, <4>4, <4>5
    <3>3. QED
      BY <3>1, <3>2
  <2>11. QED
    BY <2>5, <2>6, <2>7, <2>8, <2>9, <2>10 DEF EachFits
<1>10. ASSUME NEW t \in Transfer, RunTransferQueues(t) PROVE TransferInv'
  <2>1. RecordOf(t) /\ WorkerOf(t) /\ CommandOf(t) /\ LogOf(t)
    BY DEF EachFits
  <2>2. UNCHANGED <<state, order, log, owner, cancelReq, slots, thread, promoting, accepting, executorOpen,
                    closerVars, svcVars, clientVars>>
    BY <1>10 DEF RunTransferQueues
  <2>3. /\ command[t] = "submitted" /\ state[t] = "queued"
        /\ command' = [command EXCEPT ![t] = "done"]
        /\ command'[t] = "done" /\ (\A h \in Transfer : h # t => command'[h] = command[h])
        /\ pending' \in Seq(Transfer) /\ Range(pending') = Range(pending) \cup {t}
    BY <1>10, AppendFacts DEF RunTransferQueues, TypeOK
  <2>4. TypeOK'
    BY <2>2, <2>3 DEF TypeOK, Threads, States
  <2>5. OrderFits' /\ Stored' = Stored
    BY <2>2, <2>3, TableKept DEF Terminal
  <2>6. PoolFits'
    BY <2>2, <2>5, PoolSame
  <2>7. StopFits'
    BY <2>2, <2>3 DEF StopFits, Serving, TypeOK
  <2>8. PromoteFits'
    BY <2>2, <2>3, PromoteKept
  <2>9. ASSUME NEW j \in Transfer
        PROVE  (RecordOf(j) /\ WorkerOf(j) /\ CommandOf(j) /\ LogOf(j))'
    <3>1. CASE j # t
      <4>1. Active(j) => j \in Stored
        BY DEF EachFits, RecordOf
      <4>2. /\ state'[j] = state[j] /\ thread'[j] = thread[j] /\ command'[j] = command[j]
            /\ log'[j] = log[j] /\ closer' = closer
            /\ (j \in Range(slots') <=> j \in Range(slots))
            /\ (j \in Range(pending') <=> j \in Range(pending))
            /\ (j \in cancelReq' => j \in cancelReq) /\ (j \in stuck => j \in stuck')
        BY <2>2, <2>3, <3>1
      <4>3. QED
        BY <2>5, <4>1, <4>2, Untouched
    <3>2. CASE j = t
      <4>1. (Serving' <=> Serving) /\ (t \in Stored' <=> t \in Stored)
        BY <2>2, <2>5 DEF Serving
      <4>2. RecordOf(t)'
        BY <2>1, <2>2, <2>3, <4>1 DEF RecordOf, Active, Terminal
      <4>3. WorkerOf(t)'
        BY <2>1, <2>2, <2>3, <4>1 DEF WorkerOf, Terminal
      <4>4. CommandOf(t)'
        BY <2>1, <2>2, <2>3, <4>1 DEF CommandOf, Terminal
      <4>5. LogOf(t)'
        BY <2>1, <2>2, <2>3, <4>1 DEF LogOf, Terminal
      <4>6. QED
        BY <3>2, <4>2, <4>3, <4>4, <4>5
    <3>3. QED
      BY <3>1, <3>2
  <2>10. QED
    BY <2>4, <2>5, <2>6, <2>7, <2>8, <2>9 DEF EachFits
<1>11. ASSUME NEW t \in Transfer, RunTransferTooLate(t) PROVE TransferInv'
  <2>1. RecordOf(t) /\ WorkerOf(t) /\ CommandOf(t) /\ LogOf(t)
    BY DEF EachFits
  <2>2. /\ command[t] = "submitted" /\ command' = [command EXCEPT ![t] = "done"]
        /\ command'[t] = "done" /\ (\A h \in Transfer : h # t => command'[h] = command[h])
        /\ command' \in [Transfer -> {"none", "submitted", "starting", "dropped", "done"}]
        /\ thread' = thread /\ pending' = pending /\ cancelReq' = cancelReq /\ stuck' = stuck
        /\ thread[t] = "none" /\ t \notin Range(pending)
    BY <1>11, <2>1 DEF RunTransferTooLate, TypeOK, CommandOf
  <2>3. \/ state[t] \in Terminal /\ UNCHANGED recordVars
        \/ Active(t) /\ \E x \in Terminal : Transition(t, x) /\ Publish(t, <<x>>)
    BY <1>11, <2>1 DEF RunTransferTooLate, CommandOf, RecordOf, Active, Terminal
  <2>4. UNCHANGED <<owner, slots, promoting, accepting, executorOpen, closer, joining, svcVars,
                    clientVars>>
    BY <1>11 DEF RunTransferTooLate
  <2>5. TransferInv'
    BY <2>1, <2>2, <2>3, <2>4, EndStep DEF TypeOK, CommandOf
  <2>6. QED
    BY <2>5
<1>12. ASSUME NEW t \in Transfer, WorkerEnters(t) PROVE TransferInv'
  <2>1. RecordOf(t) /\ WorkerOf(t) /\ CommandOf(t) /\ LogOf(t)
    BY DEF EachFits
  <2>2. UNCHANGED <<log, owner, cancelReq, slots, pending, promoting, command, accepting, executorOpen,
                    closerVars, svcVars, clientVars>>
    BY <1>12 DEF WorkerEnters
  <2>3. /\ state[t] = "starting" /\ thread[t] = "started" /\ order' = order
        /\ state' = [state EXCEPT ![t] = "running"] /\ thread' = [thread EXCEPT ![t] = "acquiring"]
        /\ state'[t] = "running" /\ (\A h \in Transfer : h # t => state'[h] = state[h])
        /\ thread'[t] = "acquiring" /\ (\A h \in Transfer : h # t => thread'[h] = thread[h])
    BY <1>12 DEF WorkerEnters, Transition, Terminal, TypeOK
  <2>4. TypeOK'
    BY <2>2, <2>3 DEF TypeOK, Threads, States
  <2>5. OrderFits' /\ Stored' = Stored
    BY <2>2, <2>3, TableKept DEF Terminal
  <2>6. PoolFits'
    BY <2>2, <2>5, PoolSame
  <2>7. StopFits'
    BY <2>2, <2>3 DEF StopFits, Serving, TypeOK
  <2>8. PromoteFits'
    BY <2>2, <2>3, PromoteKept
  <2>9. ASSUME NEW j \in Transfer
        PROVE  (RecordOf(j) /\ WorkerOf(j) /\ CommandOf(j) /\ LogOf(j))'
    <3>1. CASE j # t
      <4>1. Active(j) => j \in Stored
        BY DEF EachFits, RecordOf
      <4>2. /\ state'[j] = state[j] /\ thread'[j] = thread[j] /\ command'[j] = command[j]
            /\ log'[j] = log[j] /\ closer' = closer
            /\ (j \in Range(slots') <=> j \in Range(slots))
            /\ (j \in Range(pending') <=> j \in Range(pending))
            /\ (j \in cancelReq' => j \in cancelReq) /\ (j \in stuck => j \in stuck')
        BY <2>2, <2>3, <3>1
      <4>3. QED
        BY <2>5, <4>1, <4>2, Untouched
    <3>2. CASE j = t
      <4>1. (Serving' <=> Serving) /\ (t \in Stored' <=> t \in Stored)
        BY <2>2, <2>5 DEF Serving
      <4>2. RecordOf(t)'
        BY <2>1, <2>2, <2>3, <4>1 DEF RecordOf, Active, Terminal
      <4>3. WorkerOf(t)'
        BY <2>1, <2>2, <2>3, <4>1 DEF WorkerOf, Terminal
      <4>4. CommandOf(t)'
        BY <2>1, <2>2, <2>3, <4>1 DEF CommandOf, Terminal
      <4>5. LogOf(t)'
        BY <2>1, <2>2, <2>3, <4>1 DEF LogOf, Terminal
      <4>6. QED
        BY <3>2, <4>2, <4>3, <4>4, <4>5
    <3>3. QED
      BY <3>1, <3>2
  <2>10. QED
    BY <2>4, <2>5, <2>6, <2>7, <2>8, <2>9 DEF EachFits
<1>13. ASSUME NEW t \in Transfer, WorkerReturnsEarly(t) PROVE TransferInv'
  <2>1. RecordOf(t) /\ WorkerOf(t) /\ CommandOf(t) /\ LogOf(t)
    BY DEF EachFits
  <2>2. UNCHANGED <<state, order, log, owner, cancelReq, slots, pending, promoting, command, accepting,
                    executorOpen, closerVars, svcVars, clientVars>>
    BY <1>13 DEF WorkerReturnsEarly
  <2>3. /\ thread[t] = "started" /\ thread' = [thread EXCEPT ![t] = "dead"]
        /\ thread'[t] = "dead" /\ (\A h \in Transfer : h # t => thread'[h] = thread[h])
    BY <1>13 DEF WorkerReturnsEarly, TypeOK
  <2>4. TypeOK'
    BY <2>2, <2>3 DEF TypeOK, Threads, States
  <2>5. OrderFits' /\ Stored' = Stored
    BY <2>2, <2>3, TableKept DEF Terminal
  <2>6. PoolFits'
    BY <2>2, <2>5, PoolSame
  <2>7. StopFits'
    BY <2>2, <2>3 DEF StopFits, Serving, TypeOK
  <2>8. PromoteFits'
    BY <2>2, <2>3, PromoteKept
  <2>9. ASSUME NEW j \in Transfer
        PROVE  (RecordOf(j) /\ WorkerOf(j) /\ CommandOf(j) /\ LogOf(j))'
    <3>1. CASE j # t
      <4>1. Active(j) => j \in Stored
        BY DEF EachFits, RecordOf
      <4>2. /\ state'[j] = state[j] /\ thread'[j] = thread[j] /\ command'[j] = command[j]
            /\ log'[j] = log[j] /\ closer' = closer
            /\ (j \in Range(slots') <=> j \in Range(slots))
            /\ (j \in Range(pending') <=> j \in Range(pending))
            /\ (j \in cancelReq' => j \in cancelReq) /\ (j \in stuck => j \in stuck')
        BY <2>2, <2>3, <3>1
      <4>3. QED
        BY <2>5, <4>1, <4>2, Untouched
    <3>2. CASE j = t
      <4>1. (Serving' <=> Serving) /\ (t \in Stored' <=> t \in Stored)
        BY <2>2, <2>5 DEF Serving
      <4>2. RecordOf(t)'
        BY <2>1, <2>2, <2>3, <4>1 DEF RecordOf, Active, Terminal
      <4>3. WorkerOf(t)'
        BY <2>1, <2>2, <2>3, <4>1 DEF WorkerOf, Terminal
      <4>4. CommandOf(t)'
        BY <2>1, <2>2, <2>3, <4>1 DEF CommandOf, Terminal
      <4>5. LogOf(t)'
        BY <2>1, <2>2, <2>3, <4>1 DEF LogOf, Terminal
      <4>6. QED
        BY <3>2, <4>2, <4>3, <4>4, <4>5
    <3>3. QED
      BY <3>1, <3>2
  <2>10. QED
    BY <2>4, <2>5, <2>6, <2>7, <2>8, <2>9 DEF EachFits
<1>14. ASSUME NEW t \in Transfer, WorkerAcquires(t) PROVE TransferInv'
  <2>1. RecordOf(t) /\ WorkerOf(t) /\ CommandOf(t) /\ LogOf(t)
    BY DEF EachFits
  <2>2. UNCHANGED <<state, order, log, owner, cancelReq, slots, pending, promoting, command, accepting,
                    executorOpen, closerVars, svcVars, clientVars>>
    BY <1>14 DEF WorkerAcquires
  <2>3. /\ thread[t] = "acquiring" /\ thread' = [thread EXCEPT ![t] = "copying"]
        /\ thread'[t] = "copying" /\ (\A h \in Transfer : h # t => thread'[h] = thread[h])
    BY <1>14 DEF WorkerAcquires, TypeOK
  <2>4. TypeOK'
    BY <2>2, <2>3 DEF TypeOK, Threads, States
  <2>5. OrderFits' /\ Stored' = Stored
    BY <2>2, <2>3, TableKept DEF Terminal
  <2>6. PoolFits'
    BY <2>2, <2>5, PoolSame
  <2>7. StopFits'
    BY <2>2, <2>3 DEF StopFits, Serving, TypeOK
  <2>8. PromoteFits'
    BY <2>2, <2>3, PromoteKept
  <2>9. ASSUME NEW j \in Transfer
        PROVE  (RecordOf(j) /\ WorkerOf(j) /\ CommandOf(j) /\ LogOf(j))'
    <3>1. CASE j # t
      <4>1. Active(j) => j \in Stored
        BY DEF EachFits, RecordOf
      <4>2. /\ state'[j] = state[j] /\ thread'[j] = thread[j] /\ command'[j] = command[j]
            /\ log'[j] = log[j] /\ closer' = closer
            /\ (j \in Range(slots') <=> j \in Range(slots))
            /\ (j \in Range(pending') <=> j \in Range(pending))
            /\ (j \in cancelReq' => j \in cancelReq) /\ (j \in stuck => j \in stuck')
        BY <2>2, <2>3, <3>1
      <4>3. QED
        BY <2>5, <4>1, <4>2, Untouched
    <3>2. CASE j = t
      <4>1. (Serving' <=> Serving) /\ (t \in Stored' <=> t \in Stored)
        BY <2>2, <2>5 DEF Serving
      <4>2. RecordOf(t)'
        BY <2>1, <2>2, <2>3, <4>1 DEF RecordOf, Active, Terminal
      <4>3. WorkerOf(t)'
        BY <2>1, <2>2, <2>3, <4>1 DEF WorkerOf, Terminal
      <4>4. CommandOf(t)'
        BY <2>1, <2>2, <2>3, <4>1 DEF CommandOf, Terminal
      <4>5. LogOf(t)'
        BY <2>1, <2>2, <2>3, <4>1 DEF LogOf, Terminal
      <4>6. QED
        BY <3>2, <4>2, <4>3, <4>4, <4>5
    <3>3. QED
      BY <3>1, <3>2
  <2>10. QED
    BY <2>4, <2>5, <2>6, <2>7, <2>8, <2>9 DEF EachFits
<1>15. ASSUME NEW t \in Transfer, WorkerCannotAcquire(t) PROVE TransferInv'
  <2>1. RecordOf(t) /\ WorkerOf(t) /\ CommandOf(t) /\ LogOf(t)
    BY DEF EachFits
  <2>2. /\ thread[t] = "acquiring" /\ thread' = [thread EXCEPT ![t] = "dead"]
        /\ thread'[t] = "dead" /\ (\A h \in Transfer : h # t => thread'[h] = thread[h])
        /\ thread' \in [Transfer -> Threads] /\ pending' = pending /\ cancelReq' = cancelReq
        /\ command' = command /\ stuck' = stuck
    BY <1>15 DEF WorkerCannotAcquire, TypeOK, Threads
  <2>3. \/ state[t] \in Terminal /\ UNCHANGED recordVars
        \/ Active(t) /\ \E x \in Terminal : Transition(t, x) /\ Publish(t, <<x>>)
    <3>1. state[t] # "absent" /\ (state[t] \in Terminal \/ Active(t))
      BY <2>1, <2>2 DEF WorkerOf, Active, Terminal
    <3>2. Fail(t)
      BY <1>15 DEF WorkerCannotAcquire
    <3>3. "failed" \in Terminal
      BY DEF Terminal
    <3>4. QED
      BY <3>1, <3>2, <3>3 DEF Fail
  <2>4. UNCHANGED <<owner, slots, promoting, accepting, executorOpen, closer, joining, svcVars,
                    clientVars>>
    BY <1>15 DEF WorkerCannotAcquire
  <2>5. TransferInv'
    BY <2>1, <2>2, <2>3, <2>4, EndStep DEF TypeOK, CommandOf
  <2>6. QED
    BY <2>5
<1>16. ASSUME NEW t \in Transfer, CopyCompletes(t) PROVE TransferInv'
  <2>1. RecordOf(t) /\ WorkerOf(t) /\ CommandOf(t) /\ LogOf(t)
    BY DEF EachFits
  <2>2. /\ thread[t] = "copying" /\ thread' = [thread EXCEPT ![t] = "finally"]
        /\ thread'[t] = "finally" /\ (\A h \in Transfer : h # t => thread'[h] = thread[h])
        /\ thread' \in [Transfer -> Threads] /\ pending' = pending /\ cancelReq' \subseteq cancelReq
        /\ command' = command /\ stuck' = stuck
    BY <1>16 DEF CopyCompletes, CopyEnds, TypeOK, Threads
  <2>3. \/ state[t] \in Terminal /\ UNCHANGED recordVars
        \/ Active(t) /\ \E x \in Terminal : Transition(t, x) /\ Publish(t, <<x>>)
    <3>1. state[t] \in {"running", "cancelling"} \cup Terminal
      BY <2>1, <2>2 DEF WorkerOf
    <3>2. FinishCompleted(t)
      BY <1>16 DEF CopyCompletes
    <3>3. CASE state[t] = "cancelling"
      BY <3>2, <3>3 DEF FinishCompleted, Active, Terminal
    <3>4. CASE state[t] = "running"
      BY <3>2, <3>4 DEF FinishCompleted, Active, Terminal
    <3>5. CASE state[t] \in Terminal
      BY <3>2, <3>5 DEF FinishCompleted, Terminal
    <3>6. QED
      BY <3>1, <3>3, <3>4, <3>5
  <2>4. UNCHANGED <<owner, slots, promoting, accepting, executorOpen, closer, joining, svcVars,
                    clientVars>>
    BY <1>16 DEF CopyCompletes, CopyEnds
  <2>5. TransferInv'
    BY <2>1, <2>2, <2>3, <2>4, EndStep DEF TypeOK, CommandOf
  <2>6. QED
    BY <2>5
<1>17. ASSUME NEW t \in Transfer, CopyFails(t) PROVE TransferInv'
  <2>1. RecordOf(t) /\ WorkerOf(t) /\ CommandOf(t) /\ LogOf(t)
    BY DEF EachFits
  <2>2. /\ thread[t] = "copying" /\ thread' = [thread EXCEPT ![t] = "finally"]
        /\ thread'[t] = "finally" /\ (\A h \in Transfer : h # t => thread'[h] = thread[h])
        /\ thread' \in [Transfer -> Threads] /\ pending' = pending /\ cancelReq' \subseteq cancelReq
        /\ command' = command /\ stuck' = stuck
    BY <1>17 DEF CopyFails, CopyEnds, TypeOK, Threads
  <2>3. \/ state[t] \in Terminal /\ UNCHANGED recordVars
        \/ Active(t) /\ \E x \in Terminal : Transition(t, x) /\ Publish(t, <<x>>)
    <3>1. state[t] # "absent" /\ (state[t] \in Terminal \/ Active(t))
      BY <2>1, <2>2 DEF WorkerOf, Active, Terminal
    <3>2. Fail(t)
      BY <1>17 DEF CopyFails
    <3>3. "failed" \in Terminal
      BY DEF Terminal
    <3>4. QED
      BY <3>1, <3>2, <3>3 DEF Fail
  <2>4. UNCHANGED <<owner, slots, promoting, accepting, executorOpen, closer, joining, svcVars,
                    clientVars>>
    BY <1>17 DEF CopyFails, CopyEnds
  <2>5. TransferInv'
    BY <2>1, <2>2, <2>3, <2>4, EndStep DEF TypeOK, CommandOf
  <2>6. QED
    BY <2>5
<1>18. ASSUME NEW t \in Transfer, CopyCancelled(t) PROVE TransferInv'
  <2>1. RecordOf(t) /\ WorkerOf(t) /\ CommandOf(t) /\ LogOf(t)
    BY DEF EachFits
  <2>2. /\ thread[t] = "copying" /\ thread' = [thread EXCEPT ![t] = "finally"]
        /\ thread'[t] = "finally" /\ (\A h \in Transfer : h # t => thread'[h] = thread[h])
        /\ thread' \in [Transfer -> Threads] /\ pending' = pending /\ cancelReq' \subseteq cancelReq
        /\ command' = command /\ stuck' = stuck
    BY <1>18 DEF CopyCancelled, CopyEnds, FinishCancelled, TypeOK, Threads
  <2>3. \/ state[t] \in Terminal /\ UNCHANGED recordVars
        \/ Active(t) /\ \E x \in Terminal : Transition(t, x) /\ Publish(t, <<x>>)
    <3>1. state[t] # "absent" /\ (state[t] \in Terminal \/ Active(t))
      BY <2>1, <2>2 DEF WorkerOf, Active, Terminal
    <3>2. FinishCancelled(t)
      BY <1>18 DEF CopyCancelled
    <3>3. "cancelled" \in Terminal
      BY DEF Terminal
    <3>4. QED
      BY <3>1, <3>2, <3>3 DEF FinishCancelled
  <2>4. UNCHANGED <<owner, slots, promoting, accepting, executorOpen, closer, joining, svcVars,
                    clientVars>>
    BY <1>18 DEF CopyCancelled, CopyEnds
  <2>5. TransferInv'
    BY <2>1, <2>2, <2>3, <2>4, EndStep DEF TypeOK, CommandOf
  <2>6. QED
    BY <2>5
<1>19. ASSUME NEW t \in Transfer, WorkerFinally(t) PROVE TransferInv'
  <2>1. RecordOf(t) /\ WorkerOf(t) /\ CommandOf(t) /\ LogOf(t)
    BY DEF EachFits
  <2>2. thread[t] = "finally"
    BY <1>19 DEF WorkerFinally
  <2>3. UNCHANGED <<log, owner, cancelReq, command, accepting, executorOpen, closerVars, svcVars,
                    clientVars>>
    BY <1>19 DEF WorkerFinally
  <2>4. PICK free \in Seq(Transfer) :
          /\ free = Only(slots, Transfer \ {t})
          /\ IsInjective(free) /\ Range(free) = Range(slots) \ {t}
          /\ Range(free) \subseteq Range(slots) /\ Len(free) <= Len(slots)
    BY FreeFacts
  <2>5. PICK taken : taken = NextRunnable(free)
    OBVIOUS
  <2>6. \A u \in taken :
          /\ u \in Transfer /\ u \in Range(pending) /\ Waiting(u) /\ CanStart(u, free)
          /\ taken = {u}
    BY <2>5, NextFacts
  <2>7. /\ pending' \in Seq(Transfer) /\ Range(pending') \subseteq Range(pending) \ taken
        /\ Serving => Range(pending') = Range(pending) \ taken
    BY <1>19, <2>4, <2>5, KeptFacts DEF WorkerFinally
  <2>8. CASE taken = {}
    <3>1. /\ slots' = free /\ UNCHANGED <<state, order>>
          /\ thread'[t] = "dead" /\ (\A h \in Transfer : h # t => thread'[h] = thread[h])
          /\ thread' \in [Transfer -> Threads]
      BY <1>19, <2>4, <2>5, <2>8 DEF WorkerFinally, TypeOK, Threads
    <3>2. promoting' = promoting
      <4>1. promoting[t] = {}
        BY <2>2 DEF PromoteFits
      <4>2. promoting' = [promoting EXCEPT ![t] = {}]
        BY <1>19, <2>4, <2>5, <2>8 DEF WorkerFinally
      <4>3. QED
        BY <4>1, <4>2 DEF TypeOK
    <3>3. TypeOK'
      BY <2>3, <2>4, <2>7, <3>1, <3>2 DEF TypeOK
    <3>4. OrderFits' /\ Stored' = Stored
      BY <3>1, TableKept
    <3>5. PoolFits'
      <4>1. /\ slots' \in Seq(Transfer) /\ IsInjective(slots') /\ Len(slots') <= Len(slots)
            /\ Range(slots') \subseteq Range(slots)
        BY <2>4, <3>1
      <4>2. QED
        BY <3>4, <4>1, PoolKept
    <3>6. StopFits'
      BY <2>3, <3>1 DEF StopFits, Serving
    <3>7. PromoteFits'
      BY <2>2, <2>3, <3>1, <3>2, PromoteKept
    <3>8. ASSUME NEW j \in Transfer
          PROVE  (RecordOf(j) /\ WorkerOf(j) /\ CommandOf(j) /\ LogOf(j))'
      <4>1. CASE j # t
        <5>1. Active(j) => j \in Stored
            BY DEF EachFits, RecordOf
          <5>2. /\ state'[j] = state[j] /\ thread'[j] = thread[j] /\ command'[j] = command[j]
                /\ log'[j] = log[j] /\ closer' = closer
                /\ j \in Range(slots') <=> j \in Range(slots)
                /\ j \in Range(pending') => j \in Range(pending)
                /\ Serving /\ j \in Range(pending) => j \in Range(pending')
                /\ j \in cancelReq' => j \in cancelReq
                /\ j \in stuck => j \in stuck'
            BY <2>3, <2>4, <2>7, <2>8, <3>1, <4>1
          <5>3. QED
            BY <3>4, <5>1, <5>2, Untouched
      <4>2. CASE j = t
        <5>1. /\ (Serving' <=> Serving) /\ (t \in Stored' <=> t \in Stored)
              /\ t \notin Range(slots') /\ state[t] \in Terminal /\ closer' = closer
          BY <2>1, <2>2, <2>3, <2>4, <3>1, <3>4 DEF Serving, WorkerOf
        <5>2. RecordOf(t)'
          BY <2>1, <2>3, <3>1, <5>1 DEF RecordOf, Active, Terminal
        <5>3. WorkerOf(t)'
          BY <2>1, <2>3, <3>1, <5>1 DEF WorkerOf, Terminal
        <5>4. CommandOf(t)'
          BY <2>1, <2>2, <2>3, <2>7, <3>1, <5>1 DEF CommandOf, Terminal
        <5>5. LogOf(t)'
          BY <2>1, <2>3, <3>1, <5>1 DEF LogOf, Terminal
        <5>6. QED
          BY <4>2, <5>2, <5>3, <5>4, <5>5
      <4>3. QED
        BY <4>1, <4>2
    <3>9. QED
      BY <3>3, <3>4, <3>5, <3>6, <3>7, <3>8 DEF EachFits
  <2>9. CASE taken # {}
    <3>1. PICK u \in taken :
            /\ slots' = Append(free, u)
            /\ thread' = [thread EXCEPT ![t] = "promoting", ![u] = "registered"]
            /\ Transition(u, "starting")
      BY <1>19, <2>4, <2>5, <2>9 DEF WorkerFinally
    <3>2. /\ u \in Transfer /\ u \in Range(pending) /\ Waiting(u) /\ CanStart(u, free)
          /\ taken = {u}
      BY <2>6
    <3>3. RecordOf(u) /\ WorkerOf(u) /\ CommandOf(u) /\ LogOf(u)
      BY <3>2 DEF EachFits
    <3>4. /\ state[u] = "queued" /\ thread[u] = "none" /\ command[u] = "done" /\ u # t
          /\ u \notin Range(slots) /\ u \in Stored /\ u \notin cancelReq
      BY <2>2, <3>2, <3>3 DEF Waiting, CommandOf, WorkerOf
    <3>5. /\ order' = order /\ state'[u] = "starting"
          /\ \A h \in Transfer : h # u => state'[h] = state[h]
          /\ state' \in [Transfer -> States]
      BY <3>1, <3>2 DEF Transition, Terminal, TypeOK, States
    <3>6. /\ thread'[t] = "promoting" /\ thread'[u] = "registered"
          /\ \A h \in Transfer : h # u /\ h # t => thread'[h] = thread[h]
          /\ thread' \in [Transfer -> Threads]
      BY <3>1, <3>2, <3>4 DEF TypeOK, Threads
    <3>7. /\ promoting'[t] = {u} /\ promoting' \in [Transfer -> SUBSET Transfer]
          /\ \A h \in Transfer : h # t => promoting'[h] = promoting[h]
      <4>1. promoting' = [promoting EXCEPT ![t] = {u}]
        BY <1>19, <2>4, <2>5, <3>2 DEF WorkerFinally
      <4>2. QED
        BY <3>2, <4>1 DEF TypeOK
    <3>8. OrderFits' /\ Stored' = Stored
      <4>1. \A h \in Transfer : state'[h] \in Terminal <=> state[h] \in Terminal
        BY <3>4, <3>5 DEF Terminal
      <4>2. QED
        BY <3>5, <4>1, TableKept
    <3>9. PoolFits' /\ slots' \in Seq(Transfer) /\ Range(slots') = Range(free) \cup {u}
      BY <2>4, <3>1, <3>2, <3>4, <3>8, PoolGrows
    <3>10. TypeOK'
      BY <2>3, <2>7, <3>5, <3>6, <3>7, <3>9 DEF TypeOK
    <3>11. StopFits'
      <4>1. \A h \in stuck' : state'[h] # "absent"
        BY <2>3, <3>2, <3>5 DEF StopFits, TypeOK
      <4>2. QED
        BY <2>3, <4>1 DEF StopFits, Serving
    <3>12. PromoteFits'
      <4>1. ASSUME NEW w \in Transfer, NEW v \in promoting'[w]
            PROVE  thread'[w] = "promoting" /\ thread'[v] = "registered" /\ command'[v] = "done"
        <5>1. CASE w = t
          BY <2>3, <3>4, <3>6, <3>7, <4>1, <5>1
        <5>2. CASE w # t
          <6>1. v \in promoting[w] /\ v \in Transfer
            BY <3>7, <4>1, <5>2 DEF TypeOK
          <6>2. thread[w] = "promoting" /\ thread[v] = "registered" /\ command[v] = "done"
            BY <6>1 DEF PromoteFits
          <6>3. w # u /\ v # u /\ v # t
            BY <2>2, <3>4, <6>2
          <6>4. QED
            BY <2>3, <3>6, <5>2, <6>1, <6>2, <6>3
        <5>3. QED
          BY <5>1, <5>2
      <4>2. ASSUME NEW w \in Transfer, NEW v \in Transfer, w # v
            PROVE  promoting'[w] \cap promoting'[v] = {}
        <5>1. \A h \in Transfer : u \notin promoting[h]
          BY <3>4 DEF PromoteFits
        <5>2. promoting[w] \cap promoting[v] = {}
          BY <4>2 DEF PromoteFits
        <5>3. QED
          BY <3>7, <4>2, <5>1, <5>2
      <4>3. QED
        BY <4>1, <4>2 DEF PromoteFits
    <3>13. ASSUME NEW j \in Transfer
          PROVE  (RecordOf(j) /\ WorkerOf(j) /\ CommandOf(j) /\ LogOf(j))'
      <4>1. CASE j # t /\ j # u
        <5>1. Active(j) => j \in Stored
            BY DEF EachFits, RecordOf
          <5>2. /\ state'[j] = state[j] /\ thread'[j] = thread[j] /\ command'[j] = command[j]
                /\ log'[j] = log[j] /\ closer' = closer
                /\ j \in Range(slots') <=> j \in Range(slots)
                /\ j \in Range(pending') => j \in Range(pending)
                /\ Serving /\ j \in Range(pending) => j \in Range(pending')
                /\ j \in cancelReq' => j \in cancelReq
                /\ j \in stuck => j \in stuck'
            BY <2>3, <2>4, <2>7, <3>2, <3>5, <3>6, <3>9, <4>1
          <5>3. QED
            BY <3>8, <5>1, <5>2, Untouched
      <4>2. CASE j = t
        <5>1. /\ (Serving' <=> Serving) /\ (t \in Stored' <=> t \in Stored) /\ state'[t] = state[t]
              /\ t \notin Range(slots') /\ state[t] \in Terminal /\ closer' = closer
              /\ thread'[t] = "promoting" /\ log'[t] = log[t]
          BY <2>1, <2>2, <2>3, <2>4, <3>4, <3>5, <3>6, <3>8, <3>9 DEF Serving, WorkerOf
        <5>2. RecordOf(t)'
          BY <2>1, <2>3, <5>1 DEF RecordOf, Active, Terminal
        <5>3. WorkerOf(t)'
          BY <2>1, <2>3, <5>1 DEF WorkerOf, Terminal
        <5>4. CommandOf(t)'
          BY <2>1, <2>2, <2>3, <2>7, <5>1 DEF CommandOf, Terminal
        <5>5. LogOf(t)'
          BY <2>1, <2>3, <5>1 DEF LogOf, Terminal
        <5>6. QED
          BY <4>2, <5>2, <5>3, <5>4, <5>5
      <4>3. CASE j = u
        <5>1. /\ (Serving' <=> Serving) /\ (u \in Stored' <=> u \in Stored) /\ u \in Range(slots')
              /\ closer' = closer /\ thread'[u] = "registered" /\ log'[u] = log[u]
              /\ state'[u] = "starting" /\ command'[u] = "done" /\ u \notin cancelReq'
              /\ u \notin Range(pending') /\ stuck' = stuck
          BY <2>3, <2>7, <3>2, <3>4, <3>5, <3>6, <3>8, <3>9 DEF Serving
        <5>2. RecordOf(u)'
          BY <3>3, <3>4, <5>1 DEF RecordOf, Active, Terminal
        <5>3. WorkerOf(u)'
          BY <5>1 DEF WorkerOf, Terminal
        <5>4. CommandOf(u)'
          BY <5>1 DEF CommandOf, Terminal
        <5>5. LogOf(u)'
          BY <3>3, <3>4, <5>1 DEF LogOf, Terminal
        <5>6. QED
          BY <4>3, <5>2, <5>3, <5>4, <5>5
      <4>4. QED
        BY <4>1, <4>2, <4>3
    <3>14. QED
      BY <3>8, <3>9, <3>10, <3>11, <3>12, <3>13 DEF EachFits
  <2>10. QED
    BY <2>8, <2>9
<1>20. ASSUME NEW t \in Transfer, WorkerPromotes(t) PROVE TransferInv'
  <2>1. thread[t] = "promoting"
    BY <1>20 DEF WorkerPromotes
  <2>2. PICK u \in promoting[t] :
          /\ Publish(u, <<"started">>)
          /\ thread' = [thread EXCEPT ![t] = "dead", ![u] = "started"]
    BY <1>20 DEF WorkerPromotes
  <2>3. /\ u \in Transfer /\ thread[u] = "registered" /\ command[u] = "done" /\ u # t
    BY <2>1, <2>2 DEF PromoteFits, TypeOK
  <2>4. UNCHANGED <<state, order, owner, cancelReq, slots, pending, command, accepting,
                    executorOpen, closerVars, svcVars, clientVars>>
    BY <1>20 DEF WorkerPromotes
  <2>5. /\ log' \in [Transfer -> Seq({"created", "started"} \cup Terminal)]
        /\ \A h \in Transfer : h # u => log'[h] = log[h]
        /\ state[u] # "absent"
        /\ \/ log'[u] \in {<<"created">>, <<"created", "started">>}
           \/ state[u] \in Terminal /\ Ended(log'[u], state[u])
        /\ Serving => \A y \in Terminal : log'[u] # <<"created", y, "started">>
    BY <2>2, <2>3, StartLog
  <2>6. /\ thread'[t] = "dead" /\ thread'[u] = "started"
        /\ \A h \in Transfer : h # u /\ h # t => thread'[h] = thread[h]
        /\ thread' \in [Transfer -> Threads]
    BY <2>2, <2>3 DEF TypeOK, Threads
  <2>7. /\ promoting'[t] = {} /\ promoting' \in [Transfer -> SUBSET Transfer]
        /\ \A h \in Transfer : h # t => promoting'[h] = promoting[h]
    BY <1>20 DEF WorkerPromotes, TypeOK
  <2>8. TypeOK'
    BY <2>4, <2>5, <2>6, <2>7 DEF TypeOK
  <2>9. OrderFits' /\ Stored' = Stored
    BY <2>4, TableKept
  <2>10. PoolFits'
    BY <2>4, <2>9, PoolSame
  <2>11. StopFits'
    BY <2>4 DEF StopFits, Serving
  <2>12. PromoteFits'
    <3>1. ASSUME NEW w \in Transfer, NEW v \in promoting'[w]
          PROVE  thread'[w] = "promoting" /\ thread'[v] = "registered" /\ command'[v] = "done"
      <4>1. w # t /\ v \in promoting[w] /\ v \in Transfer
        BY <2>7, <3>1 DEF TypeOK
      <4>2. thread[w] = "promoting" /\ thread[v] = "registered" /\ command[v] = "done"
        BY <4>1 DEF PromoteFits
      <4>3. promoting[w] \cap promoting[t] = {}
        BY <4>1 DEF PromoteFits
      <4>4. w # u /\ v # u /\ v # t
        BY <2>1, <2>2, <2>3, <4>1, <4>2, <4>3
      <4>5. QED
        BY <2>4, <2>6, <4>1, <4>2, <4>4
    <3>2. ASSUME NEW w \in Transfer, NEW v \in Transfer, w # v
          PROVE  promoting'[w] \cap promoting'[v] = {}
      <4>1. promoting[w] \cap promoting[v] = {}
        BY <3>2 DEF PromoteFits
      <4>2. QED
        BY <2>7, <3>2, <4>1
    <3>3. QED
      BY <3>1, <3>2 DEF PromoteFits
  <2>13. ASSUME NEW j \in Transfer
        PROVE  (RecordOf(j) /\ WorkerOf(j) /\ CommandOf(j) /\ LogOf(j))'
    <3>0. RecordOf(j) /\ WorkerOf(j) /\ CommandOf(j) /\ LogOf(j)
      BY DEF EachFits
    <3>1. CASE j # t /\ j # u
      <4>1. Active(j) => j \in Stored
        BY DEF EachFits, RecordOf
      <4>2. /\ state'[j] = state[j] /\ thread'[j] = thread[j] /\ command'[j] = command[j]
            /\ log'[j] = log[j] /\ closer' = closer
            /\ j \in Range(slots') <=> j \in Range(slots)
            /\ j \in Range(pending') => j \in Range(pending)
            /\ Serving /\ j \in Range(pending) => j \in Range(pending')
            /\ j \in cancelReq' => j \in cancelReq
            /\ j \in stuck => j \in stuck'
        BY <2>4, <2>5, <2>6, <3>1
      <4>3. QED
        BY <2>9, <4>1, <4>2, Untouched
    <3>2. CASE j = t \/ j = u
      <4>1. /\ (Serving' <=> Serving) /\ (j \in Stored' <=> j \in Stored) /\ state'[j] = state[j]
            /\ slots' = slots /\ pending' = pending /\ cancelReq' = cancelReq /\ stuck' = stuck
            /\ closer' = closer /\ command'[j] = command[j]
        BY <2>4, <2>9 DEF Serving
      <4>2. /\ thread[j] \in {"promoting", "registered"} /\ state[j] # "absent"
            /\ \/ thread'[j] = "dead" /\ thread[j] = "promoting" /\ state[j] \in Terminal /\ log'[j] = log[j]
               \/ thread'[j] = "started" /\ thread[j] = "registered" /\ command[j] = "done"
        BY <2>1, <2>3, <2>5, <2>6, <3>0, <3>2 DEF WorkerOf, Terminal
      <4>3. RecordOf(j)'
        BY <3>0, <4>1, <4>2 DEF RecordOf, Active
      <4>4. WorkerOf(j)'
        BY <3>0, <4>1, <4>2 DEF WorkerOf, Terminal
      <4>5. CommandOf(j)'
        BY <3>0, <4>1, <4>2 DEF CommandOf, WorkerOf, Terminal
      <4>6. LogOf(j)'
        <5>1. CASE j = t
          BY <2>3, <2>5, <2>6, <3>0, <4>1, <5>1 DEF LogOf
        <5>2. CASE j = u
          BY <2>5, <2>6, <4>1, <5>2 DEF LogOf
        <5>3. QED
          BY <3>2, <5>1, <5>2
      <4>7. QED
        BY <4>3, <4>4, <4>5, <4>6
    <3>3. QED
      BY <3>1, <3>2
  <2>14. QED
    BY <2>8, <2>9, <2>10, <2>11, <2>12, <2>13 DEF EachFits
<1>21. ASSUME NEW t \in Transfer, CancelTransfer(t) PROVE TransferInv'
  <2>1. CASE t \in Range(pending)
    <3>1. RecordOf(t) /\ CommandOf(t)
      BY DEF EachFits
    <3>2. /\ Serving /\ Active(t) /\ thread[t] = "none" /\ cancelReq' = cancelReq \cup {t}
          /\ pending' = Only(pending, Transfer \ {t}) /\ thread' = thread /\ command' = command
          /\ stuck' = stuck
      BY <1>21, <2>1, <3>1 DEF CancelTransfer, Cancellable, RecordOf, CommandOf, StopFits, Active
    <3>3. Active(t) /\ \E x \in Terminal : Transition(t, x) /\ Publish(t, <<x>>)
      BY <1>21, <2>1, <3>2 DEF CancelTransfer, Terminal
    <3>4. UNCHANGED <<owner, slots, promoting, accepting, executorOpen, closer, joining, svcVars,
                      clientVars>>
      BY <1>21 DEF CancelTransfer
    <3>5. pending' \in Seq(Transfer) /\ Range(pending') = Range(pending) \ {t}
      <4>1. pending \in Seq(Transfer) /\ Range(pending) \subseteq Transfer
        BY DEF TypeOK, Range
      <4>2. /\ Only(pending, Transfer \ {t}) \in Seq(Transfer)
            /\ Range(Only(pending, Transfer \ {t})) = Range(pending) \cap (Transfer \ {t})
        BY <4>1, OnlyMembers
      <4>3. QED
        BY <3>2, <4>1, <4>2
    <3>6. TransferInv'
      BY <3>2, <3>3, <3>4, <3>5, EndStep DEF TypeOK
    <3>7. QED
      BY <3>6
  <2>2. CASE t \notin Range(pending)
    <3>1. RecordOf(t) /\ WorkerOf(t) /\ CommandOf(t) /\ LogOf(t)
      BY DEF EachFits
    <3>2. UNCHANGED <<owner, slots, thread, promoting, command, accepting, executorOpen, closerVars,
                      svcVars, clientVars>>
      BY <1>21 DEF CancelTransfer
    <3>3. /\ state[t] \in {"starting", "running"} /\ order' = order
          /\ state' = [state EXCEPT ![t] = "cancelling"] /\ cancelReq' = cancelReq \cup {t}
          /\ state'[t] = "cancelling" /\ (\A h \in Transfer : h # t => state'[h] = state[h])
          /\ command[t] \notin {"submitted", "dropped"} /\ Serving /\ pending' = pending /\ log' = log
      BY <1>21, <2>2, <3>1 DEF CancelTransfer, Cancellable, Transition, Terminal, TypeOK, StopFits, RecordOf,
         CommandOf, States
    <3>4. TypeOK'
      BY <3>2, <3>3 DEF TypeOK, Threads, States
    <3>5. OrderFits' /\ Stored' = Stored
      BY <3>2, <3>3, TableKept DEF Terminal
    <3>6. PoolFits'
      BY <3>2, <3>5, PoolSame
    <3>7. StopFits'
      BY <3>2, <3>3 DEF StopFits, Serving, TypeOK
    <3>8. PromoteFits'
      BY <3>2, <3>3, PromoteKept
    <3>9. ASSUME NEW j \in Transfer
          PROVE  (RecordOf(j) /\ WorkerOf(j) /\ CommandOf(j) /\ LogOf(j))'
      <4>1. CASE j # t
        <5>1. Active(j) => j \in Stored
          BY DEF EachFits, RecordOf
        <5>2. /\ state'[j] = state[j] /\ thread'[j] = thread[j] /\ command'[j] = command[j]
              /\ log'[j] = log[j] /\ closer' = closer
              /\ (j \in Range(slots') <=> j \in Range(slots))
              /\ (j \in Range(pending') <=> j \in Range(pending))
              /\ (j \in cancelReq' => j \in cancelReq) /\ (j \in stuck => j \in stuck')
          BY <3>2, <3>3, <4>1
        <5>3. QED
          BY <3>5, <5>1, <5>2, Untouched
      <4>2. CASE j = t
        <5>1. (Serving' <=> Serving) /\ (t \in Stored' <=> t \in Stored)
          BY <3>2, <3>5 DEF Serving
        <5>2. RecordOf(t)'
          BY <3>1, <3>2, <3>3, <5>1 DEF RecordOf, Active, Terminal
        <5>3. WorkerOf(t)'
          BY <3>1, <3>2, <3>3, <5>1 DEF WorkerOf, Terminal
        <5>4. CommandOf(t)'
          BY <3>1, <3>2, <3>3, <5>1 DEF CommandOf, Terminal
        <5>5. LogOf(t)'
          BY <3>1, <3>2, <3>3, <5>1 DEF LogOf, Terminal
        <5>6. QED
          BY <4>2, <5>2, <5>3, <5>4, <5>5
      <4>3. QED
        BY <4>1, <4>2
    <3>10. QED
      BY <3>4, <3>5, <3>6, <3>7, <3>8, <3>9 DEF EachFits
  <2>3. QED
    BY <2>1, <2>2
<1>22. CASE StopExecutor
  <2>1. UNCHANGED <<state, order, log, owner, cancelReq, slots, pending, thread, promoting,
                    accepting, closer, joining, stuck, svcVars, clientVars>>
    BY <1>22 DEF StopExecutor
  <2>2. \A j \in Transfer :
          command'[j] = command[j] \/ (command[j] = "submitted" /\ command'[j] = "dropped")
    BY <1>22 DEF StopExecutor
  <2>3. command' \in [Transfer -> {"none", "submitted", "starting", "dropped", "done"}]
    BY <1>22 DEF StopExecutor, TypeOK
  <2>4. executorOpen' = FALSE
    BY <1>22 DEF StopExecutor
  <2>5. TypeOK'
    BY <2>1, <2>3, <2>4 DEF TypeOK
  <2>6. OrderFits' /\ PoolFits'
    BY <2>1 DEF OrderFits, PoolFits, Stored, ServiceWorkers
  <2>7. StopFits'
    BY <2>1, <2>4 DEF StopFits, Serving
  <2>8. PromoteFits'
    BY <2>1, <2>2, PromoteKept
  <2>9. ASSUME NEW j \in Transfer
        PROVE  (RecordOf(j) /\ WorkerOf(j) /\ CommandOf(j) /\ LogOf(j))'
    <3>1. RecordOf(j) /\ WorkerOf(j) /\ CommandOf(j) /\ LogOf(j)
      BY DEF EachFits
    <3>2. RecordOf(j)'
      BY <2>1, <2>2, <3>1 DEF RecordOf, Active, Stored
    <3>3. WorkerOf(j)'
      BY <2>1, <3>1 DEF WorkerOf, Serving
    <3>4. CommandOf(j)'
      BY <2>1, <2>2, <3>1 DEF CommandOf, Serving
    <3>5. LogOf(j)'
      BY <2>1, <3>1 DEF LogOf, Serving
    <3>6. QED
      BY <3>2, <3>3, <3>4, <3>5
  <2>10. QED
    BY <2>5, <2>6, <2>7, <2>8, <2>9 DEF EachFits
<1>23. CASE ShutdownBegins
  <2>1. UNCHANGED <<state, order, log, owner, slots, thread, promoting, command,
                    executorOpen, svcVars, clientVars>>
    BY <1>23 DEF ShutdownBegins
  <2>2. /\ closer' = "joining" /\ accepting' = FALSE /\ joining' = slots /\ stuck' = stuck
        /\ pending' = <<>> /\ cancelReq' \subseteq Transfer /\ ~executorOpen /\ Range(pending') = {}
        /\ pending' \in Seq(Transfer)
    <3>1. Range(<<>>) = {} /\ Inflight \subseteq Transfer
      BY DEF Range, Inflight, Stored, TypeOK
    <3>2. QED
      BY <1>23, <3>1 DEF ShutdownBegins, TypeOK
  <2>3. TypeOK'
    BY <2>1, <2>2 DEF TypeOK
  <2>4. ~Serving' /\ StopFits'
    BY <2>1, <2>2 DEF StopFits, Serving
  <2>5. \A j \in Transfer : RecordOf(j)'
    BY <2>1, <2>2 DEF EachFits, RecordOf, Active, Stored
  <2>6. TransferInv'
    BY <2>1, <2>2, <2>3, <2>4, <2>5, CloserMoves
  <2>7. QED
    BY <2>6
<1>24. CASE ShutdownJoins
  <2>1. UNCHANGED <<state, order, log, cancelReq, slots, pending, thread, promoting,
                    command, accepting, executorOpen, closer, stuck>>
    BY <1>24 DEF ShutdownJoins
  <2>2. joining' \in Seq(Transfer) /\ UNCHANGED <<owner, svcVars, clientVars>>
    <3>1. joining \in Seq(Transfer) /\ joining # <<>> /\ joining' = Tail(joining)
      BY <1>24 DEF ShutdownJoins, TypeOK
    <3>2. QED
      BY <1>24, <3>1, HeadTailProperties DEF ShutdownJoins
  <2>3. TypeOK'
    BY <2>1, <2>2 DEF TypeOK
  <2>4. QED
    BY <2>1, <2>3, CoreKept
<1>25. CASE ShutdownJoinRaises
  <2>1. UNCHANGED <<state, order, log, owner, slots, thread, promoting, command,
                    executorOpen, svcVars, clientVars>>
    BY <1>25 DEF ShutdownJoinRaises
  <2>2. /\ closer = "joining" /\ closer' = "aborted"
        /\ UNCHANGED <<accepting, joining, stuck, pending, cancelReq>>
    BY <1>25 DEF ShutdownJoinRaises
  <2>3. TypeOK'
    BY <2>1, <2>2 DEF TypeOK
  <2>4. ~Serving' /\ StopFits'
    BY <2>1, <2>2 DEF StopFits, Serving
  <2>5. \A j \in Transfer : RecordOf(j)'
    BY <2>1, <2>2 DEF EachFits, RecordOf, Active, Stored
  <2>6. TransferInv'
    BY <2>1, <2>2, <2>3, <2>4, <2>5, CloserMoves
  <2>7. QED
    BY <2>6
<1>26. CASE ShutdownFindsStuck
  <2>1. UNCHANGED <<state, order, log, owner, slots, thread, promoting, command,
                    executorOpen, svcVars, clientVars>>
    BY <1>26 DEF ShutdownFindsStuck
  <2>2. /\ closer = "joining" /\ closer' = "failing" /\ stuck' = Inflight /\ stuck' \subseteq Transfer
        /\ UNCHANGED <<accepting, joining, pending, cancelReq>>
    <3>1. Inflight \subseteq Transfer
      BY DEF Range, Inflight, Stored, TypeOK
    <3>2. QED
      BY <1>26, <3>1 DEF ShutdownFindsStuck
  <2>3. TypeOK'
    BY <2>1, <2>2 DEF TypeOK
  <2>4. ~Serving' /\ StopFits'
    <3>1. \A j \in stuck' : state'[j] # "absent"
      BY <2>1, <2>2 DEF EachFits, RecordOf, Inflight
    <3>2. QED
      BY <2>1, <2>2, <3>1 DEF StopFits, Serving
  <2>5. \A j \in Transfer : RecordOf(j)'
    BY <2>1, <2>2 DEF EachFits, RecordOf, Active, Stored, Inflight
  <2>6. TransferInv'
    BY <2>1, <2>2, <2>3, <2>4, <2>5, CloserMoves
  <2>7. QED
    BY <2>6
<1>27. CASE ShutdownCloses
  <2>1. UNCHANGED <<state, order, log, owner, slots, thread, promoting, command,
                    executorOpen, svcVars, clientVars>>
    BY <1>27 DEF ShutdownCloses
  <2>2. /\ closer = "failing" /\ closer' = "closed" /\ stuck = {}
        /\ UNCHANGED <<accepting, joining, stuck, pending, cancelReq>>
    BY <1>27 DEF ShutdownCloses
  <2>3. TypeOK'
    BY <2>1, <2>2 DEF TypeOK
  <2>4. ~Serving' /\ StopFits'
    BY <2>1, <2>2 DEF StopFits, Serving
  <2>5. \A j \in Transfer : RecordOf(j)'
    BY <2>1, <2>2 DEF EachFits, RecordOf, Active, Stored
  <2>6. TransferInv'
    BY <2>1, <2>2, <2>3, <2>4, <2>5, CloserMoves
  <2>7. QED
    BY <2>6
<1>28. ASSUME NEW t \in Transfer, StartDropped(t) PROVE TransferInv'
  <2>1. RecordOf(t) /\ WorkerOf(t) /\ CommandOf(t) /\ LogOf(t)
    BY DEF EachFits
  <2>2. /\ command[t] = "dropped" /\ command' = [command EXCEPT ![t] = "done"]
        /\ command'[t] = "done" /\ (\A h \in Transfer : h # t => command'[h] = command[h])
        /\ command' \in [Transfer -> {"none", "submitted", "starting", "dropped", "done"}]
        /\ thread' = thread /\ pending' = pending /\ cancelReq' = cancelReq /\ stuck' = stuck
        /\ thread[t] = "none" /\ t \notin Range(pending)
    BY <1>28, <2>1 DEF StartDropped, TypeOK, CommandOf
  <2>3. \/ state[t] \in Terminal /\ UNCHANGED recordVars
        \/ Active(t) /\ \E x \in Terminal : Transition(t, x) /\ Publish(t, <<x>>)
    <3>1. state[t] # "absent" /\ (state[t] \in Terminal \/ Active(t))
      BY <2>1, <2>2 DEF CommandOf, Active, Terminal
    <3>2. Fail(t)
      BY <1>28 DEF StartDropped
    <3>3. "failed" \in Terminal
      BY DEF Terminal
    <3>4. QED
      BY <3>1, <3>2, <3>3 DEF Fail
  <2>4. UNCHANGED <<owner, slots, promoting, accepting, executorOpen, closer, joining, svcVars,
                    clientVars>>
    BY <1>28 DEF StartDropped
  <2>5. TransferInv'
    BY <2>1, <2>2, <2>3, <2>4, EndStep DEF TypeOK, CommandOf
  <2>6. QED
    BY <2>5
<1>29. ASSUME NEW t \in Transfer, ShutdownFails(t) PROVE TransferInv'
  <2>1. RecordOf(t) /\ WorkerOf(t) /\ CommandOf(t) /\ LogOf(t)
    BY DEF EachFits
  <2>2. /\ closer = "failing" /\ ~Serving /\ stuck' = stuck \ {t}
        /\ thread' = thread /\ pending' = pending /\ cancelReq' = cancelReq /\ command' = command
    BY <1>29 DEF ShutdownFails, Serving
  <2>3. \/ state[t] \in Terminal /\ UNCHANGED recordVars
        \/ Active(t) /\ \E x \in Terminal : Transition(t, x) /\ Publish(t, <<x>>)
    <3>1. state[t] # "absent" /\ (state[t] \in Terminal \/ Active(t))
      BY <1>29 DEF ShutdownFails, StopFits, Active
    <3>2. Fail(t)
      BY <1>29 DEF ShutdownFails
    <3>3. "failed" \in Terminal
      BY DEF Terminal
    <3>4. QED
      BY <3>1, <3>2, <3>3 DEF Fail
  <2>4. UNCHANGED <<owner, slots, promoting, accepting, executorOpen, closer, joining, svcVars,
                    clientVars>>
    BY <1>29 DEF ShutdownFails
  <2>5. TransferInv'
    BY <2>1, <2>2, <2>3, <2>4, EndStep DEF TypeOK, CommandOf
  <2>6. QED
    BY <2>5
<1>30. CASE UNCHANGED vars
  <2>1. UNCHANGED <<state, order, log, cancelReq, slots, pending, thread, promoting,
                    command, accepting, executorOpen, closer, stuck>>
    BY <1>30 DEF vars
  <2>2. TypeOK'
    BY <1>30 DEF vars, TypeOK
  <2>3. QED
    BY <2>1, <2>2, CoreKept
<1>31. QED
  BY <1>1, <1>2, <1>3, <1>4, <1>5, <1>6, <1>7, <1>8, <1>9, <1>10, <1>11, <1>12, <1>13,
     <1>14, <1>15, <1>16, <1>17, <1>18, <1>19, <1>20, <1>21, <1>22, <1>23, <1>24, <1>25,
     <1>26, <1>27, <1>28, <1>29, <1>30 DEF Next, Selector, Executor, Worker, Shutdown

(* The state the daemon starts in. *)
LEMMA InitInv == Init => TransferInv /\ ClientFits
<1> SUFFICES ASSUME Init PROVE TransferInv /\ ClientFits
  OBVIOUS
<1>1. /\ order = <<>> /\ slots = <<>> /\ pending = <<>> /\ Stored = {} /\ Range(slots) = {}
      /\ Range(pending) = {} /\ cancelReq = {} /\ stuck = {} /\ Serving /\ closer = "serving"
  BY DEF Init, Stored, Range, Serving
<1>2. ASSUME NEW t \in Transfer
      PROVE  /\ state[t] = "absent" /\ command[t] = "none" /\ thread[t] = "none"
             /\ promoting[t] = {} /\ log[t] = <<>>
  BY DEF Init
<1>3. TypeOK
  BY TransferAssumption DEF Init, TypeOK, Client, NoClient, States, Threads
<1>4. OrderFits
  <2>1. {t \in Stored : state[t] \in Terminal} = {}
    BY <1>1
  <2>2. Cardinality({}) = 0 /\ MaxRetained \in Nat
    BY FS_EmptySet, TransferAssumption
  <2>3. IsInjective(order)
    BY <1>1 DEF IsInjective
  <2>4. QED
    BY <2>1, <2>2, <2>3 DEF OrderFits
<1>5. PoolFits
  <2>1. ASSUME NEW s \in Service PROVE Cardinality(ServiceWorkers(s, slots)) <= ServiceLimit[s]
    <3>1. ServiceWorkers(s, slots) = {}
      BY <1>1 DEF ServiceWorkers
    <3>2. Cardinality({}) = 0 /\ ServiceLimit[s] \in Nat
      BY FS_EmptySet, TransferAssumption
    <3>3. QED
      BY <3>1, <3>2
  <2>2. IsInjective(slots) /\ Len(slots) = 0 /\ MaxConcurrent \in Nat
    BY <1>1, TransferAssumption DEF IsInjective
  <2>3. QED
    BY <2>1, <2>2 DEF PoolFits
<1>6. StopFits /\ PromoteFits /\ ClientFits
  BY <1>1, <1>2, TransferAssumption DEF Init, StopFits, PromoteFits, ClientFits, Client
<1>7. ASSUME NEW t \in Transfer PROVE RecordOf(t) /\ WorkerOf(t) /\ CommandOf(t) /\ LogOf(t)
  <2>1. RecordOf(t) /\ WorkerOf(t) /\ CommandOf(t)
    BY <1>1, <1>2 DEF RecordOf, WorkerOf, CommandOf, Active, Terminal
  <2>2. "failed" \in Terminal
    BY DEF Terminal
  <2>3. ~Begun(<<>>) /\ (\A y \in Terminal : <<>> # <<"created", y, "started">>)
    BY <2>2, LogShapes
  <2>4. LogOf(t)
    BY <1>2, <2>3 DEF LogOf
  <2>5. QED
    BY <2>1, <2>4
<1>8. QED
  BY <1>3, <1>4, <1>5, <1>6, <1>7 DEF TransferInv, EachFits

(* The inductive invariant holds in every state of the transfer runtime.   *)
THEOREM TransferInvariant == Spec => []TransferInv
<1>1. Init => TransferInv /\ ClientFits
  BY InitInv
<1>2. (TransferInv /\ ClientFits) /\ [Next]_vars => (TransferInv /\ ClientFits)'
  BY StepInv, ClientStep
<1>3. QED
  BY <1>1, <1>2, PTL DEF Spec

(* Never do more threads use a connection than the pool allows nor, while   *)
(* the daemon serves, more of one service than its limit, whatever          *)
(* _worker_threads forgets or keeps too long.                               *)
THEOREM CapsHeldAlways == Spec => []CapsHeld
<1>1. ASSUME TransferInv PROVE CapsHeld
  <2>1. /\ slots \in Seq(Transfer) /\ Range(slots) \subseteq Transfer /\ IsInjective(slots)
        /\ Len(slots) <= MaxConcurrent /\ IsFiniteSet(Transfer)
    BY <1>1, TransferAssumption DEF TransferInv, TypeOK, PoolFits, Range
  <2>2. Using \subseteq Range(slots)
    BY <1>1 DEF Using, TransferInv, EachFits, WorkerOf
  <2>3. IsFiniteSet(Range(slots)) /\ Cardinality(Range(slots)) = Len(slots) /\ Len(slots) \in Nat
    BY <2>1, InjectiveLen
  <2>4. /\ Cardinality(Using) <= Cardinality(Range(slots)) /\ Cardinality(Using) \in Nat
    BY <2>2, <2>3, FS_Subset, FS_CardinalityType
  <2>5. Cardinality(Using) <= MaxConcurrent
    BY <2>1, <2>3, <2>4, TransferAssumption
  <2>6. ASSUME closer = "serving", NEW s \in Service
        PROVE  Cardinality({t \in Using : ServiceOf[t] = s}) <= ServiceLimit[s]
    <3>1. {t \in Using : ServiceOf[t] = s} \subseteq ServiceWorkers(s, slots)
      <4>1. ASSUME NEW t \in Using PROVE t \in Stored
        <5>1. t \in Transfer /\ thread[t] \in {"acquiring", "copying"}
          BY DEF Using
        <5>2. RecordOf(t) /\ WorkerOf(t) /\ state[t] \in States
          BY <1>1, <5>1 DEF TransferInv, EachFits, TypeOK
        <5>3. state[t] \in {"running", "cancelling"}
          BY <2>6, <5>1, <5>2 DEF WorkerOf, Serving
        <5>4. QED
          BY <5>2, <5>3 DEF RecordOf, Active, Terminal
      <4>2. QED
        BY <2>2, <4>1 DEF ServiceWorkers
    <3>2. IsFiniteSet(ServiceWorkers(s, slots))
      BY <2>3, FS_Subset DEF ServiceWorkers
    <3>3. /\ Cardinality({t \in Using : ServiceOf[t] = s}) <= Cardinality(ServiceWorkers(s, slots))
          /\ Cardinality({t \in Using : ServiceOf[t] = s}) \in Nat
          /\ Cardinality(ServiceWorkers(s, slots)) \in Nat
      BY <3>1, <3>2, FS_Subset, FS_CardinalityType
    <3>4. Cardinality(ServiceWorkers(s, slots)) <= ServiceLimit[s] /\ ServiceLimit[s] \in Nat
      BY <1>1, TransferAssumption DEF TransferInv, PoolFits
    <3>5. QED
      BY <3>3, <3>4
  <2>7. QED
    BY <2>5, <2>6 DEF CapsHeld
<1>2. QED
  BY <1>1, TransferInvariant, PTL

(* While the daemon serves, somebody will end every active transfer: its    *)
(* start command, its place in the queue or its thread, unless its thread   *)
(* is one that leaked a slot.                                               *)
THEOREM ActiveHasKeeperAlways == Spec => []ActiveHasKeeper
<1>1. ASSUME TransferInv PROVE ActiveHasKeeper
  <2>1. ASSUME NEW t \in Inflight, closer = "serving",
               command[t] \notin {"submitted", "starting", "dropped"}, t \notin Range(pending),
               thread[t] \notin {"registered", "started", "acquiring", "copying"}
        PROVE  t \in Leaked
    <3>1. t \in Transfer /\ t \in Stored /\ state[t] \notin Terminal
      BY <1>1, <2>1 DEF Inflight, Stored, Range, TransferInv, TypeOK
    <3>2. RecordOf(t) /\ WorkerOf(t) /\ CommandOf(t)
      BY <1>1, <3>1 DEF TransferInv, EachFits
    <3>3. state[t] \in States /\ thread[t] \in Threads /\ Serving
          /\ command[t] \in {"none", "submitted", "starting", "dropped", "done"}
      BY <1>1, <2>1, <3>1 DEF TransferInv, TypeOK, Serving
    <3>4. state[t] # "absent" /\ state[t] # "queued"
      BY <2>1, <3>1, <3>2, <3>3 DEF RecordOf, CommandOf
    <3>5. thread[t] = "dead"
      BY <2>1, <3>1, <3>2, <3>3, <3>4 DEF WorkerOf, Threads, States
    <3>6. QED
      BY <3>1, <3>2, <3>5 DEF WorkerOf, Leaked
  <2>2. QED
    BY <2>1 DEF ActiveHasKeeper
<1>2. QED
  BY <1>1, TransferInvariant, PTL

(* The records: active ones are retained and finished ones capped, the      *)
(* events of each are told once and in order, and none is active after      *)
(* shutdown().                                                              *)
THEOREM RecordsSoundAlways == Spec => []RecordsSound
<1>1. ASSUME TransferInv PROVE RecordsSound
  <2>1. TypeOK
    BY <1>1 DEF TransferInv
  <2>2. RetentionExact
    BY <1>1 DEF RetentionExact, TransferInv, OrderFits, EachFits, RecordOf, Active
  <2>3. ClosedMeansSettled
    <3>1. ASSUME closer = "closed", NEW t \in Inflight PROVE FALSE
      <4>1. t \in Transfer /\ t \in Stored /\ state[t] \notin Terminal
        BY <1>1, <3>1 DEF Inflight, Stored, Range, TransferInv, TypeOK
      <4>2. QED
        BY <1>1, <3>1, <4>1 DEF TransferInv, EachFits, RecordOf, Active
    <3>2. QED
      BY <3>1 DEF ClosedMeansSettled
  <2>4. ToldOnce
    <3>1. ASSUME NEW t \in Transfer
          PROVE  \A i \in DOMAIN log[t] :
                    /\ log[t][i] = "created" <=> i = 1
                    /\ \A j \in DOMAIN log[t] : log[t][j] = log[t][i] => i = j
                    /\ log[t][i] \in Terminal =>
                         log[t][i] = state[t] /\ (closer = "serving" => i = Len(log[t]))
      <4>1. LogOf(t)
        BY <1>1 DEF TransferInv, EachFits
      <4>2. CASE log[t] = <<>>
        BY <4>2
      <4>3. CASE log[t] = <<"created">>
        BY <4>3 DEF Terminal
      <4>4. CASE log[t] = <<"created", "started">>
        BY <4>4 DEF Terminal
      <4>5. CASE state[t] \in Terminal /\ log[t] = <<"created", state[t]>>
        BY <4>5 DEF Terminal
      <4>6. CASE state[t] \in Terminal /\ log[t] = <<"created", "started", state[t]>>
        BY <4>6 DEF Terminal
      <4>7. CASE state[t] \in Terminal /\ log[t] = <<"created", state[t], "started">>
        <5>1. closer # "serving"
          BY <4>1, <4>7 DEF LogOf, Serving
        <5>2. QED
          BY <4>7, <5>1 DEF Terminal
      <4>8. QED
        BY <4>1, <4>2, <4>3, <4>4, <4>5, <4>6, <4>7 DEF LogOf, Ended
    <3>2. QED
      BY <3>1 DEF ToldOnce
  <2>5. QED
    BY <2>1, <2>2, <2>3, <2>4 DEF RecordsSound
<1>2. QED
  BY <1>1, TransferInvariant, PTL

(* A finished transfer stays as it is in a step. *)
EndedStays ==
    \A t \in Transfer : state[t] \in Terminal =>
       /\ state'[t] = state[t]
       /\ thread[t] = "none" => thread'[t] = "none"

(* No step moves a finished transfer or gives it a first thread. *)
LEMMA StepSettled ==
    ASSUME TransferInv, [Next]_vars
    PROVE  EndedStays
<1> USE DEF EndedStays, TransferInv, recordVars, poolVars, closerVars, svcVars, clientVars
<1>1. ASSUME NEW t \in Transfer, StartTransfer(t) PROVE EndedStays
  BY <1>1 DEF StartTransfer, Prepare, Terminal, TypeOK
<1>2. ASSUME NEW t \in Transfer, StartTransferRejected(t) PROVE EndedStays
  BY <1>2 DEF StartTransferRejected, Prepare, Terminal, TypeOK
<1>3. ASSUME NEW s \in Service, AttachService(s) PROVE EndedStays
  BY <1>3 DEF AttachService, Terminal, TypeOK
<1>4. CASE DetachFromServices
  BY <1>4 DEF DetachFromServices, Terminal, TypeOK
<1>5. CASE DetachClient
  BY <1>5 DEF DetachClient, Terminal, TypeOK
<1>6. CASE Reconnect
  BY <1>6 DEF Reconnect, Terminal, TypeOK
<1>7. ASSUME NEW s \in Service, ServiceEnds(s) PROVE EndedStays
  BY <1>7 DEF ServiceEnds, Terminal, TypeOK
<1>8. ASSUME NEW t \in Transfer, RunTransfer(t) PROVE EndedStays
  BY <1>8 DEF RunTransfer, Transition, Terminal, TypeOK
<1>9. ASSUME NEW t \in Transfer, RunTransferStarts(t) PROVE EndedStays
  BY <1>9 DEF RunTransferStarts, TypeOK, EachFits, CommandOf
<1>10. ASSUME NEW t \in Transfer, RunTransferQueues(t) PROVE EndedStays
  BY <1>10 DEF RunTransferQueues, Terminal, TypeOK
<1>11. ASSUME NEW t \in Transfer, RunTransferTooLate(t) PROVE EndedStays
  BY <1>11 DEF RunTransferTooLate, Terminal, TypeOK
<1>12. ASSUME NEW t \in Transfer, WorkerEnters(t) PROVE EndedStays
  BY <1>12 DEF WorkerEnters, Transition, Terminal, TypeOK
<1>13. ASSUME NEW t \in Transfer, WorkerReturnsEarly(t) PROVE EndedStays
  BY <1>13 DEF WorkerReturnsEarly, Terminal, TypeOK
<1>14. ASSUME NEW t \in Transfer, WorkerAcquires(t) PROVE EndedStays
  BY <1>14 DEF WorkerAcquires, Terminal, TypeOK
<1>15. ASSUME NEW t \in Transfer, WorkerCannotAcquire(t) PROVE EndedStays
  BY <1>15 DEF WorkerCannotAcquire, Transition, Fail, Terminal, TypeOK
<1>16. ASSUME NEW t \in Transfer, CopyCompletes(t) PROVE EndedStays
  BY <1>16 DEF CopyCompletes, Transition, FinishCompleted, CopyEnds, Terminal, TypeOK
<1>17. ASSUME NEW t \in Transfer, CopyFails(t) PROVE EndedStays
  BY <1>17 DEF CopyFails, Transition, Fail, CopyEnds, Terminal, TypeOK
<1>18. ASSUME NEW t \in Transfer, CopyCancelled(t) PROVE EndedStays
  BY <1>18 DEF CopyCancelled, Transition, FinishCancelled, CopyEnds, Terminal, TypeOK
<1>19. ASSUME NEW t \in Transfer, WorkerFinally(t) PROVE EndedStays
  <2>1. \A u \in NextRunnable(Only(slots, Transfer \ {t})) : u \in Transfer /\ state[u] = "queued"
    BY NextFacts DEF Waiting
  <2>2. thread[t] = "finally"
    BY <1>19 DEF WorkerFinally
  <2>3. CASE UNCHANGED state /\ thread' = [thread EXCEPT ![t] = "dead"]
    BY <2>2, <2>3 DEF TypeOK
  <2>4. ASSUME NEW u \in NextRunnable(Only(slots, Transfer \ {t})),
               thread' = [thread EXCEPT ![t] = "promoting", ![u] = "registered"],
               Transition(u, "starting")
        PROVE  EndedStays
    BY <2>1, <2>2, <2>4 DEF TypeOK, Transition, Terminal
  <2>5. QED
    BY <1>19, <2>3, <2>4 DEF WorkerFinally
<1>20. ASSUME NEW t \in Transfer, WorkerPromotes(t) PROVE EndedStays
  BY <1>20 DEF WorkerPromotes, TypeOK, PromoteFits
<1>21. ASSUME NEW t \in Transfer, CancelTransfer(t) PROVE EndedStays
  BY <1>21 DEF CancelTransfer, Transition, Cancellable, Terminal, TypeOK
<1>22. CASE StopExecutor
  BY <1>22 DEF StopExecutor, Terminal, TypeOK
<1>23. CASE ShutdownBegins
  BY <1>23 DEF ShutdownBegins, Terminal, TypeOK
<1>24. CASE ShutdownJoins
  BY <1>24 DEF ShutdownJoins, Terminal, TypeOK
<1>25. CASE ShutdownJoinRaises
  BY <1>25 DEF ShutdownJoinRaises, Terminal, TypeOK
<1>26. CASE ShutdownFindsStuck
  BY <1>26 DEF ShutdownFindsStuck, Terminal, TypeOK
<1>27. CASE ShutdownCloses
  BY <1>27 DEF ShutdownCloses, Terminal, TypeOK
<1>28. ASSUME NEW t \in Transfer, StartDropped(t) PROVE EndedStays
  BY <1>28 DEF StartDropped, Transition, Fail, Terminal, TypeOK
<1>29. ASSUME NEW t \in Transfer, ShutdownFails(t) PROVE EndedStays
  BY <1>29 DEF ShutdownFails, Transition, Fail, Terminal, TypeOK
<1>30. CASE UNCHANGED vars
  BY <1>30 DEF vars
<1>31. QED
  BY <1>1, <1>2, <1>3, <1>4, <1>5, <1>6, <1>7, <1>8, <1>9, <1>10, <1>11, <1>12, <1>13,
     <1>14, <1>15, <1>16, <1>17, <1>18, <1>19, <1>20, <1>21, <1>22, <1>23, <1>24, <1>25,
     <1>26, <1>27, <1>28, <1>29, <1>30 DEF Next, Selector, Executor, Worker, Shutdown

(* A finished transfer is final, and one that ended without a worker never  *)
(* gets one: neither a late command nor a promotion revives it.             *)
THEOREM SettledAlways == Spec => Settled
<1>1. TransferInv /\ [Next]_vars => [EndedStays]_vars
  BY StepSettled
<1>2. Spec => [][EndedStays]_vars
  BY <1>1, TransferInvariant, PTL DEF Spec
<1>3. Settled <=> [][EndedStays]_vars
  BY DEF Settled, EndedStays
<1>4. QED
  BY <1>2, <1>3

=============================================================================
