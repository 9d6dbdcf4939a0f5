---------------------- MODULE InteractionBrokerProofs ----------------------
(***************************************************************************)
(* Theorems about the interaction broker, for any interactions, sessions,   *)
(* clients, limits of the ring and numbers of claims: secrets are safe,     *)
(* answers are sound, and an interaction has one outcome.  And about the    *)
(* askpass contexts it keeps, for any children and attempts: what a person  *)
(* asked to remember is accounted for, and a dismissed child asks no more.  *)
(***************************************************************************)
EXTENDS InteractionBroker, AskpassContexts, SelectionTheorems

\* The dictionary and the ring name a record once, the ring keeps its limit,
\* and what close() has begun is closed.
RingFits ==
    /\ IsInjective(records) /\ IsInjective(completed)
    /\ Len(completed) <= Limit
    /\ closer # "none" => closed

\* A record exists from create() on, is in the ring when it is final and not
\* evicted, and while the broker is open somebody waits for an open one.
RecordOf(i) ==
    /\ state[i] \in OpenStates => Present(i)
    /\ (Present(i) /\ state[i] \in FinalStates) <=> i \in Range(completed)
    /\ Present(i) => state[i] # "absent"
    /\ waiter[i] \in {"idle", "ready"} => state[i] = "absent"
    /\ waiter[i] \in {"created", "waiting"} => state[i] # "absent"
    /\ state[i] \in OpenStates /\ ~closed => waiter[i] \in {"created", "waiting"}
    /\ closer \in {"publish", "done"} => state[i] \notin OpenStates

\* A claim is held by a connected client under the nonce it was given.
ClaimOf(i) ==
    /\ state[i] = "claimed" =>
         /\ responder[i] \in connected
         /\ nonce[i] \in 1..Len(issued[i])
         /\ issued[i][nonce[i]] = responder[i]
    /\ state[i] # "claimed" =>
         responder[i] = NoClient /\ nonce[i] = 0 /\ i \notin awaiting

\* A result is a reservation of the present claim, or the answer of a record
\* that is answered and still has it to give.
Answers == {"secret", "decision"}
ResultOf(i) ==
    /\ i \in awaiting =>
         closed \/ result[i] = [kind |-> "reserved", claim |-> nonce[i], sent |-> 0]
    /\ result[i].kind = "reserved" => i \in awaiting
    /\ result[i].kind \in Answers =>
         state[i] = "answered" /\ Present(i) /\ waiter[i] \in {"created", "waiting"}
    /\ result[i].kind = "secret" => result[i].sent = result[i].claim
    /\ state[i] = "answered" /\ waiter[i] \in {"created", "waiting"} =>
         result[i].kind \in Answers \/ ~Present(i)
    /\ state[i] = "answered" /\ waiter[i] \in {"leaving", "left", "returned"} =>
         got[i] \in Answers \/ ~Present(i)
    /\ got[i] \in Answers => state[i] = "answered"

\* The final event of a record is told, still to be told, or lost.
ToldOf(i) ==
    /\ unpub[i] # "none" => state[i] \in FinalStates /\ finals[i] = 0
    /\ state[i] \notin FinalStates => finals[i] = 0
    /\ state[i] \in FinalStates /\ unpub[i] = "none" /\ i \notin mute => finals[i] = 1
    /\ finals[i] <= 1

EachFits ==
    \A i \in Interaction : RecordOf(i) /\ ClaimOf(i) /\ ResultOf(i) /\ ToldOf(i)

\* The inductive invariant.
BrokerInv == TypeOK /\ RingFits /\ EachFits

-----------------------------------------------------------------------------
(* Finishing records.                                                      *)

\* The ring and the dictionary after a finish: records leave both together, and
\* only finished ones.
LEMMA FinishRing ==
    ASSUME BrokerInv, NEW done \in Seq(Interaction), IsInjective(done),
           \A i \in Range(done) : Present(i) /\ state[i] \in OpenStates,
           NEW st, NEW res, NEW by, Finish(done, st, res, by)
    PROVE  /\ records' \in Seq(Interaction) /\ completed' \in Seq(Interaction)
           /\ IsInjective(records') /\ IsInjective(completed') /\ Len(completed') <= Limit
           /\ Evicted(done) \subseteq Range(completed) \union Range(done)
           /\ \A i \in Interaction :
                /\ Present(i)' <=> Present(i) /\ i \notin Evicted(done)
                /\ i \in Range(completed') <=>
                     (i \in Range(completed) \/ i \in Range(done)) /\ i \notin Evicted(done)
<1> DEFINE all == completed \o done
<1> USE DEF BrokerInv
<1>1. /\ completed \in Seq(Interaction) /\ records \in Seq(Interaction)
      /\ IsInjective(completed) /\ IsInjective(records) /\ Limit \in Nat
  BY BrokerAssumption DEF TypeOK, RingFits
<1>2. /\ all \in Seq(Interaction)
      /\ Len(all) = Len(completed) + Len(done)
      /\ \A k \in 1..Len(completed) + Len(done) :
            all[k] = IF k <= Len(completed) THEN completed[k] ELSE done[k - Len(completed)]
  BY <1>1, ConcatProperties
<1>3. /\ Len(completed) \in Nat /\ Len(done) \in Nat
      /\ DOMAIN completed = 1..Len(completed) /\ DOMAIN done = 1..Len(done)
      /\ DOMAIN all = 1..(Len(completed) + Len(done))
  BY <1>1, <1>2, LenProperties
<1>4. Range(completed) \subseteq Interaction /\ Range(done) \subseteq Interaction
  BY <1>1, RangeOfSeq
<1>5. Range(completed) \cap Range(done) = {}
  BY <1>4 DEF EachFits, RecordOf, OpenStates, FinalStates
<1> HIDE DEF all
<1>6. Range(all) = Range(completed) \union Range(done)
  <2>1. ASSUME NEW k \in 1..Len(done)
        PROVE  Len(completed) + k \in DOMAIN all /\ all[Len(completed) + k] = done[k]
    <3>1. /\ Len(completed) + k \in 1..(Len(completed) + Len(done))
          /\ ~(Len(completed) + k <= Len(completed)) /\ (Len(completed) + k) - Len(completed) = k
      BY <1>3
    <3>2. QED
      BY <1>2, <1>3, <3>1
  <2>2. ASSUME NEW k \in 1..Len(completed) PROVE k \in DOMAIN all /\ all[k] = completed[k]
    BY <1>2, <1>3
  <2>3. ASSUME NEW k \in DOMAIN all PROVE all[k] \in Range(completed) \union Range(done)
    <3>1. CASE k <= Len(completed)
      BY <1>2, <1>3, <3>1 DEF Range
    <3>2. CASE ~(k <= Len(completed))
      <4>1. k - Len(completed) \in DOMAIN done /\ all[k] = done[k - Len(completed)]
        BY <1>2, <1>3, <3>2
      <4>2. QED
        BY <4>1 DEF Range
    <3>3. QED
      BY <3>1, <3>2
  <2>4. Range(all) \subseteq Range(completed) \union Range(done)
    BY <2>3 DEF Range
  <2>5. Range(completed) \subseteq Range(all)
    BY <1>3, <2>2 DEF Range
  <2>6. Range(done) \subseteq Range(all)
    BY <1>3, <2>1 DEF Range
  <2>7. QED
    BY <2>4, <2>5, <2>6
<1>7. IsInjective(all)
  <2>1. SUFFICES ASSUME NEW k \in DOMAIN all, NEW l \in DOMAIN all, all[k] = all[l] PROVE k = l
    BY DEF IsInjective
  <2>2. k \in Int /\ l \in Int /\ Len(completed) \in Int
    BY <1>3
  <2>3. \A m \in DOMAIN all :
          /\ m <= Len(completed) => m \in DOMAIN completed /\ all[m] = completed[m]
          /\ ~(m <= Len(completed)) =>
               m - Len(completed) \in DOMAIN done /\ all[m] = done[m - Len(completed)]
    BY <1>2, <1>3
  <2>4. CASE k <= Len(completed) /\ l <= Len(completed)
    BY <1>1, <2>1, <2>3, <2>4 DEF IsInjective
  <2>5. CASE ~(k <= Len(completed)) /\ ~(l <= Len(completed))
    <3>1. k - Len(completed) = l - Len(completed)
      BY <2>1, <2>3, <2>5 DEF IsInjective
    <3>2. QED
      BY <2>2, <3>1
  <2>6. CASE k <= Len(completed) /\ ~(l <= Len(completed))
    BY <1>5, <2>1, <2>3, <2>6 DEF Range
  <2>7. CASE ~(k <= Len(completed)) /\ l <= Len(completed)
    BY <1>5, <2>1, <2>3, <2>7 DEF Range
  <2>8. QED
    BY <2>4, <2>5, <2>6, <2>7
<1>8. completed' = IF Len(all) - Limit > 0
                     THEN SubSeq(all, (Len(all) - Limit) + 1, Len(all)) ELSE all
  BY DEF Finish, Ring, all
<1>9. /\ completed' \in Seq(Interaction) /\ IsInjective(completed')
      /\ Range(completed') \subseteq Range(all) /\ Len(completed') <= Limit
  <2>1. CASE ~(Len(all) - Limit > 0)
    BY <1>1, <1>2, <1>3, <1>7, <1>8, <2>1
  <2>2. CASE Len(all) - Limit > 0
    <3>1. PICK m \in Nat, n \in Nat :
             /\ m = (Len(all) - Limit) + 1 /\ n = Len(all) /\ m >= 1 /\ n + 1 = m + Limit
             /\ DOMAIN all = 1..n
      <4>1. /\ (Len(all) - Limit) + 1 \in Nat /\ (Len(all) - Limit) + 1 >= 1 /\ Len(all) \in Nat
            /\ Len(all) + 1 = ((Len(all) - Limit) + 1) + Limit /\ DOMAIN all = 1..Len(all)
        BY <1>1, <1>2, <1>3, <2>2
      <4>2. QED
        BY <4>1, Zenon
    <3>2. \A k \in m..n : all[k] \in Interaction
      BY <1>2, <3>1, ElementOfSeq
    <3>3. completed' = SubSeq(all, m, n)
      BY <1>8, <2>2, <3>1
    <3>4. /\ completed' \in Seq(Interaction)
          /\ Len(completed') = IF m <= n THEN n - m + 1 ELSE 0
          /\ \A k \in 1..(n - m + 1) : completed'[k] = all[m + k - 1]
      BY <3>1, <3>2, <3>3, SubSeqProperties
    <3>5. DOMAIN completed' = 1..Len(completed')
      BY <3>4, LenProperties
    <3>6. Len(completed') <= Limit
      BY <1>1, <3>1, <3>4
    <3>7. \A k \in DOMAIN completed' : k \in Int /\ m + k - 1 \in DOMAIN all /\ completed'[k] = all[m + k - 1]
      BY <3>1, <3>4, <3>5
    <3>8. IsInjective(completed')
      <4>1. SUFFICES ASSUME NEW k \in DOMAIN completed', NEW l \in DOMAIN completed',
                            completed'[k] = completed'[l]
                     PROVE  k = l
        BY DEF IsInjective
      <4>2. m + k - 1 = m + l - 1
        BY <1>7, <3>7, <4>1 DEF IsInjective
      <4>3. QED
        BY <3>1, <3>7, <4>2
    <3>9. Range(completed') \subseteq Range(all)
      BY <3>7 DEF Range
    <3>10. QED
      BY <3>4, <3>6, <3>8, <3>9
  <2>3. QED
    BY <2>1, <2>2
<1>10. Evicted(done) = Range(all) \ Range(completed')
  BY DEF Finish, Evicted, Ring, all
<1>11. records' = Only(records, Interaction \ Evicted(done))
  BY DEF Finish
<1>12. /\ records' \in Seq(Interaction) /\ IsInjective(records')
       /\ Range(records') = Range(records) \cap (Interaction \ Evicted(done))
  BY <1>1, <1>11, OnlyMembers, OnlyInjective
<1>13. QED
  BY <1>6, <1>9, <1>10, <1>12 DEF Present

\* A finish keeps the types.
LEMMA FinishTypes ==
    ASSUME BrokerInv, NEW done \in Seq(Interaction), IsInjective(done),
           \A i \in Range(done) : Present(i) /\ state[i] \in OpenStates,
           NEW st \in FinalStates, NEW res \in [Interaction -> Results],
           NEW by \in {"none", "closer", "other"}, Finish(done, st, res, by),
           owner' \in [Direct -> Client \union {NoClient}], context' \subseteq Session,
           closed' \in BOOLEAN, closer' \in {"none", "publish", "done", "raised"},
           scheduler' \in {"run", "exited", "raised"}, scopes' \subseteq Direct,
           waiter' \in [Interaction -> {"idle", "ready", "created", "waiting",
                                        "leaving", "left", "returned", "raised"}],
           got' = got, mute' \subseteq Interaction
    PROVE  TypeOK'
<1> USE DEF BrokerInv
<1>1. records' \in Seq(Interaction) /\ completed' \in Seq(Interaction)
  BY FinishRing
<1>2. state' \in [Interaction -> {"absent"} \union OpenStates \union FinalStates]
  BY DEF Finish, TypeOK
<1>3. responder' \in [Interaction -> Client \union {NoClient}] /\ nonce' \in [Interaction -> Nat]
  BY DEF Finish, TypeOK
<1>4. result' \in [Interaction -> Results]
  <2>1. NoResult \in Results
    BY DEF NoResult, Results, ResultKinds
  <2>2. QED
    BY <2>1 DEF Finish
<1>5. unpub' \in [Interaction -> {"none", "closer", "other"}]
  BY DEF Finish, TypeOK
<1>6. issued' \in [Interaction -> Seq(Client)]
  <2>1. <<>> \in Seq(Client)
    OBVIOUS
  <2>2. QED
    BY <2>1 DEF Finish, TypeOK
<1>7. awaiting' \subseteq Interaction /\ UNCHANGED <<kind, connected, finals>>
  BY DEF Finish, TypeOK
<1>8. QED
  BY <1>1, <1>2, <1>3, <1>4, <1>5, <1>6, <1>7 DEF TypeOK

\* A finish of open records keeps the invariant: an answer is given while
\* somebody waits for it, and a thread that stops waiting ends its record.
LEMMA FinishStep ==
    ASSUME BrokerInv, NEW done \in Seq(Interaction), IsInjective(done),
           \A i \in Range(done) : Present(i) /\ state[i] \in OpenStates,
           NEW st \in FinalStates, NEW res \in [Interaction -> Results],
           NEW by \in {"none", "closer", "other"}, Finish(done, st, res, by),
           \A i \in Interaction \ Range(done) : res[i] = result[i],
           \A i \in Range(done) :
              /\ res[i].kind # "reserved"
              /\ res[i].kind \in Answers <=> st = "answered"
              /\ res[i].kind = "secret" => res[i].sent = res[i].claim,
           st = "answered" => ~closed,
           owner' \in [Direct -> Client \union {NoClient}], context' \subseteq Session,
           closed' \in BOOLEAN, closer' \in {"none", "publish", "done", "raised"},
           scheduler' \in {"run", "exited", "raised"}, scopes' \subseteq Direct,
           waiter' \in [Interaction -> {"idle", "ready", "created", "waiting",
                                        "leaving", "left", "returned", "raised"}],
           got' = got, mute' \subseteq Interaction,
           closed => closed', closer' # "none" => closed',
           closer' \in {"publish", "done"} =>
              closer \in {"publish", "done"}
              \/ \A i \in Interaction : state[i] \in OpenStates => i \in Range(done),
           \A i \in Interaction :
              \/ waiter'[i] = waiter[i]
              \/ waiter[i] = "waiting" /\ i \in Range(done) /\ st # "answered"
                 /\ waiter'[i] \in {"leaving", "returned"}
              \/ waiter[i] = "left" /\ waiter'[i] \in {"returned", "raised"},
           mute \subseteq mute', by = "none" => Range(done) \subseteq mute'
    PROVE  BrokerInv'
<1> USE DEF BrokerInv
<1>1. TypeOK'
  BY FinishTypes
<1>2. /\ IsInjective(records') /\ IsInjective(completed') /\ Len(completed') <= Limit
      /\ Evicted(done) \subseteq Range(completed) \union Range(done)
      /\ \A i \in Interaction :
           /\ Present(i)' <=> Present(i) /\ i \notin Evicted(done)
           /\ i \in Range(completed') <=>
                (i \in Range(completed) \/ i \in Range(done)) /\ i \notin Evicted(done)
  BY FinishRing
<1>3. RingFits'
  BY <1>2 DEF RingFits
<1>4. ASSUME NEW i \in Interaction
      PROVE  (RecordOf(i) /\ ClaimOf(i) /\ ResultOf(i) /\ ToldOf(i))'
  <2>1. RecordOf(i) /\ ClaimOf(i) /\ ResultOf(i) /\ ToldOf(i)
    BY DEF EachFits
  <2>2. /\ Present(i)' <=> Present(i) /\ i \notin Evicted(done)
        /\ i \in Range(completed') <=>
             (i \in Range(completed) \/ i \in Range(done)) /\ i \notin Evicted(done)
        /\ i \in Evicted(done) => i \in Range(completed) \/ i \in Range(done)
    BY <1>2
  <2>3. CASE i \in Range(done)
    <3>1. /\ state[i] \in OpenStates /\ Present(i) /\ state'[i] = st /\ responder'[i] = NoClient
          /\ nonce'[i] = 0 /\ i \notin awaiting' /\ unpub'[i] = by /\ finals'[i] = finals[i]
          /\ result'[i] = IF i \in Evicted(done) THEN NoResult ELSE res[i]
      BY <2>3 DEF Finish
    <3>2. /\ res[i].kind # "reserved" /\ (res[i].kind \in Answers <=> st = "answered")
          /\ res[i].kind = "secret" => res[i].sent = res[i].claim
      BY <2>3
    <3>3. /\ NoResult.kind = "none" /\ "none" \notin Answers
          /\ st # "absent" /\ st # "claimed" /\ st \notin OpenStates
          /\ state[i] \notin FinalStates /\ state[i] # "absent" /\ state[i] # "answered"
      BY <3>1 DEF NoResult, Answers, OpenStates, FinalStates
    <3>4. st = "answered" => waiter[i] \in {"created", "waiting"} /\ waiter'[i] = waiter[i]
      BY <2>1, <3>1 DEF RecordOf
    <3>5. waiter'[i] \in {"idle", "ready"} => waiter[i] \in {"idle", "ready"}
      OBVIOUS
    <3>6. RecordOf(i)'
      BY <2>1, <2>2, <2>3, <3>1, <3>3, <3>5 DEF RecordOf
    <3>7. ClaimOf(i)'
      BY <3>1, <3>3 DEF ClaimOf
    <3>8. got[i] \notin Answers
      BY <2>1, <3>3 DEF ResultOf
    <3>9. ResultOf(i)'
      <4>1. CASE i \in Evicted(done)
        BY <2>2, <3>1, <3>3, <3>8, <4>1 DEF ResultOf, Answers
      <4>2. CASE i \notin Evicted(done)
        <5>1. result'[i] = res[i] /\ Present(i)'
          BY <2>2, <3>1, <4>2
        <5>2. CASE st = "answered"
          BY <3>1, <3>2, <3>4, <5>1, <5>2 DEF ResultOf
        <5>3. CASE st # "answered"
          BY <3>1, <3>2, <3>8, <5>1, <5>3 DEF ResultOf, Answers
        <5>4. QED
          BY <5>2, <5>3
      <4>3. QED
        BY <4>1, <4>2
    <3>10. ToldOf(i)'
      BY <2>1, <2>3, <3>1, <3>3 DEF ToldOf
    <3>11. QED
      BY <3>6, <3>7, <3>9, <3>10
  <2>4. CASE i \notin Range(done)
    <3>1. /\ state'[i] = state[i] /\ responder'[i] = responder[i] /\ nonce'[i] = nonce[i]
          /\ issued'[i] = issued[i] /\ unpub'[i] = unpub[i] /\ finals' = finals
          /\ connected' = connected
          /\ i \in awaiting' <=> i \in awaiting /\ i \notin Evicted(done)
          /\ result'[i] = IF i \in Evicted(done) THEN NoResult ELSE result[i]
      BY <2>4 DEF Finish
    <3>2. i \in Evicted(done) => state[i] \in FinalStates /\ Present(i)
      BY <2>1, <2>2, <2>4 DEF RecordOf
    <3>3. NoResult.kind = "none" /\ "none" \notin Answers /\ "claimed" \notin FinalStates
      BY DEF NoResult, Answers, FinalStates
    <3>4. \/ waiter'[i] = waiter[i]
          \/ waiter[i] = "left" /\ waiter'[i] \in {"returned", "raised"}
      BY <2>4
    <3>5. RecordOf(i)'
      BY <2>1, <2>2, <2>4, <3>1, <3>2, <3>4 DEF RecordOf, OpenStates, FinalStates
    <3>6. ClaimOf(i)'
      BY <2>1, <3>1, <3>2, <3>3 DEF ClaimOf
    <3>7. ResultOf(i)'
      <4>1. CASE i \in Evicted(done)
        BY <2>1, <2>2, <3>1, <3>2, <3>3, <4>1 DEF ResultOf, ClaimOf
      <4>2. CASE i \notin Evicted(done)
        <5>1. /\ result'[i] = result[i] /\ (Present(i)' <=> Present(i))
              /\ i \in awaiting' <=> i \in awaiting
          BY <2>2, <3>1, <4>2
        <5>2. QED
          BY <2>1, <3>1, <3>4, <5>1 DEF ResultOf
      <4>3. QED
        BY <4>1, <4>2
    <3>8. ToldOf(i)'
      BY <2>1, <3>1 DEF ToldOf
    <3>9. QED
      BY <3>5, <3>6, <3>7, <3>8
  <2>5. QED
    BY <2>3, <2>4
<1>5. QED
  BY <1>1, <1>3, <1>4 DEF EachFits

\* What a loop over the records finishes: some of the open records that it
\* selects, all of them unless it raises.
LEMMA SweptFacts ==
    ASSUME BrokerInv, NEW S \in SUBSET Interaction
    PROVE  LET todo == Selected({i \in S : state[i] \notin FinalStates})
           IN  /\ todo \in Seq(Interaction)
               /\ Swept(todo) \in Seq(Interaction) /\ IsInjective(Swept(todo))
               /\ \A i \in Range(Swept(todo)) : Present(i) /\ state[i] \in OpenStates
               /\ ~Raises(todo) => \A i \in S : state[i] \in OpenStates => i \in Range(Swept(todo))
<1> DEFINE live == {i \in S : state[i] \notin FinalStates}
           todo == Selected(live)
<1> USE DEF BrokerInv
<1>1. records \in Seq(Interaction) /\ IsInjective(records) /\ Limit - Len(completed) \in Nat
  BY BrokerAssumption, LenProperties DEF TypeOK, RingFits
<1>2. /\ todo \in Seq(Interaction) /\ IsInjective(todo)
      /\ Range(todo) = Range(records) \cap live
  BY <1>1, OnlyMembers, OnlyInjective DEF Selected
<1>3. \A i \in Range(todo) : Present(i) /\ state[i] \in OpenStates
  BY <1>2 DEF Present, EachFits, RecordOf, TypeOK, OpenStates, FinalStates
<1>4. \A i \in S : state[i] \in OpenStates => i \in Range(todo)
  BY <1>2 DEF Present, EachFits, RecordOf, OpenStates, FinalStates
<1> HIDE DEF todo
<1>5. CASE ~Raises(todo)
  BY <1>2, <1>3, <1>4, <1>5 DEF Swept, todo
<1>6. CASE Raises(todo)
  <2> DEFINE m == Room + 1
             cut == SubSeq(todo, 1, m)
  <2>1. m \in Nat /\ m >= 1 /\ m <= Len(todo) /\ Len(todo) \in Nat /\ DOMAIN todo = 1..Len(todo)
    BY <1>1, <1>2, <1>6, LenProperties DEF Raises, Room
  <2> HIDE DEF m
  <2>2. \A k \in 1..m : k \in DOMAIN todo /\ todo[k] \in Interaction
    BY <1>2, <2>1, ElementOfSeq
  <2>3. /\ cut \in Seq(Interaction)
        /\ Len(cut) = IF 1 <= m THEN m - 1 + 1 ELSE 0
        /\ \A k \in 1..(m - 1 + 1) : cut[k] = todo[1 + k - 1]
    BY <2>1, <2>2, SubSeqProperties
  <2>4. DOMAIN cut = 1..m /\ \A k \in 1..m : cut[k] = todo[k]
    BY <2>1, <2>3, LenProperties
  <2>5. Swept(todo) = cut
    BY <1>6 DEF Swept, m
  <2> HIDE DEF cut
  <2>6. IsInjective(cut) /\ Range(cut) \subseteq Range(todo)
    BY <1>2, <2>2, <2>4 DEF IsInjective, Range
  <2>7. QED
    BY <1>2, <1>3, <1>6, <2>3, <2>5, <2>6 DEF todo
<1>7. QED
  BY <1>5, <1>6

\* The result of one record, or of several, cleared.
LEMMA ClearedFacts ==
    ASSUME BrokerInv, NEW S \in SUBSET Interaction
    PROVE  /\ Cleared(S) \in [Interaction -> Results]
           /\ \A i \in Interaction \ S : Cleared(S)[i] = result[i]
           /\ \A i \in S : Cleared(S)[i].kind = "none"
<1>1. NoResult \in Results /\ NoResult.kind = "none"
  BY DEF NoResult, Results, ResultKinds
<1>2. QED
  BY <1>1 DEF BrokerInv, Cleared, TypeOK

\* A sweep keeps the invariant, whether it runs to its end or raises.
LEMMA SweepStep ==
    ASSUME BrokerInv, NEW S \in SUBSET Interaction,
           NEW st \in {"cancelled", "expired"}, NEW by \in {"closer", "other"},
           Sweep(Selected({i \in S : state[i] \notin FinalStates}), st, by),
           owner' \in [Direct -> Client \union {NoClient}], context' \subseteq Session,
           closed' \in BOOLEAN, closer' \in {"none", "publish", "done", "raised"},
           scheduler' \in {"run", "exited", "raised"}, scopes' \subseteq Direct,
           waiter' \in [Interaction -> {"idle", "ready", "created", "waiting",
                                        "leaving", "left", "returned", "raised"}],
           got' = got,
           closed => closed', closer' # "none" => closed',
           closer' \in {"publish", "done"} =>
              \/ closer \in {"publish", "done"}
              \/ S = Interaction /\ ~Raises(Selected({i \in S : state[i] \notin FinalStates})),
           \A i \in Interaction :
              \/ waiter'[i] = waiter[i]
              \/ waiter[i] = "left" /\ waiter'[i] \in {"returned", "raised"}
    PROVE  BrokerInv'
<1>1. PICK todo : todo = Selected({i \in S : state[i] \notin FinalStates})
  OBVIOUS
<1>2. PICK done : done = Swept(todo)
  OBVIOUS
<1>3. PICK res : res = Cleared(Range(done))
  OBVIOUS
<1>4. PICK teller : teller = IF Raises(todo) THEN "none" ELSE by
  OBVIOUS
<1>5. /\ done \in Seq(Interaction) /\ IsInjective(done)
      /\ \A i \in Range(done) : Present(i) /\ state[i] \in OpenStates
      /\ ~Raises(todo) => \A i \in S : state[i] \in OpenStates => i \in Range(done)
  BY <1>1, <1>2, SweptFacts
<1>6. Finish(done, st, res, teller)
  BY <1>1, <1>2, <1>3, <1>4 DEF Sweep
<1>7. mute' = IF Raises(todo) THEN mute \union Range(done) ELSE mute
  BY <1>1, <1>2 DEF Sweep
<1>8. Range(done) \subseteq Interaction
  BY <1>5, RangeOfSeq
<1>9. /\ res \in [Interaction -> Results]
      /\ \A i \in Interaction \ Range(done) : res[i] = result[i]
      /\ \A i \in Range(done) : res[i].kind = "none"
  BY <1>3, <1>8, ClearedFacts
<1>10. \A i \in Range(done) :
          /\ res[i].kind # "reserved"
          /\ res[i].kind \in Answers <=> st = "answered"
          /\ res[i].kind = "secret" => res[i].sent = res[i].claim
  BY <1>9 DEF Answers
<1>11. mute' \subseteq Interaction /\ mute \subseteq mute' /\ (teller = "none" => Range(done) \subseteq mute')
  BY <1>4, <1>7, <1>8 DEF BrokerInv, TypeOK
<1>12. teller \in {"none", "closer", "other"} /\ st \in FinalStates /\ st # "answered"
  BY <1>4 DEF FinalStates
<1>13. closer' \in {"publish", "done"} =>
          \/ closer \in {"publish", "done"}
          \/ \A i \in Interaction : state[i] \in OpenStates => i \in Range(done)
  BY <1>1, <1>5
<1>14. QED
  BY <1>5, <1>6, <1>9, <1>10, <1>11, <1>12, <1>13, FinishStep

\* The finish of one open record.
LEMMA FinishOne ==
    ASSUME BrokerInv, NEW i \in Interaction, Present(i), state[i] \in OpenStates,
           NEW st \in FinalStates, NEW res \in [Interaction -> Results],
           Finish(<<i>>, st, res, "other"),
           \A j \in Interaction \ {i} : res[j] = result[j],
           res[i].kind # "reserved", res[i].kind \in Answers <=> st = "answered",
           res[i].kind = "secret" => res[i].sent = res[i].claim,
           st = "answered" => ~closed,
           UNCHANGED <<owner, context, closed, closer, scheduler, scopes, got, mute>>,
           \/ waiter' = waiter
           \/ waiter[i] = "waiting" /\ st # "answered"
              /\ \E w \in {"leaving", "returned"} : waiter' = [waiter EXCEPT ![i] = w]
    PROVE  BrokerInv'
<1>1. <<i>> \in Seq(Interaction) /\ IsInjective(<<i>>) /\ Range(<<i>>) = {i}
  BY DEF IsInjective, Range
<1>2. /\ owner' \in [Direct -> Client \union {NoClient}] /\ context' \subseteq Session
      /\ closed' \in BOOLEAN /\ closer' \in {"none", "publish", "done", "raised"}
      /\ scheduler' \in {"run", "exited", "raised"} /\ scopes' \subseteq Direct
      /\ mute' \subseteq Interaction /\ mute \subseteq mute'
  BY DEF BrokerInv, TypeOK
<1>3. waiter \in [Interaction -> {"idle", "ready", "created", "waiting",
                                  "leaving", "left", "returned", "raised"}]
  BY DEF BrokerInv, TypeOK
<1>4. /\ waiter' \in [Interaction -> {"idle", "ready", "created", "waiting",
                                      "leaving", "left", "returned", "raised"}]
      /\ \A j \in Interaction :
           \/ waiter'[j] = waiter[j]
           \/ waiter[j] = "waiting" /\ j \in Range(<<i>>) /\ st # "answered"
              /\ waiter'[j] \in {"leaving", "returned"}
           \/ waiter[j] = "left" /\ waiter'[j] \in {"returned", "raised"}
  <2>1. CASE waiter' = waiter
    BY <1>3, <2>1
  <2>2. CASE waiter[i] = "waiting" /\ st # "answered"
             /\ \E w \in {"leaving", "returned"} : waiter' = [waiter EXCEPT ![i] = w]
    BY <1>1, <1>3, <2>2
  <2>3. QED
    BY <2>1, <2>2
<1>5. closer' # "none" => closed'
  BY DEF BrokerInv, RingFits
<1>6. PICK done \in Seq(Interaction) : done = <<i>>
  BY <1>1
<1>7. /\ IsInjective(done) /\ Finish(done, st, res, "other")
      /\ \A j \in Range(done) : Present(j) /\ state[j] \in OpenStates
      /\ \A j \in Interaction \ Range(done) : res[j] = result[j]
      /\ \A j \in Range(done) :
           /\ res[j].kind # "reserved"
           /\ res[j].kind \in Answers <=> st = "answered"
           /\ res[j].kind = "secret" => res[j].sent = res[j].claim
  BY <1>1, <1>6
<1>8. /\ "other" \in {"none", "closer", "other"} /\ "other" # "none" /\ (closed => closed')
      /\ got' = got /\ (closer' \in {"publish", "done"} => closer \in {"publish", "done"})
  OBVIOUS
<1>9. \A j \in Interaction :
        \/ waiter'[j] = waiter[j]
        \/ waiter[j] = "waiting" /\ j \in Range(done) /\ st # "answered"
           /\ waiter'[j] \in {"leaving", "returned"}
        \/ waiter[j] = "left" /\ waiter'[j] \in {"returned", "raised"}
  BY <1>4, <1>6
<1>10. QED
  BY <1>2, <1>4, <1>5, <1>7, <1>8, <1>9, FinishStep

-----------------------------------------------------------------------------
(* Every step preserves the invariant.                                     *)

\* Every step preserves the invariant.
LEMMA StepInv ==
    ASSUME BrokerInv, [Next]_vars
    PROVE  BrokerInv'
<1> USE DEF BrokerInv, ring, claimvars, eventvars
<1>1. ASSUME NEW i \in Interaction, NEW k \in Kinds, ReadContext(i, k) PROVE BrokerInv'
  <2>1. TypeOK'
    BY <1>1 DEF ReadContext, TypeOK, OpenStates, FinalStates
  <2>2. RingFits'
    BY <1>1 DEF ReadContext, RingFits
  <2>3. ASSUME NEW j \in Interaction
        PROVE  (RecordOf(j) /\ ClaimOf(j) /\ ResultOf(j) /\ ToldOf(j))'
    <3>1. RecordOf(j) /\ ClaimOf(j) /\ ResultOf(j) /\ ToldOf(j)
      BY DEF EachFits
    <3>2. RecordOf(j)'
      BY <1>1, <3>1 DEF ReadContext, RecordOf, Present, OpenStates, FinalStates, TypeOK
    <3>3. ClaimOf(j)'
      BY <1>1, <3>1 DEF ReadContext, ClaimOf, TypeOK
    <3>4. ResultOf(j)'
      BY <1>1, <3>1 DEF ReadContext, ResultOf, Answers, Present, TypeOK
    <3>5. ToldOf(j)'
      BY <1>1, <3>1 DEF ReadContext, ToldOf, FinalStates, TypeOK
    <3>6. QED
      BY <3>2, <3>3, <3>4, <3>5
  <2>4. QED
    BY <2>1, <2>2, <2>3 DEF EachFits
<1>2. ASSUME NEW i \in Interaction, OpenScope(i) PROVE BrokerInv'
  <2>1. TypeOK'
    <3>1. ScopeClient[SessionOf[i]] \in Client /\ SessionOf[i] \in Direct
      BY <1>2, BrokerAssumption DEF OpenScope
    <3>2. owner' = [owner EXCEPT ![SessionOf[i]] = ScopeClient[SessionOf[i]]] /\ waiter' = [waiter EXCEPT ![i] = "ready"]
      BY <1>2 DEF OpenScope
    <3>3. UNCHANGED <<ring, kind, claimvars, state, result, context, closed, closer,
                     scheduler, scopes, connected, got, eventvars>>
      BY <1>2 DEF OpenScope
    <3>4. QED
      BY <3>1, <3>2, <3>3 DEF TypeOK
  <2>2. RingFits'
    BY <1>2 DEF OpenScope, RingFits
  <2>3. ASSUME NEW j \in Interaction
        PROVE  (RecordOf(j) /\ ClaimOf(j) /\ ResultOf(j) /\ ToldOf(j))'
    <3>1. RecordOf(j) /\ ClaimOf(j) /\ ResultOf(j) /\ ToldOf(j)
      BY DEF EachFits
    <3>2. RecordOf(j)'
      BY <1>2, <3>1 DEF OpenScope, RecordOf, Present, OpenStates, FinalStates, TypeOK
    <3>3. ClaimOf(j)'
      BY <1>2, <3>1 DEF OpenScope, ClaimOf, TypeOK
    <3>4. ResultOf(j)'
      BY <1>2, <3>1 DEF OpenScope, ResultOf, Answers, Present, TypeOK
    <3>5. ToldOf(j)'
      BY <1>2, <3>1 DEF OpenScope, ToldOf, FinalStates, TypeOK
    <3>6. QED
      BY <3>2, <3>3, <3>4, <3>5
  <2>4. QED
    BY <2>1, <2>2, <2>3 DEF EachFits
<1>3. ASSUME NEW i \in Interaction, Create(i) PROVE BrokerInv'
  <2>1. state[i] = "absent" /\ ~Present(i) /\ waiter[i] = "ready"
    BY <1>3 DEF Create, EachFits, RecordOf
  <2>2. UNCHANGED <<completed, kind, claimvars, result, owner, context, closed, closer,
                    scheduler, scopes, connected, got, eventvars>>
    BY <1>3 DEF Create
  <2>3. CASE closed
    <3>1. records' = records /\ state' = state
      BY <1>3, <2>3 DEF Create
    <3>2. PICK w \in {"leaving", "raised"} : waiter' = [waiter EXCEPT ![i] = w]
      BY <1>3, <2>3 DEF Create
    <3>3. TypeOK'
      BY <2>2, <3>1, <3>2 DEF TypeOK
    <3>4. RingFits'
      BY <2>2, <3>1 DEF RingFits
    <3>5. ASSUME NEW j \in Interaction
          PROVE  (RecordOf(j) /\ ClaimOf(j) /\ ResultOf(j) /\ ToldOf(j))'
      <4>1. RecordOf(j) /\ ClaimOf(j) /\ ResultOf(j) /\ ToldOf(j)
        BY DEF EachFits
      <4>2. /\ (Present(j)' <=> Present(j)) /\ state' = state
            /\ \/ waiter'[j] = waiter[j]
               \/ j = i /\ waiter'[j] \in {"leaving", "raised"}
        BY <3>1, <3>2 DEF Present, TypeOK
      <4>3. RecordOf(j)'
        BY <2>1, <2>2, <2>3, <4>1, <4>2 DEF RecordOf, OpenStates
      <4>4. ClaimOf(j)' /\ ToldOf(j)'
        BY <2>2, <4>1, <4>2 DEF ClaimOf, ToldOf
      <4>5. ResultOf(j)'
        BY <2>1, <2>2, <4>1, <4>2 DEF ResultOf
      <4>6. QED
        BY <4>3, <4>4, <4>5
    <3>6. QED
      BY <3>3, <3>4, <3>5 DEF EachFits
  <2>4. CASE ~closed
    <3>1. /\ records' = Append(records, i) /\ state' = [state EXCEPT ![i] = "pending"]
          /\ waiter' = [waiter EXCEPT ![i] = "created"]
      BY <1>3, <2>4 DEF Create
    <3>2. /\ records \in Seq(Interaction) /\ DOMAIN records = 1..Len(records)
          /\ Len(records) \in Nat /\ records' \in Seq(Interaction)
          /\ DOMAIN records' = 1..(Len(records) + 1) /\ records'[Len(records) + 1] = i
          /\ \A k \in 1..Len(records) : records'[k] = records[k]
      BY <3>1, AppendProperties, LenProperties DEF TypeOK
    <3>3. IsInjective(records')
      BY <2>1, <3>2 DEF RingFits, IsInjective, Present, Range
    <3>4. Range(records') = Range(records) \union {i}
      BY <3>2 DEF Range
    <3>5. TypeOK'
      BY <2>2, <3>1, <3>2 DEF TypeOK, OpenStates
    <3>6. RingFits'
      BY <2>2, <3>3 DEF RingFits
    <3>7. ASSUME NEW j \in Interaction
          PROVE  (RecordOf(j) /\ ClaimOf(j) /\ ResultOf(j) /\ ToldOf(j))'
      <4>1. RecordOf(j) /\ ClaimOf(j) /\ ResultOf(j) /\ ToldOf(j)
        BY DEF EachFits
      <4>2. CASE j = i
        <5>1. /\ Present(j)' /\ ~Present(j) /\ state'[j] = "pending" /\ waiter'[j] = "created"
              /\ state[j] = "absent"
          BY <2>1, <3>1, <3>4, <4>2 DEF Present, TypeOK
        <5>2. j \notin Range(completed')
          BY <2>2, <4>1, <5>1 DEF RecordOf
        <5>3. closer' = "none"
          BY <2>2, <2>4 DEF RingFits, TypeOK
        <5>4. RecordOf(j)'
          BY <5>1, <5>2, <5>3 DEF RecordOf, OpenStates, FinalStates
        <5>5. ClaimOf(j)'
          BY <2>2, <4>1, <5>1 DEF ClaimOf
        <5>6. ResultOf(j)'
          BY <2>2, <4>1, <5>1 DEF ResultOf, ClaimOf
        <5>7. ToldOf(j)'
          BY <2>2, <4>1, <5>1 DEF ToldOf, FinalStates
        <5>8. QED
          BY <5>4, <5>5, <5>6, <5>7
      <4>3. CASE j # i
        <5>1. (Present(j)' <=> Present(j)) /\ state'[j] = state[j] /\ waiter'[j] = waiter[j]
          BY <3>1, <3>4, <4>3 DEF Present, TypeOK
        <5>2. RecordOf(j)'
          BY <2>2, <4>1, <5>1 DEF RecordOf
        <5>3. ClaimOf(j)' /\ ToldOf(j)'
          BY <2>2, <4>1, <5>1 DEF ClaimOf, ToldOf
        <5>4. ResultOf(j)'
          BY <2>2, <4>1, <5>1 DEF ResultOf
        <5>5. QED
          BY <5>2, <5>3, <5>4
      <4>4. QED
        BY <4>2, <4>3
    <3>8. QED
      BY <3>5, <3>6, <3>7 DEF EachFits
  <2>5. QED
    BY <2>3, <2>4
<1>4. ASSUME NEW i \in Interaction, BeginWait(i) PROVE BrokerInv'
  <2>1. TypeOK'
    BY <1>4 DEF BeginWait, TypeOK, OpenStates, FinalStates
  <2>2. RingFits'
    BY <1>4 DEF BeginWait, RingFits
  <2>3. ASSUME NEW j \in Interaction
        PROVE  (RecordOf(j) /\ ClaimOf(j) /\ ResultOf(j) /\ ToldOf(j))'
    <3>1. RecordOf(j) /\ ClaimOf(j) /\ ResultOf(j) /\ ToldOf(j)
      BY DEF EachFits
    <3>2. RecordOf(j)'
      BY <1>4, <3>1 DEF BeginWait, RecordOf, Present, OpenStates, FinalStates, TypeOK
    <3>3. ClaimOf(j)'
      BY <1>4, <3>1 DEF BeginWait, ClaimOf, TypeOK
    <3>4. ResultOf(j)'
      BY <1>4, <3>1 DEF BeginWait, ResultOf, Answers, Present, TypeOK
    <3>5. ToldOf(j)'
      BY <1>4, <3>1 DEF BeginWait, ToldOf, FinalStates, TypeOK
    <3>6. QED
      BY <3>2, <3>3, <3>4, <3>5
  <2>4. QED
    BY <2>1, <2>2, <2>3 DEF EachFits
<1>5. ASSUME NEW i \in Interaction, TakeResult(i) PROVE BrokerInv'
  <2>1. TypeOK'
    <3>1. NoResult \in Results /\ result[i].kind \in ResultKinds
      BY DEF NoResult, Results, ResultKinds, TypeOK
    <3>2. got' \in [Interaction -> ResultKinds] /\ result' \in [Interaction -> Results]
      BY <1>5, <3>1 DEF TakeResult, TypeOK
    <3>3. waiter' \in [Interaction -> {"idle", "ready", "created", "waiting",
                                       "leaving", "left", "returned", "raised"}]
      BY <1>5 DEF TakeResult, AfterWait, TypeOK
    <3>4. UNCHANGED <<ring, kind, claimvars, state, owner, context, closed, closer,
                     scheduler, scopes, connected, eventvars>>
      BY <1>5 DEF TakeResult
    <3>5. QED
      BY <3>2, <3>3, <3>4 DEF TypeOK
  <2>2. RingFits'
    BY <1>5 DEF TakeResult, RingFits
  <2>3. ASSUME NEW j \in Interaction
        PROVE  (RecordOf(j) /\ ClaimOf(j) /\ ResultOf(j) /\ ToldOf(j))'
    <3>1. RecordOf(j) /\ ClaimOf(j) /\ ResultOf(j) /\ ToldOf(j)
      BY DEF EachFits
    <3>2. /\ waiter[i] = "waiting" /\ (state[i] \in FinalStates \/ closed)
          /\ waiter'[i] \in {"leaving", "returned"}
          /\ \A h \in Interaction : h # i =>
               waiter'[h] = waiter[h] /\ result'[h] = result[h] /\ got'[h] = got[h]
          /\ (Present(j)' <=> Present(j)) /\ (j \in Range(completed') <=> j \in Range(completed))
          /\ UNCHANGED <<state, nonce, awaiting, closed, closer>>
      BY <1>5 DEF TakeResult, AfterWait, TypeOK, Present
    <3>3. \/ state[i] \in {"expired", "cancelled"} /\ result'[i] = result[i] /\ got'[i] = got[i]
          \/ state[i] \notin {"expired", "cancelled"} /\ result'[i].kind = "none" /\ got'[i] = result[i].kind
      BY <1>5 DEF TakeResult, TypeOK, NoResult
    <3>4. OpenStates \cap FinalStates = {} /\ "answered" \in FinalStates /\ "none" \notin Answers /\ "reserved" \notin Answers
      BY DEF OpenStates, FinalStates, Answers
    <3>5. RecordOf(j)'
      BY <3>1, <3>2, <3>3, <3>4 DEF RecordOf, OpenStates, FinalStates
    <3>6. ClaimOf(j)'
      BY <1>5, <3>1, <3>2, <3>3, <3>4 DEF TakeResult, ClaimOf, TypeOK
    <3>7. ResultOf(j)'
      <4>1. CASE j # i
        BY <3>1, <3>2, <4>1 DEF ResultOf
      <4>2. CASE j = i /\ state[i] \in {"expired", "cancelled"} /\ result'[i] = result[i] /\ got'[i] = got[i]
        BY <3>1, <3>2, <4>2 DEF ResultOf, Answers
      <4>3. CASE j = i /\ state[i] \notin {"expired", "cancelled"} /\ result'[i].kind = "none"
                 /\ got'[i] = result[i].kind
        <5>1. j \in awaiting' => closed'
          BY <3>1, <3>2, <3>4, <4>3 DEF ClaimOf, FinalStates
        <5>2. result'[j].kind \notin Answers /\ result'[j].kind # "reserved" /\ result'[j].kind # "secret"
          BY <4>3 DEF Answers
        <5>3. got'[j] \in Answers => state'[j] = "answered"
          BY <3>1, <3>2, <4>3 DEF ResultOf
        <5>4. state'[j] = "answered" => got'[j] \in Answers \/ ~Present(j)'
          BY <3>1, <3>2, <4>3 DEF ResultOf
        <5>5. waiter'[j] \notin {"created", "waiting"}
          BY <3>2, <4>3
        <5>6. QED
          BY <5>1, <5>2, <5>3, <5>4, <5>5 DEF ResultOf
      <4>4. QED
        BY <3>3, <4>1, <4>2, <4>3
    <3>8. ToldOf(j)'
      BY <1>5, <3>1, <3>2, <3>3, <3>4 DEF TakeResult, ToldOf, FinalStates, TypeOK
    <3>9. QED
      BY <3>5, <3>6, <3>7, <3>8
  <2>4. QED
    BY <2>1, <2>2, <2>3 DEF EachFits
<1>6. ASSUME NEW i \in Interaction, GiveUp(i) PROVE BrokerInv'
  <2>1. Present(i) /\ state[i] \in OpenStates /\ waiter[i] = "waiting"
    BY <1>6 DEF GiveUp, EachFits, RecordOf, TypeOK
  <2>2. PICK res : res = Cleared({i})
    OBVIOUS
  <2>3. /\ res \in [Interaction -> Results] /\ \A j \in Interaction \ {i} : res[j] = result[j]
        /\ res[i].kind = "none"
    BY <2>2, ClearedFacts
  <2>4. PICK st \in {"expired", "cancelled"} : Finish(<<i>>, st, res, "other")
    BY <1>6, <2>2 DEF GiveUp
  <2>5. UNCHANGED <<owner, context, closed, closer, scheduler, scopes, got, mute>>
    BY <1>6 DEF GiveUp
  <2>6. \E w \in {"leaving", "returned"} : waiter' = [waiter EXCEPT ![i] = w]
    BY <1>6 DEF GiveUp, AfterWait
  <2>7. QED
    BY <2>1, <2>3, <2>4, <2>5, <2>6, FinishOne DEF FinalStates, Answers
<1>7. ASSUME NEW i \in Interaction, LeaveScope(i) PROVE BrokerInv'
  <2>1. TypeOK'
    BY <1>7 DEF LeaveScope, TypeOK, OpenStates, FinalStates
  <2>2. RingFits'
    BY <1>7 DEF LeaveScope, RingFits
  <2>3. ASSUME NEW j \in Interaction
        PROVE  (RecordOf(j) /\ ClaimOf(j) /\ ResultOf(j) /\ ToldOf(j))'
    <3>1. RecordOf(j) /\ ClaimOf(j) /\ ResultOf(j) /\ ToldOf(j)
      BY DEF EachFits
    <3>2. RecordOf(j)'
      BY <1>7, <3>1 DEF LeaveScope, RecordOf, Present, OpenStates, FinalStates, TypeOK
    <3>3. ClaimOf(j)'
      BY <1>7, <3>1 DEF LeaveScope, ClaimOf, TypeOK
    <3>4. ResultOf(j)'
      BY <1>7, <3>1 DEF LeaveScope, ResultOf, Answers, Present, TypeOK
    <3>5. ToldOf(j)'
      BY <1>7, <3>1 DEF LeaveScope, ToldOf, FinalStates, TypeOK
    <3>6. QED
      BY <3>2, <3>3, <3>4, <3>5
  <2>4. QED
    BY <2>1, <2>2, <2>3 DEF EachFits
<1>8. ASSUME NEW i \in Interaction, CancelScope(i) PROVE BrokerInv'
  <2>1. PICK S \in SUBSET Interaction : S = {j \in Interaction : SessionOf[j] = SessionOf[i]}
    OBVIOUS
  <2>2. OfSession(SessionOf[i]) = Selected({j \in S : state[j] \notin FinalStates})
    BY <2>1 DEF OfSession
  <2>3. Sweep(Selected({j \in S : state[j] \notin FinalStates}), "cancelled", "other")
    BY <1>8, <2>2 DEF CancelScope
  <2>4. /\ owner' \in [Direct -> Client \union {NoClient}] /\ context' \subseteq Session
        /\ closed' \in BOOLEAN /\ closer' \in {"none", "publish", "done", "raised"}
        /\ scheduler' \in {"run", "exited", "raised"} /\ scopes' \subseteq Direct
        /\ waiter' \in [Interaction -> {"idle", "ready", "created", "waiting",
                                        "leaving", "left", "returned", "raised"}]
        /\ got' = got /\ (closed => closed') /\ (closer' # "none" => closed')
    BY <1>8 DEF CancelScope, TypeOK, RingFits
  <2>5. closer' \in {"publish", "done"} => closer \in {"publish", "done"}
    BY <1>8, <2>1, <2>2 DEF CancelScope
  <2>6. \A j \in Interaction :
          \/ waiter'[j] = waiter[j]
          \/ waiter[j] = "left" /\ waiter'[j] \in {"returned", "raised"}
    BY <1>8 DEF CancelScope, TypeOK
  <2>7. QED
    BY <2>1, <2>3, <2>4, <2>5, <2>6, SweepStep
<1>9. ASSUME NEW i \in Interaction, PublishFinal(i) PROVE BrokerInv'
  <2>1. TypeOK'
    BY <1>9 DEF PublishFinal, TypeOK, OpenStates, FinalStates
  <2>2. RingFits'
    BY <1>9 DEF PublishFinal, RingFits
  <2>3. ASSUME NEW j \in Interaction
        PROVE  (RecordOf(j) /\ ClaimOf(j) /\ ResultOf(j) /\ ToldOf(j))'
    <3>1. RecordOf(j) /\ ClaimOf(j) /\ ResultOf(j) /\ ToldOf(j)
      BY DEF EachFits
    <3>2. RecordOf(j)'
      BY <1>9, <3>1 DEF PublishFinal, RecordOf, Present, OpenStates, FinalStates, TypeOK
    <3>3. ClaimOf(j)'
      BY <1>9, <3>1 DEF PublishFinal, ClaimOf, TypeOK
    <3>4. ResultOf(j)'
      BY <1>9, <3>1 DEF PublishFinal, ResultOf, Answers, Present, TypeOK
    <3>5. ToldOf(j)'
      BY <1>9, <3>1 DEF PublishFinal, ToldOf, FinalStates, TypeOK
    <3>6. QED
      BY <3>2, <3>3, <3>4, <3>5
  <2>4. QED
    BY <2>1, <2>2, <2>3 DEF EachFits
<1>10. ASSUME NEW i \in Interaction, NEW c \in Client, Claim(i, c) PROVE BrokerInv'
  <2>1. TypeOK'
    BY <1>10 DEF Claim, Request, Visible, Open, TypeOK, OpenStates, FinalStates
  <2>2. RingFits'
    BY <1>10 DEF Claim, Request, Visible, Open, RingFits
  <2>3. ASSUME NEW j \in Interaction
        PROVE  (RecordOf(j) /\ ClaimOf(j) /\ ResultOf(j) /\ ToldOf(j))'
    <3>1. RecordOf(j) /\ ClaimOf(j) /\ ResultOf(j) /\ ToldOf(j)
      BY DEF EachFits
    <3>2. /\ state[i] = "pending" /\ i \notin awaiting /\ state' = [state EXCEPT ![i] = "claimed"]
          /\ \A h \in Interaction : h # i => nonce'[h] = nonce[h] /\ state'[h] = state[h]
          /\ state'[i] = "claimed"
          /\ (Present(j)' <=> Present(j)) /\ (j \in Range(completed') <=> j \in Range(completed))
          /\ UNCHANGED <<awaiting, result, closed, waiter, got, unpub, finals, mute>>
      <4>1. ClaimOf(i)
        BY DEF EachFits
      <4>2. state[i] # "claimed" /\ state[i] \in OpenStates
        BY <1>10, <4>1, BrokerAssumption DEF Claim, Request, Open, ClaimOf, TypeOK
      <4>3. QED
        BY <1>10, <4>1, <4>2 DEF Claim, ClaimOf, OpenStates, TypeOK, Present
    <3>3. RecordOf(j)'
      BY <1>10, <3>1, <3>2 DEF Claim, Request, Visible, Open, RecordOf, Present, OpenStates, FinalStates, TypeOK
    <3>4. ClaimOf(j)'
      BY <1>10, <3>1, <3>2 DEF Claim, Request, Visible, Open, ClaimOf, TypeOK
    <3>5. ResultOf(j)'
      BY <3>1, <3>2 DEF ResultOf, Answers
    <3>6. ToldOf(j)'
      BY <3>1, <3>2 DEF ToldOf, FinalStates
    <3>7. QED
      BY <3>3, <3>4, <3>5, <3>6
  <2>4. QED
    BY <2>1, <2>2, <2>3 DEF EachFits
<1>11. ASSUME NEW i \in Interaction, NEW c \in Client, Release(i, c) PROVE BrokerInv'
  <2>1. TypeOK'
    BY <1>11 DEF Release, Request, Open, TypeOK, OpenStates, FinalStates
  <2>2. RingFits'
    BY <1>11 DEF Release, Request, Open, RingFits
  <2>3. ASSUME NEW j \in Interaction
        PROVE  (RecordOf(j) /\ ClaimOf(j) /\ ResultOf(j) /\ ToldOf(j))'
    <3>1. RecordOf(j) /\ ClaimOf(j) /\ ResultOf(j) /\ ToldOf(j)
      BY DEF EachFits
    <3>2. /\ state[i] \in OpenStates /\ i \notin awaiting /\ state'[i] = "pending"
          /\ \A h \in Interaction : h # i => nonce'[h] = nonce[h] /\ state'[h] = state[h]
          /\ (Present(j)' <=> Present(j)) /\ (j \in Range(completed') <=> j \in Range(completed))
          /\ UNCHANGED <<awaiting, result, closed, waiter, got, unpub, finals, mute>>
      BY <1>11 DEF Release, Request, Open, TypeOK, Present
    <3>3. "answered" \notin OpenStates /\ "pending" # "answered" /\ OpenStates \cap FinalStates = {} /\ "pending" \in OpenStates
      BY DEF OpenStates, FinalStates
    <3>4. RecordOf(j)'
      BY <1>11, <3>1, <3>2, <3>3 DEF Release, Request, Open, RecordOf, Present, OpenStates, FinalStates, TypeOK
    <3>5. ClaimOf(j)'
      BY <1>11, <3>1, <3>2, <3>3 DEF Release, Request, Open, ClaimOf, TypeOK
    <3>6. ResultOf(j)'
      BY <3>1, <3>2, <3>3 DEF ResultOf, Answers
    <3>7. ToldOf(j)'
      BY <3>1, <3>2, <3>3 DEF ToldOf, FinalStates
    <3>8. QED
      BY <3>4, <3>5, <3>6, <3>7
  <2>4. QED
    BY <2>1, <2>2, <2>3 DEF EachFits
<1>12. ASSUME NEW i \in Interaction, NEW c \in Client, Decide(i, c) PROVE BrokerInv'
  <2>1. Present(i) /\ state[i] \in OpenStates /\ ~closed
    BY <1>12 DEF Decide, Responder, Request, Open
  <2>2. PICK res : res = Answer(i, "decision")
    OBVIOUS
  <2>3. /\ res \in [Interaction -> Results] /\ \A j \in Interaction \ {i} : res[j] = result[j]
    <3>1. [kind |-> "decision", claim |-> nonce[i], sent |-> 0] \in Results
      BY DEF TypeOK, Results, ResultKinds
    <3>2. QED
      BY <2>2, <3>1 DEF Answer, TypeOK
  <2>4. res[i].kind = "decision"
    BY <2>2 DEF Answer, TypeOK
  <2>5. Finish(<<i>>, "answered", res, "other")
    BY <1>12, <2>2 DEF Decide
  <2>6. UNCHANGED <<owner, context, closed, closer, scheduler, scopes, waiter, got, mute>>
    BY <1>12 DEF Decide
  <2>7. QED
    BY <2>1, <2>3, <2>4, <2>5, <2>6, FinishOne DEF FinalStates, Answers
<1>13. ASSUME NEW i \in Interaction, NEW c \in Client, Refuse(i, c) PROVE BrokerInv'
  <2>1. Present(i) /\ state[i] \in OpenStates /\ ~closed
    BY <1>13 DEF Refuse, Responder, Request, Open
  <2>2. PICK res : res = Answer(i, "refusal")
    OBVIOUS
  <2>3. /\ res \in [Interaction -> Results] /\ \A j \in Interaction \ {i} : res[j] = result[j]
    <3>1. [kind |-> "refusal", claim |-> nonce[i], sent |-> 0] \in Results
      BY DEF TypeOK, Results, ResultKinds
    <3>2. QED
      BY <2>2, <3>1 DEF Answer, TypeOK
  <2>4. res[i].kind = "refusal"
    BY <2>2 DEF Answer, TypeOK
  <2>5. Finish(<<i>>, "cancelled", res, "other")
    BY <1>13, <2>2 DEF Refuse
  <2>6. UNCHANGED <<owner, context, closed, closer, scheduler, scopes, waiter, got, mute>>
    BY <1>13 DEF Refuse
  <2>7. QED
    BY <2>1, <2>3, <2>4, <2>5, <2>6, FinishOne DEF FinalStates, Answers
<1>14. ASSUME NEW i \in Interaction, NEW c \in Client, Reserve(i, c) PROVE BrokerInv'
  <2>1. TypeOK'
    <3>1. [kind |-> "reserved", claim |-> nonce[i], sent |-> 0] \in Results
      BY DEF TypeOK, Results, ResultKinds
    <3>2. result' = [result EXCEPT ![i] = [kind |-> "reserved", claim |-> nonce[i], sent |-> 0]]
      BY <1>14 DEF Reserve, Answer
    <3>3. result' \in [Interaction -> Results]
      BY <3>1, <3>2 DEF TypeOK
    <3>4. awaiting' \subseteq Interaction
      BY <1>14 DEF Reserve, TypeOK
    <3>5. UNCHANGED <<ring, kind, responder, issued, nonce, state, owner, context, closed,
                     closer, scheduler, scopes, connected, waiter, got, eventvars>>
      BY <1>14 DEF Reserve
    <3>6. QED
      BY <3>3, <3>4, <3>5 DEF TypeOK
  <2>2. RingFits'
    BY <1>14 DEF Reserve, Request, Responder, Visible, Open, Answer, RingFits
  <2>3. ASSUME NEW j \in Interaction
        PROVE  (RecordOf(j) /\ ClaimOf(j) /\ ResultOf(j) /\ ToldOf(j))'
    <3>1. RecordOf(j) /\ ClaimOf(j) /\ ResultOf(j) /\ ToldOf(j)
      BY DEF EachFits
    <3>2. /\ state[i] = "claimed" /\ awaiting' = awaiting \union {i}
          /\ result'[i] = [kind |-> "reserved", claim |-> nonce[i], sent |-> 0]
          /\ \A h \in Interaction : h # i => result'[h] = result[h]
          /\ (Present(j)' <=> Present(j)) /\ (j \in Range(completed') <=> j \in Range(completed))
          /\ UNCHANGED <<state, responder, issued, nonce, connected, closed, waiter, got>>
      <4>1. ClaimOf(i)
        BY DEF EachFits
      <4>2. responder[i] = c /\ c # NoClient
        BY <1>14, BrokerAssumption DEF Reserve, Responder
      <4>3. state[i] = "claimed"
        BY <4>1, <4>2 DEF ClaimOf
      <4>4. QED
        BY <1>14, <4>3 DEF Reserve, Answer, TypeOK, Present
    <3>3. (j = i => result'[j].kind = "reserved") /\ state[i] # "answered"
      BY <3>2
    <3>4. RecordOf(j)'
      BY <1>14, <3>1, <3>2, <3>3 DEF Reserve, Request, Responder, Visible, Open, Answer, RecordOf, Present, OpenStates, FinalStates, TypeOK
    <3>5. ClaimOf(j)'
      BY <3>1, <3>2, <3>3 DEF ClaimOf
    <3>6. ResultOf(j)'
      BY <3>1, <3>2, <3>3 DEF ResultOf, Answers
    <3>7. ToldOf(j)'
      BY <1>14, <3>1, <3>2, <3>3 DEF Reserve, Request, Responder, Visible, Open, Answer, ToldOf, FinalStates, TypeOK
    <3>8. QED
      BY <3>4, <3>5, <3>6, <3>7
  <2>4. QED
    BY <2>1, <2>2, <2>3 DEF EachFits
<1>15. ASSUME NEW i \in Interaction, NEW c \in Client, NEW n \in 1..MaxClaims[i], SubmitSecret(i, c, n) PROVE BrokerInv'
  <2>1. Present(i) /\ state[i] \in OpenStates /\ ~closed
    BY <1>15 DEF SubmitSecret, Responder, Request, Open
  <2>2. PICK res : res = [result EXCEPT ![i] =
                             [kind |-> "secret", claim |-> @.claim, sent |-> n]]
    OBVIOUS
  <2>3. result[i] = [kind |-> "reserved", claim |-> nonce[i], sent |-> 0] /\ n = nonce[i]
    BY <1>15, <2>1 DEF SubmitSecret, NonceMatches, EachFits, ResultOf
  <2>4. /\ [kind |-> "secret", claim |-> nonce[i], sent |-> nonce[i]] \in Results
        /\ res = [result EXCEPT ![i] = [kind |-> "secret", claim |-> nonce[i], sent |-> nonce[i]]]
    <3>1. [kind |-> "secret", claim |-> nonce[i], sent |-> nonce[i]] \in Results
      BY DEF TypeOK, Results, ResultKinds
    <3>2. res = [result EXCEPT ![i] = [kind |-> "secret", claim |-> nonce[i], sent |-> nonce[i]]]
      <4>1. result[i].claim = nonce[i] /\ n = nonce[i]
        BY <2>3
      <4>2. QED
        BY <2>2, <4>1
    <3>3. QED
      BY <3>1, <3>2
  <2>5. /\ res \in [Interaction -> Results] /\ \A j \in Interaction \ {i} : res[j] = result[j]
        /\ res[i].kind = "secret" /\ res[i].sent = res[i].claim
    BY <2>4 DEF TypeOK
  <2>6. Finish(<<i>>, "answered", res, "other")
    BY <1>15, <2>2 DEF SubmitSecret
  <2>7. UNCHANGED <<owner, context, closed, closer, scheduler, scopes, waiter, got, mute>>
    BY <1>15 DEF SubmitSecret
  <2>8. QED
    BY <2>1, <2>5, <2>6, <2>7, FinishOne DEF FinalStates, Answers
<1>16. ASSUME NEW i \in Interaction, NEW c \in Client, Cancel(i, c) PROVE BrokerInv'
  <2>1. Present(i) /\ state[i] \in OpenStates /\ ~closed
    BY <1>16 DEF Cancel, Responder, Request, Open
  <2>2. PICK res : res = Cleared({i})
    OBVIOUS
  <2>3. /\ res \in [Interaction -> Results] /\ \A j \in Interaction \ {i} : res[j] = result[j]
    BY <2>2, ClearedFacts
  <2>4. res[i].kind = "none"
    BY <2>2, ClearedFacts
  <2>5. Finish(<<i>>, "cancelled", res, "other")
    BY <1>16, <2>2 DEF Cancel
  <2>6. UNCHANGED <<owner, context, closed, closer, scheduler, scopes, waiter, got, mute>>
    BY <1>16 DEF Cancel
  <2>7. QED
    BY <2>1, <2>3, <2>4, <2>5, <2>6, FinishOne DEF FinalStates, Answers
<1>17. ASSUME NEW c \in Client, Disconnect(c) PROVE BrokerInv'
  <2>1. PICK held \in SUBSET Interaction :
           held = {h \in Interaction :
                      Present(h) /\ responder[h] = c /\ state[h] \notin FinalStates}
    OBVIOUS
  <2>2. /\ connected' = connected \ {c}
        /\ state' = [h \in Interaction |-> IF h \in held THEN "pending" ELSE state[h]]
        /\ responder' = [h \in Interaction |-> IF h \in held THEN NoClient ELSE responder[h]]
        /\ nonce' = [h \in Interaction |-> IF h \in held THEN 0 ELSE nonce[h]]
        /\ result' = Cleared(held \intersect awaiting)
        /\ awaiting' = awaiting \ held
    BY <1>17, <2>1 DEF Disconnect
  <2>3. UNCHANGED <<ring, kind, issued, context, closed, closer, scheduler, waiter, got, eventvars>>
    BY <1>17 DEF Disconnect
  <2>4. /\ owner' \in [Direct -> Client \union {NoClient}] /\ scopes' \subseteq Direct
    BY <1>17 DEF Disconnect, TypeOK
  <2>5. PICK S \in SUBSET Interaction : S = held \intersect awaiting
    OBVIOUS
  <2>6. /\ result' \in [Interaction -> Results]
        /\ \A h \in Interaction \ S : result'[h] = result[h]
        /\ \A h \in S : result'[h].kind = "none"
    BY <2>2, <2>5, ClearedFacts
  <2>7. TypeOK'
    <3>1. /\ state' \in [Interaction -> {"absent"} \union OpenStates \union FinalStates]
          /\ responder' \in [Interaction -> Client \union {NoClient}]
          /\ nonce' \in [Interaction -> Nat]
      BY <2>2 DEF TypeOK, OpenStates
    <3>2. awaiting' \subseteq Interaction /\ connected' \subseteq Client
      BY <2>2 DEF TypeOK
    <3>3. QED
      BY <2>3, <2>4, <2>6, <3>1, <3>2 DEF TypeOK
  <2>8. RingFits'
    BY <2>3 DEF RingFits
  <2>9. ASSUME NEW j \in Interaction
        PROVE  (RecordOf(j) /\ ClaimOf(j) /\ ResultOf(j) /\ ToldOf(j))'
    <3>1. RecordOf(j) /\ ClaimOf(j) /\ ResultOf(j) /\ ToldOf(j)
      BY DEF EachFits
    <3>2. Present(j)' <=> Present(j)
      BY <2>3 DEF Present
    <3>3. CASE j \in held
      <4>1. state[j] = "claimed" /\ Present(j)
        BY <2>1, <3>1, <3>3, BrokerAssumption DEF ClaimOf
      <4>2. /\ state'[j] = "pending" /\ responder'[j] = NoClient /\ nonce'[j] = 0
            /\ j \notin awaiting'
        BY <2>2, <3>3
      <4>3. result'[j].kind # "reserved" /\ result'[j].kind \notin Answers /\ got[j] \notin Answers
        <5>1. result[j].kind \notin Answers /\ got[j] \notin Answers
          BY <3>1, <4>1 DEF ResultOf
        <5>2. CASE j \in awaiting
          BY <2>5, <2>6, <3>3, <5>1, <5>2 DEF Answers
        <5>3. CASE j \notin awaiting
          BY <2>5, <2>6, <3>1, <5>1, <5>3 DEF ResultOf
        <5>4. QED
          BY <5>2, <5>3
      <4>4. RecordOf(j)'
        BY <2>3, <3>1, <3>2, <4>1, <4>2 DEF RecordOf, OpenStates, FinalStates
      <4>5. ClaimOf(j)'
        BY <4>2 DEF ClaimOf
      <4>6. ResultOf(j)'
        BY <2>3, <4>2, <4>3 DEF ResultOf, Answers
      <4>7. ToldOf(j)'
        BY <2>3, <3>1, <4>1, <4>2 DEF ToldOf, FinalStates
      <4>8. QED
        BY <4>4, <4>5, <4>6, <4>7
    <3>4. CASE j \notin held
      <4>1. /\ state'[j] = state[j] /\ responder'[j] = responder[j] /\ nonce'[j] = nonce[j]
            /\ (j \in awaiting' <=> j \in awaiting) /\ result'[j] = result[j]
        BY <2>2, <2>5, <2>6, <3>4
      <4>2. state[j] = "claimed" => responder[j] # c
        BY <2>1, <3>1, <3>4 DEF RecordOf, OpenStates, FinalStates
      <4>3. RecordOf(j)'
        BY <2>3, <3>1, <3>2, <4>1 DEF RecordOf
      <4>4. ClaimOf(j)'
        BY <2>2, <2>3, <3>1, <4>1, <4>2 DEF ClaimOf
      <4>5. ResultOf(j)'
        BY <2>3, <3>1, <3>2, <4>1 DEF ResultOf
      <4>6. ToldOf(j)'
        BY <2>3, <3>1, <4>1 DEF ToldOf
      <4>7. QED
        BY <4>3, <4>4, <4>5, <4>6
    <3>5. QED
      BY <3>3, <3>4
  <2>10. QED
    BY <2>7, <2>8, <2>9 DEF EachFits
<1>18. ASSUME NEW s \in Session, CancelOwned(s) PROVE BrokerInv'
  <2>1. PICK S \in SUBSET Interaction : S = {j \in Interaction : SessionOf[j] = s}
    OBVIOUS
  <2>2. OfSession(s) = Selected({j \in S : state[j] \notin FinalStates})
    BY <2>1 DEF OfSession
  <2>3. Sweep(Selected({j \in S : state[j] \notin FinalStates}), "cancelled", "other")
    BY <1>18, <2>2 DEF CancelOwned
  <2>4. /\ owner' \in [Direct -> Client \union {NoClient}] /\ context' \subseteq Session
        /\ closed' \in BOOLEAN /\ closer' \in {"none", "publish", "done", "raised"}
        /\ scheduler' \in {"run", "exited", "raised"} /\ scopes' \subseteq Direct
        /\ waiter' \in [Interaction -> {"idle", "ready", "created", "waiting",
                                        "leaving", "left", "returned", "raised"}]
        /\ got' = got /\ (closed => closed') /\ (closer' # "none" => closed')
    BY <1>18 DEF CancelOwned, TypeOK, RingFits
  <2>5. closer' \in {"publish", "done"} => closer \in {"publish", "done"}
    BY <1>18, <2>1, <2>2 DEF CancelOwned
  <2>6. \A j \in Interaction :
          \/ waiter'[j] = waiter[j]
          \/ waiter[j] = "left" /\ waiter'[j] \in {"returned", "raised"}
    BY <1>18 DEF CancelOwned, TypeOK
  <2>7. QED
    BY <2>1, <2>3, <2>4, <2>5, <2>6, SweepStep
<1>19. ASSUME NEW s \in Session, CancelSession(s) PROVE BrokerInv'
  <2>1. PICK S \in SUBSET Interaction : S = {j \in Interaction : SessionOf[j] = s}
    OBVIOUS
  <2>2. OfSession(s) = Selected({j \in S : state[j] \notin FinalStates})
    BY <2>1 DEF OfSession
  <2>3. Sweep(Selected({j \in S : state[j] \notin FinalStates}), "cancelled", "other")
    BY <1>19, <2>2 DEF CancelSession
  <2>4. /\ owner' \in [Direct -> Client \union {NoClient}] /\ context' \subseteq Session
        /\ closed' \in BOOLEAN /\ closer' \in {"none", "publish", "done", "raised"}
        /\ scheduler' \in {"run", "exited", "raised"} /\ scopes' \subseteq Direct
        /\ waiter' \in [Interaction -> {"idle", "ready", "created", "waiting",
                                        "leaving", "left", "returned", "raised"}]
        /\ got' = got /\ (closed => closed') /\ (closer' # "none" => closed')
    BY <1>19 DEF CancelSession, TypeOK, RingFits
  <2>5. closer' \in {"publish", "done"} => closer \in {"publish", "done"}
    BY <1>19, <2>1, <2>2 DEF CancelSession
  <2>6. \A j \in Interaction :
          \/ waiter'[j] = waiter[j]
          \/ waiter[j] = "left" /\ waiter'[j] \in {"returned", "raised"}
    BY <1>19 DEF CancelSession, TypeOK
  <2>7. QED
    BY <2>1, <2>3, <2>4, <2>5, <2>6, SweepStep
<1>20. ASSUME NEW late \in SUBSET Interaction, Expire(late) PROVE BrokerInv'
  <2>1. PICK S \in SUBSET Interaction : S = late
    OBVIOUS
  <2>2. Overdue(late) = Selected({j \in S : state[j] \notin FinalStates})
    BY <2>1 DEF Overdue
  <2>3. Sweep(Selected({j \in S : state[j] \notin FinalStates}), "expired", "other")
    BY <1>20, <2>2 DEF Expire
  <2>4. /\ owner' \in [Direct -> Client \union {NoClient}] /\ context' \subseteq Session
        /\ closed' \in BOOLEAN /\ closer' \in {"none", "publish", "done", "raised"}
        /\ scheduler' \in {"run", "exited", "raised"} /\ scopes' \subseteq Direct
        /\ waiter' \in [Interaction -> {"idle", "ready", "created", "waiting",
                                        "leaving", "left", "returned", "raised"}]
        /\ got' = got /\ (closed => closed') /\ (closer' # "none" => closed')
    BY <1>20 DEF Expire, TypeOK, RingFits
  <2>5. closer' \in {"publish", "done"} => closer \in {"publish", "done"}
    BY <1>20, <2>1, <2>2 DEF Expire
  <2>6. \A j \in Interaction :
          \/ waiter'[j] = waiter[j]
          \/ waiter[j] = "left" /\ waiter'[j] \in {"returned", "raised"}
    BY <1>20 DEF Expire, TypeOK
  <2>7. QED
    BY <2>1, <2>3, <2>4, <2>5, <2>6, SweepStep
<1>21. CASE SchedulerExits
  <2>1. TypeOK'
    BY <1>21 DEF SchedulerExits, TypeOK, OpenStates, FinalStates
  <2>2. RingFits'
    BY <1>21 DEF SchedulerExits, RingFits
  <2>3. ASSUME NEW j \in Interaction
        PROVE  (RecordOf(j) /\ ClaimOf(j) /\ ResultOf(j) /\ ToldOf(j))'
    <3>1. RecordOf(j) /\ ClaimOf(j) /\ ResultOf(j) /\ ToldOf(j)
      BY DEF EachFits
    <3>2. RecordOf(j)'
      BY <1>21, <3>1 DEF SchedulerExits, RecordOf, Present, OpenStates, FinalStates, TypeOK
    <3>3. ClaimOf(j)'
      BY <1>21, <3>1 DEF SchedulerExits, ClaimOf, TypeOK
    <3>4. ResultOf(j)'
      BY <1>21, <3>1 DEF SchedulerExits, ResultOf, Answers, Present, TypeOK
    <3>5. ToldOf(j)'
      BY <1>21, <3>1 DEF SchedulerExits, ToldOf, FinalStates, TypeOK
    <3>6. QED
      BY <3>2, <3>3, <3>4, <3>5
  <2>4. QED
    BY <2>1, <2>2, <2>3 DEF EachFits
<1>22. CASE BeginClose
  <2>1. PICK S \in SUBSET Interaction : S = Interaction
    OBVIOUS
  <2>2. AllOpen = Selected({j \in S : state[j] \notin FinalStates})
    BY <2>1 DEF AllOpen
  <2>3. Sweep(Selected({j \in S : state[j] \notin FinalStates}), "cancelled", "closer")
    BY <1>22, <2>2 DEF BeginClose
  <2>4. /\ owner' \in [Direct -> Client \union {NoClient}] /\ context' \subseteq Session
        /\ closed' \in BOOLEAN /\ closer' \in {"none", "publish", "done", "raised"}
        /\ scheduler' \in {"run", "exited", "raised"} /\ scopes' \subseteq Direct
        /\ waiter' \in [Interaction -> {"idle", "ready", "created", "waiting",
                                        "leaving", "left", "returned", "raised"}]
        /\ got' = got /\ (closed => closed') /\ (closer' # "none" => closed')
    BY <1>22 DEF BeginClose, TypeOK, RingFits
  <2>5. closer' \in {"publish", "done"} =>
          S = Interaction /\ ~Raises(Selected({j \in S : state[j] \notin FinalStates}))
    BY <1>22, <2>1, <2>2 DEF BeginClose
  <2>6. \A j \in Interaction :
          \/ waiter'[j] = waiter[j]
          \/ waiter[j] = "left" /\ waiter'[j] \in {"returned", "raised"}
    BY <1>22 DEF BeginClose, TypeOK
  <2>7. QED
    BY <2>1, <2>3, <2>4, <2>5, <2>6, SweepStep
<1>23. CASE EndClose
  <2>1. TypeOK'
    BY <1>23 DEF EndClose, TypeOK, OpenStates, FinalStates
  <2>2. RingFits'
    BY <1>23 DEF EndClose, RingFits
  <2>3. ASSUME NEW j \in Interaction
        PROVE  (RecordOf(j) /\ ClaimOf(j) /\ ResultOf(j) /\ ToldOf(j))'
    <3>1. RecordOf(j) /\ ClaimOf(j) /\ ResultOf(j) /\ ToldOf(j)
      BY DEF EachFits
    <3>2. RecordOf(j)'
      BY <1>23, <3>1 DEF EndClose, RecordOf, Present, OpenStates, FinalStates, TypeOK
    <3>3. ClaimOf(j)'
      BY <1>23, <3>1 DEF EndClose, ClaimOf, TypeOK
    <3>4. ResultOf(j)'
      BY <1>23, <3>1 DEF EndClose, ResultOf, Answers, Present, TypeOK
    <3>5. ToldOf(j)'
      BY <1>23, <3>1 DEF EndClose, ToldOf, FinalStates, TypeOK
    <3>6. QED
      BY <3>2, <3>3, <3>4, <3>5
  <2>4. QED
    BY <2>1, <2>2, <2>3 DEF EachFits
<1>24. CASE UNCHANGED vars
  BY <1>24 DEF vars, TypeOK, RingFits, EachFits, RecordOf, ClaimOf, ResultOf, ToldOf, Present
<1>25. QED
  BY <1>1, <1>2, <1>3, <1>4, <1>5, <1>6, <1>7, <1>8, <1>9, <1>10, <1>11, <1>12, <1>13,
     <1>14, <1>15, <1>16, <1>17, <1>18, <1>19, <1>20, <1>21, <1>22, <1>23, <1>24 DEF
     Next, Waiting, Responding

-----------------------------------------------------------------------------
(* The theorems.                                                           *)

\* The broker starts with no interaction, and so with the invariant.
LEMMA InitInv == Init => BrokerInv
<1> SUFFICES ASSUME Init PROVE BrokerInv
  OBVIOUS
<1>1. <<>> \in Seq(Interaction) /\ <<>> \in Seq(Client) /\ IsInjective(<<>>) /\ Range(<<>>) = {}
      /\ Len(<<>>) = 0
  BY DEF IsInjective, Range
<1>2. NoResult \in Results /\ NoResult.kind = "none"
  BY DEF NoResult, Results, ResultKinds
<1>3. TypeOK
  BY <1>1, <1>2, BrokerAssumption DEF Init, TypeOK, ResultKinds
<1>4. RingFits
  BY <1>1, BrokerAssumption DEF Init, RingFits
<1>5. ASSUME NEW i \in Interaction
      PROVE  RecordOf(i) /\ ClaimOf(i) /\ ResultOf(i) /\ ToldOf(i)
  <2>1. /\ ~Present(i) /\ i \notin Range(completed) /\ state[i] = "absent"
        /\ waiter[i] = "idle" /\ closer = "none"
    BY <1>1 DEF Init, Present
  <2>2. /\ responder[i] = NoClient /\ nonce[i] = 0 /\ i \notin awaiting
        /\ result[i].kind = "none" /\ got[i] = "none" /\ unpub[i] = "none" /\ finals[i] = 0
    BY <1>2 DEF Init
  <2>3. RecordOf(i) /\ ClaimOf(i)
    BY <2>1, <2>2 DEF RecordOf, ClaimOf, OpenStates, FinalStates
  <2>4. ResultOf(i) /\ ToldOf(i)
    BY <2>1, <2>2 DEF ResultOf, ToldOf, Answers, FinalStates
  <2>5. QED
    BY <2>3, <2>4
<1>6. QED
  BY <1>3, <1>4, <1>5 DEF BrokerInv, EachFits

\* The inductive invariant holds in every behaviour of the broker.
THEOREM BrokerInvariant == Spec => []BrokerInv
<1>1. BrokerInv /\ [Next]_vars => BrokerInv'
  BY StepInv
<1>2. QED
  BY InitInv, <1>1, PTL DEF Spec

\* Secrets are safe: a secret is accepted only in a frame of the claim its
\* answer was reserved under, a reservation belongs to a connected client that
\* holds the claim, and no record keeps a secret once it is expired, cancelled,
\* evicted or taken.
THEOREM SecretsSafeAlways == Spec => []SecretsSafe
<1>1. BrokerInv => SecretsSafe
  <2> SUFFICES ASSUME BrokerInv PROVE SecretsSafe
    OBVIOUS
  <2>1. \A i \in Interaction : ClaimOf(i) /\ ResultOf(i)
    BY DEF BrokerInv, EachFits
  <2>2. SecretFromClaim
    BY <2>1 DEF SecretFromClaim, ResultOf
  <2>3. ASSUME NEW i \in Interaction
        PROVE  /\ i \in awaiting =>
                     /\ state[i] = "claimed" /\ nonce[i] > 0
                     /\ responder[i] \in connected
                     /\ issued[i][nonce[i]] = responder[i]
                     /\ closed \/ result[i] = [kind |-> "reserved", claim |-> nonce[i], sent |-> 0]
               /\ result[i].kind = "reserved" => i \in awaiting
    <3>1. nonce[i] \in Nat /\ issued[i] \in Seq(Client)
      BY DEF BrokerInv, TypeOK
    <3>2. ClaimOf(i) /\ ResultOf(i)
      BY <2>1
    <3>3. i \in awaiting =>
            /\ state[i] = "claimed" /\ responder[i] \in connected
            /\ nonce[i] \in 1..Len(issued[i]) /\ issued[i][nonce[i]] = responder[i]
      BY <3>2 DEF ClaimOf
    <3>4. i \in awaiting => nonce[i] > 0
      BY <3>1, <3>3
    <3>5. i \in awaiting =>
            closed \/ result[i] = [kind |-> "reserved", claim |-> nonce[i], sent |-> 0]
      BY <3>2 DEF ResultOf
    <3>6. result[i].kind = "reserved" => i \in awaiting
      BY <3>2 DEF ResultOf
    <3>7. QED
      BY <3>3, <3>4, <3>5, <3>6
  <2>4. ReservationHeld
    BY <2>3 DEF ReservationHeld
  <2>5. SecretsCleared
    BY <2>1 DEF SecretsCleared, ResultOf, Answers
  <2>6. QED
    BY <2>2, <2>4, <2>5 DEF SecretsSafe
<1>2. QED
  BY BrokerInvariant, <1>1, PTL

\* Answers are sound: an accepted answer reaches its waiter, the ring and the
\* dictionary agree, the end of an interaction is told once, and nothing is
\* open once close() is past its loop.
THEOREM AnswersSoundAlways == Spec => []AnswersSound
<1>1. BrokerInv => AnswersSound
  <2> SUFFICES ASSUME BrokerInv PROVE AnswersSound
    OBVIOUS
  <2>1. \A i \in Interaction : RecordOf(i) /\ ResultOf(i) /\ ToldOf(i)
    BY DEF BrokerInv, EachFits
  <2>2. TypeOK /\ RingFits
    BY DEF BrokerInv
  <2>3. AnswerDelivered
    BY <2>1 DEF AnswerDelivered, ResultOf, Answers
  <2>4. RetentionExact
    BY <2>1, <2>2 DEF RetentionExact, RingFits, RecordOf
  <2>5. FinalToldOnce
    BY <2>1 DEF FinalToldOnce, ToldOf
  <2>6. ClosedMeansSettled
    BY <2>1 DEF ClosedMeansSettled, RecordOf
  <2>7. QED
    BY <2>2, <2>3, <2>4, <2>5, <2>6 DEF AnswersSound
<1>2. QED
  BY BrokerInvariant, <1>1, PTL

\* A step that finishes open records leaves every final one as it is.
LEMMA FinishKeeps ==
    ASSUME BrokerInv, NEW done, NEW st, NEW res, NEW by, Finish(done, st, res, by),
           \A i \in Range(done) : state[i] \in OpenStates
    PROVE  \A i \in Interaction : state[i] \in FinalStates => state'[i] = state[i]
  BY DEF Finish, OpenStates, FinalStates

\* No step changes a final state.
LEMMA FinalStep ==
    ASSUME BrokerInv, [Next]_vars
    PROVE  \A j \in Interaction : state[j] \in FinalStates => state'[j] = state[j]
<1> USE DEF BrokerInv, ring, claimvars, eventvars
<1>1. ASSUME NEW i \in Interaction, NEW k \in Kinds, ReadContext(i, k) PROVE \A j \in Interaction : state[j] \in FinalStates => state'[j] = state[j]
  BY <1>1 DEF ReadContext
<1>2. ASSUME NEW i \in Interaction, OpenScope(i) PROVE \A j \in Interaction : state[j] \in FinalStates => state'[j] = state[j]
  BY <1>2 DEF OpenScope
<1>3. ASSUME NEW i \in Interaction, Create(i) PROVE \A j \in Interaction : state[j] \in FinalStates => state'[j] = state[j]
  <2>1. state[i] = "absent" /\ (state' = state \/ state' = [state EXCEPT ![i] = "pending"])
    BY <1>3 DEF Create, EachFits, RecordOf
  <2>2. QED
    BY <2>1 DEF FinalStates, TypeOK
<1>4. ASSUME NEW i \in Interaction, BeginWait(i) PROVE \A j \in Interaction : state[j] \in FinalStates => state'[j] = state[j]
  BY <1>4 DEF BeginWait
<1>5. ASSUME NEW i \in Interaction, TakeResult(i) PROVE \A j \in Interaction : state[j] \in FinalStates => state'[j] = state[j]
  BY <1>5 DEF TakeResult
<1>6. ASSUME NEW i \in Interaction, GiveUp(i) PROVE \A j \in Interaction : state[j] \in FinalStates => state'[j] = state[j]
  <2>1. \A j \in Range(<<i>>) : state[j] \in OpenStates
    BY <1>6 DEF Range, GiveUp, EachFits, RecordOf, TypeOK
  <2>2. PICK st, res, by : Finish(<<i>>, st, res, by)
    BY <1>6 DEF GiveUp
  <2>3. QED
    BY <2>1, <2>2, FinishKeeps
<1>7. ASSUME NEW i \in Interaction, LeaveScope(i) PROVE \A j \in Interaction : state[j] \in FinalStates => state'[j] = state[j]
  BY <1>7 DEF LeaveScope
<1>8. ASSUME NEW i \in Interaction, CancelScope(i) PROVE \A j \in Interaction : state[j] \in FinalStates => state'[j] = state[j]
  <2>1. PICK S \in SUBSET Interaction : S = {j \in Interaction : SessionOf[j] = SessionOf[i]}
    OBVIOUS
  <2>2. OfSession(SessionOf[i]) = Selected({j \in S : state[j] \notin FinalStates})
    BY <2>1 DEF OfSession
  <2>3. PICK done, st, res, by : Finish(done, st, res, by) /\ done = Swept(OfSession(SessionOf[i]))
    BY <1>8 DEF CancelScope, Sweep
  <2>4. \A j \in Range(done) : state[j] \in OpenStates
    BY <2>2, <2>3, SweptFacts
  <2>5. QED
    BY <2>3, <2>4, FinishKeeps
<1>9. ASSUME NEW i \in Interaction, PublishFinal(i) PROVE \A j \in Interaction : state[j] \in FinalStates => state'[j] = state[j]
  BY <1>9 DEF PublishFinal
<1>10. ASSUME NEW i \in Interaction, NEW c \in Client, Claim(i, c) PROVE \A j \in Interaction : state[j] \in FinalStates => state'[j] = state[j]
  BY <1>10 DEF Claim, Request, Open, OpenStates, FinalStates, TypeOK
<1>11. ASSUME NEW i \in Interaction, NEW c \in Client, Release(i, c) PROVE \A j \in Interaction : state[j] \in FinalStates => state'[j] = state[j]
  BY <1>11 DEF Release, Request, Open, OpenStates, FinalStates, TypeOK
<1>12. ASSUME NEW i \in Interaction, NEW c \in Client, Decide(i, c) PROVE \A j \in Interaction : state[j] \in FinalStates => state'[j] = state[j]
  <2>1. \A j \in Range(<<i>>) : state[j] \in OpenStates
    BY <1>12 DEF Range, Decide, Responder, Request, Open
  <2>2. PICK st, res, by : Finish(<<i>>, st, res, by)
    BY <1>12 DEF Decide
  <2>3. QED
    BY <2>1, <2>2, FinishKeeps
<1>13. ASSUME NEW i \in Interaction, NEW c \in Client, Refuse(i, c) PROVE \A j \in Interaction : state[j] \in FinalStates => state'[j] = state[j]
  <2>1. \A j \in Range(<<i>>) : state[j] \in OpenStates
    BY <1>13 DEF Range, Refuse, Responder, Request, Open
  <2>2. PICK st, res, by : Finish(<<i>>, st, res, by)
    BY <1>13 DEF Refuse
  <2>3. QED
    BY <2>1, <2>2, FinishKeeps
<1>14. ASSUME NEW i \in Interaction, NEW c \in Client, Reserve(i, c) PROVE \A j \in Interaction : state[j] \in FinalStates => state'[j] = state[j]
  BY <1>14 DEF Reserve
<1>15. ASSUME NEW i \in Interaction, NEW c \in Client, NEW n \in 1..MaxClaims[i], SubmitSecret(i, c, n) PROVE \A j \in Interaction : state[j] \in FinalStates => state'[j] = state[j]
  <2>1. \A j \in Range(<<i>>) : state[j] \in OpenStates
    BY <1>15 DEF Range, SubmitSecret, Responder, Request, Open
  <2>2. PICK st, res, by : Finish(<<i>>, st, res, by)
    BY <1>15 DEF SubmitSecret
  <2>3. QED
    BY <2>1, <2>2, FinishKeeps
<1>16. ASSUME NEW i \in Interaction, NEW c \in Client, Cancel(i, c) PROVE \A j \in Interaction : state[j] \in FinalStates => state'[j] = state[j]
  <2>1. \A j \in Range(<<i>>) : state[j] \in OpenStates
    BY <1>16 DEF Range, Cancel, Responder, Request, Open
  <2>2. PICK st, res, by : Finish(<<i>>, st, res, by)
    BY <1>16 DEF Cancel
  <2>3. QED
    BY <2>1, <2>2, FinishKeeps
<1>17. ASSUME NEW c \in Client, Disconnect(c) PROVE \A j \in Interaction : state[j] \in FinalStates => state'[j] = state[j]
  BY <1>17 DEF Disconnect
<1>18. ASSUME NEW s \in Session, CancelOwned(s) PROVE \A j \in Interaction : state[j] \in FinalStates => state'[j] = state[j]
  <2>1. PICK S \in SUBSET Interaction : S = {j \in Interaction : SessionOf[j] = s}
    OBVIOUS
  <2>2. OfSession(s) = Selected({j \in S : state[j] \notin FinalStates})
    BY <2>1 DEF OfSession
  <2>3. PICK done, st, res, by : Finish(done, st, res, by) /\ done = Swept(OfSession(s))
    BY <1>18 DEF CancelOwned, Sweep
  <2>4. \A j \in Range(done) : state[j] \in OpenStates
    BY <2>2, <2>3, SweptFacts
  <2>5. QED
    BY <2>3, <2>4, FinishKeeps
<1>19. ASSUME NEW s \in Session, CancelSession(s) PROVE \A j \in Interaction : state[j] \in FinalStates => state'[j] = state[j]
  <2>1. PICK S \in SUBSET Interaction : S = {j \in Interaction : SessionOf[j] = s}
    OBVIOUS
  <2>2. OfSession(s) = Selected({j \in S : state[j] \notin FinalStates})
    BY <2>1 DEF OfSession
  <2>3. PICK done, st, res, by : Finish(done, st, res, by) /\ done = Swept(OfSession(s))
    BY <1>19 DEF CancelSession, Sweep
  <2>4. \A j \in Range(done) : state[j] \in OpenStates
    BY <2>2, <2>3, SweptFacts
  <2>5. QED
    BY <2>3, <2>4, FinishKeeps
<1>20. ASSUME NEW late \in SUBSET Interaction, Expire(late) PROVE \A j \in Interaction : state[j] \in FinalStates => state'[j] = state[j]
  <2>1. PICK S \in SUBSET Interaction : S = late
    OBVIOUS
  <2>2. Overdue(late) = Selected({j \in S : state[j] \notin FinalStates})
    BY <2>1 DEF Overdue
  <2>3. PICK done, st, res, by : Finish(done, st, res, by) /\ done = Swept(Overdue(late))
    BY <1>20 DEF Expire, Sweep
  <2>4. \A j \in Range(done) : state[j] \in OpenStates
    BY <2>2, <2>3, SweptFacts
  <2>5. QED
    BY <2>3, <2>4, FinishKeeps
<1>21. CASE SchedulerExits
  BY <1>21 DEF SchedulerExits
<1>22. CASE BeginClose
  <2>1. PICK S \in SUBSET Interaction : S = Interaction
    OBVIOUS
  <2>2. AllOpen = Selected({j \in S : state[j] \notin FinalStates})
    BY <2>1 DEF AllOpen
  <2>3. PICK done, st, res, by : Finish(done, st, res, by) /\ done = Swept(AllOpen)
    BY <1>22 DEF BeginClose, Sweep
  <2>4. \A j \in Range(done) : state[j] \in OpenStates
    BY <2>2, <2>3, SweptFacts
  <2>5. QED
    BY <2>3, <2>4, FinishKeeps
<1>23. CASE EndClose
  BY <1>23 DEF EndClose
<1>24. CASE UNCHANGED vars
  BY <1>24 DEF vars
<1>25. QED
  BY <1>1, <1>2, <1>3, <1>4, <1>5, <1>6, <1>7, <1>8, <1>9, <1>10, <1>11, <1>12, <1>13,
     <1>14, <1>15, <1>16, <1>17, <1>18, <1>19, <1>20, <1>21, <1>22, <1>23, <1>24 DEF
     Next, Waiting, Responding

\* One outcome: whoever races to finish an interaction - a response, a
\* deadline, a disconnection, the end of its session or shutdown - a final
\* state is never left for another.
THEOREM OneOutcomeAlways == Spec => OneOutcome
<1>1. BrokerInv /\ [Next]_vars =>
        [\A i \in Interaction : state[i] \in FinalStates => state'[i] = state[i]]_vars
  BY FinalStep
<1>2. QED
  BY <1>1, BrokerInvariant, PTL DEF Spec, OneOutcome

-----------------------------------------------------------------------------
(* The askpass contexts of the same broker.                                 *)

\* A worker serves a child that asks.  An attempt is counted before it is
\* served, and a prompt after it; what a person typed is named after the attempt.
WorkFits(c) ==
    /\ worker[c] # "idle" => child[c] = "asking"
    /\ prompts[c] <= attempt[c] /\ attempt[c] <= asked[c]
    /\ worker[c] \in {"begin", "read"} => attempt[c] < asked[c]
    /\ worker[c] \in {"lookup", "ask"} => prompts[c] < attempt[c]
    /\ worker[c] \in {"prompt", "stage"} => attempt[c] >= 1
    /\ worker[c] = "stage" => answer[c] = attempt[c]

\* A dismissed prompt is marked in the context unless the context is closed.
RefusedFits(c) ==
    c \in refused => /\ worker[c] \notin {"lookup", "ask", "prompt"}
                     /\ worker[c] = "cancelled" \/ c \notin contexts \/ c \in dismissed
                     /\ worker[c] = "read" => c \notin contexts

\* A stored value is looked up only while none has been offered.
OfferFits(c) ==
    /\ offers[c] <= 1
    /\ worker[c] = "lookup" \/ (c \in contexts /\ c \notin tried) => offers[c] = 0

\* The value of attempt n is staged: its loss has still to be logged, or was already.
Staged(c, n) == \E k \in 1..Len(staged[c]) : staged[c][k].value = n /\ ~staged[c][k].reported
Logged(c, n) == \E k \in 1..Len(staged[c]) : staged[c][k].value = n /\ staged[c][k].reported

\* A value that was chosen, and nothing else, is in the hand of its worker
\* unless the context is closed; one that was then staged, and nothing else, is
\* staged; and one that a person has yet to type has no fate.
FateFits(c) ==
    \A n \in Typed :
       /\ \A i \in 1..Len(fate[c][n]) : fate[c][n][i] = "reported" => i = 3
       /\ Staged(c, n) <=> Len(fate[c][n]) = 2
       /\ Logged(c, n) => Len(fate[c][n]) = 3
       /\ n > attempt[c] \/ (n = attempt[c] /\ worker[c] \in {"lookup", "ask", "prompt"})
             => Len(fate[c][n]) = 0
       /\ n = attempt[c] /\ worker[c] = "stage" => Len(fate[c][n]) = 1
       /\ Len(fate[c][n]) = 1 => (n = attempt[c] /\ worker[c] = "stage") \/ c \notin contexts

\* What is staged is staged in an open context, for a password one value.
StagedFits(c) ==
    /\ staged[c] # <<>> => c \in contexts
    /\ c \notin Passphrase => Len(staged[c]) <= 1

\* Each report of an authentication is due to a child that was accepted.
MarksFit == marks <= Cardinality({c \in Child : child[c] \in {"in", "out"}})

\* What the invariant says of one child.
ChildFits(c) == WorkFits(c) /\ RefusedFits(c) /\ OfferFits(c) /\ FateFits(c) /\ StagedFits(c)

\* The inductive invariant of the askpass contexts.
AskpassInv == AskpassTypeOK /\ MarksFit /\ \A c \in Child : ChildFits(c)

\* Attempts are counted from one, and the value of an earlier session is none of theirs.
LEMMA ValueFacts ==
    /\ MaxPrompts \in Nat \ {0} /\ Old = MaxPrompts + 1 /\ Old \in Nat
    /\ Typed = 1..MaxPrompts /\ Passphrase \subseteq Child
    /\ IsFiniteSet(Child)
BY AskpassAssumption DEF Old, Typed

\* Nothing of child d that the invariant speaks of changes.
Same(d) ==
    /\ child'[d] = child[d] /\ worker'[d] = worker[d] /\ answer'[d] = answer[d]
    /\ asked'[d] = asked[d] /\ attempt'[d] = attempt[d] /\ prompts'[d] = prompts[d]
    /\ offers'[d] = offers[d] /\ staged'[d] = staged[d] /\ fate'[d] = fate[d]
    /\ d \in contexts' <=> d \in contexts
    /\ d \in tried' <=> d \in tried
    /\ d \in dismissed' <=> d \in dismissed
    /\ d \in refused' <=> d \in refused

\* What is said of a child survives what happens to another one.
LEMMA SameFits ==
    ASSUME NEW d \in Child, ChildFits(d), Same(d)
    PROVE  ChildFits(d)'
<1>1. WorkFits(d)'
  BY DEF ChildFits, WorkFits, Same
<1>2. RefusedFits(d)' /\ OfferFits(d)' /\ StagedFits(d)'
  BY DEF ChildFits, RefusedFits, OfferFits, StagedFits, Same
<1>3. FateFits(d)'
  BY DEF ChildFits, FateFits, Staged, Logged, Same
<1> QED
  BY <1>1, <1>2, <1>3 DEF ChildFits

\* What became of the values of a child stays while none is chosen, staged or
\* taken, and a worker that still has to ask stays or comes with a new attempt.
LEMMA FateKept ==
    ASSUME AskpassTypeOK, NEW c \in Child, FateFits(c), staged'[c] = staged[c],
           fate'[c] = fate[c], c \in contexts' => c \in contexts,
           \/ /\ attempt'[c] = attempt[c]
              /\ worker'[c] \in {"lookup", "ask", "prompt"} =>
                    worker[c] \in {"lookup", "ask", "prompt"}
              /\ worker'[c] = "stage" => worker[c] = "stage"
              /\ worker[c] = "stage" => worker'[c] = "stage" \/ c \notin contexts'
           \/ /\ attempt'[c] = attempt[c] + 1
              /\ worker[c] # "stage" /\ worker'[c] # "stage"
    PROVE  FateFits(c)'
<1>1. \A n \in Typed : n \in Nat
  BY ValueFacts
<1>2. attempt[c] \in Nat
  BY ValueFacts DEF AskpassTypeOK
<1>3. \A n \in Typed : (Staged(c, n)' <=> Staged(c, n)) /\ (Logged(c, n)' <=> Logged(c, n))
  BY DEF Staged, Logged
<1>4. ASSUME NEW n \in Typed
      PROVE  /\ \A i \in 1..Len(fate'[c][n]) : fate'[c][n][i] = "reported" => i = 3
             /\ Staged(c, n)' <=> Len(fate'[c][n]) = 2
             /\ Logged(c, n)' => Len(fate'[c][n]) = 3
  BY <1>3 DEF FateFits
<1>5. ASSUME NEW n \in Typed,
             n > attempt'[c] \/ (n = attempt'[c] /\ worker'[c] \in {"lookup", "ask", "prompt"})
      PROVE  Len(fate'[c][n]) = 0
  <2>1. n \in Nat
    BY <1>1
  <2>2. n > attempt[c] \/ (n = attempt[c] /\ worker[c] \in {"lookup", "ask", "prompt"})
    BY <1>2, <1>5, <2>1
  <2> QED
    BY <2>2 DEF FateFits
<1>6. ASSUME NEW n \in Typed
      PROVE  /\ n = attempt'[c] /\ worker'[c] = "stage" => Len(fate'[c][n]) = 1
             /\ Len(fate'[c][n]) = 1 =>
                   (n = attempt'[c] /\ worker'[c] = "stage") \/ c \notin contexts'
  BY DEF FateFits
<1> QED
  BY <1>4, <1>5, <1>6 DEF FateFits

\* The reports that are due stay fewer than the children that were accepted.
LEMMA MarksKept ==
    ASSUME AskpassTypeOK, MarksFit, marks' \in Nat, marks' <= marks,
           \A d \in Child : child[d] \in {"in", "out"} => child'[d] \in {"in", "out"}
    PROVE  MarksFit'
<1> DEFINE S == {d \in Child : child[d] \in {"in", "out"}}
           Z == {d \in Child : child'[d] \in {"in", "out"}}
<1>1. S \subseteq Z /\ Z \subseteq Child
  OBVIOUS
<1>2. IsFiniteSet(Z)
  BY <1>1, ValueFacts, FS_Subset
<1>3. Cardinality(S) <= Cardinality(Z) /\ Cardinality(S) \in Nat /\ Cardinality(Z) \in Nat
  BY <1>1, <1>2, FS_Subset, FS_CardinalityType
<1>4. marks \in Nat
  BY ValueFacts, FS_CardinalityType DEF AskpassTypeOK
<1> QED
  BY <1>3, <1>4 DEF MarksFit

\* A step about child c.
LEMMA StepOf ==
    ASSUME AskpassInv, NEW c \in Child, AskpassTypeOK', MarksFit', ChildFits(c)',
           \A d \in Child \ {c} : Same(d)
    PROVE  AskpassInv'
BY SameFits DEF AskpassInv

LEMMA AskpassStarts ==
    ASSUME AskpassInit PROVE AskpassInv
<1>1. AskpassTypeOK
  <2>1. Cardinality(Child) \in Nat
    BY ValueFacts, FS_CardinalityType
  <2> QED
    BY <2>1, ValueFacts DEF AskpassInit, AskpassTypeOK
<1>2. MarksFit
  <2>1. {d \in Child : child[d] \in {"in", "out"}} \subseteq Child
    OBVIOUS
  <2>2. Cardinality({d \in Child : child[d] \in {"in", "out"}}) \in Nat
    BY <2>1, ValueFacts, FS_Subset, FS_CardinalityType
  <2> QED
    BY <2>2 DEF MarksFit, AskpassInit
<1>3. ASSUME NEW c \in Child PROVE ChildFits(c)
  <2>1. WorkFits(c) /\ RefusedFits(c) /\ OfferFits(c) /\ StagedFits(c)
    BY DEF AskpassInit, WorkFits, RefusedFits, OfferFits, StagedFits
  <2>2. FateFits(c)
    BY ValueFacts DEF AskpassInit, FateFits, Staged, Logged
  <2> QED
    BY <2>1, <2>2 DEF ChildFits
<1> QED
  BY <1>1, <1>2, <1>3 DEF AskpassInv

USE DEF ssh, serving, flags, store, history

\* OpenSSH asks: the attempt is yet to be counted.
LEMMA AskStep ==
    ASSUME AskpassInv, NEW c \in Child, Ask(c) PROVE AskpassInv'
<1>1. AskpassTypeOK /\ MarksFit /\ ChildFits(c)
  BY DEF AskpassInv
<1>0. /\ {attempt[c], asked[c], prompts[c]} \subseteq 0..MaxPrompts /\ MaxPrompts \in Nat
      /\ answer[c] \in 0..Old /\ vault[c] \in 0..Old
  BY <1>1, ValueFacts DEF AskpassTypeOK
<1>2. AskpassTypeOK'
  <2>1. asked[c] + 1 \in 0..MaxPrompts
    BY <1>0 DEF AskpassTypeOK, ChildFits, WorkFits, Ask
  <2> QED
    BY <1>1, <2>1 DEF AskpassTypeOK, Ask
<1>3. MarksFit'
  <2>1. \A d \in Child : child[d] \in {"in", "out"} => child'[d] \in {"in", "out"}
    BY <1>1 DEF AskpassTypeOK, Ask
  <2>2. marks \in Nat /\ marks' = marks
    BY <1>1, ValueFacts, FS_CardinalityType DEF AskpassTypeOK, Ask
  <2> QED
    BY <1>1, <2>1, <2>2, MarksKept
<1>4. FateFits(c)'
  BY <1>1, FateKept DEF AskpassTypeOK, ChildFits, WorkFits, Ask
<1>5. WorkFits(c)'
  BY <1>0, <1>1, ValueFacts DEF AskpassTypeOK, ChildFits, WorkFits, Ask
<1>6. RefusedFits(c)' /\ OfferFits(c)' /\ StagedFits(c)'
  BY <1>1 DEF AskpassTypeOK, ChildFits, WorkFits, RefusedFits, OfferFits, StagedFits, Ask
<1>7. \A d \in Child \ {c} : Same(d)
  BY <1>1 DEF AskpassTypeOK, Same, Ask
<1> QED
  BY <1>2, <1>3, <1>4, <1>5, <1>6, <1>7, StepOf DEF ChildFits

\* The helper prints the answer.
LEMMA ReplyStep ==
    ASSUME AskpassInv, NEW c \in Child, Reply(c) PROVE AskpassInv'
<1>1. AskpassTypeOK /\ MarksFit /\ ChildFits(c)
  BY DEF AskpassInv
<1>2. AskpassTypeOK'
  BY <1>1, ValueFacts DEF AskpassTypeOK, ChildFits, WorkFits, Reply
<1>3. MarksFit'
  <2>1. \A d \in Child : child[d] \in {"in", "out"} => child'[d] \in {"in", "out"}
    BY <1>1 DEF AskpassTypeOK, ChildFits, WorkFits, Reply
  <2>2. marks \in Nat /\ marks' = marks
    BY <1>1, ValueFacts, FS_CardinalityType DEF AskpassTypeOK, Reply
  <2> QED
    BY <1>1, <2>1, <2>2, MarksKept
<1>4. FateFits(c)'
  BY <1>1, FateKept DEF AskpassTypeOK, ChildFits, Reply
<1>5. WorkFits(c)'
  BY <1>1, ValueFacts DEF AskpassTypeOK, ChildFits, WorkFits, Reply
<1>6. RefusedFits(c)' /\ OfferFits(c)' /\ StagedFits(c)'
  BY <1>1 DEF AskpassTypeOK, ChildFits, WorkFits, RefusedFits, OfferFits, StagedFits, Reply
<1>7. \A d \in Child \ {c} : Same(d)
  BY <1>1 DEF AskpassTypeOK, Same, Reply
<1> QED
  BY <1>2, <1>3, <1>4, <1>5, <1>6, <1>7, StepOf DEF ChildFits

\* The server refuses the answer.
LEMMA RejectStep ==
    ASSUME AskpassInv, NEW c \in Child, Reject(c) PROVE AskpassInv'
<1>1. AskpassTypeOK /\ MarksFit /\ ChildFits(c)
  BY DEF AskpassInv
<1>2. AskpassTypeOK'
  BY <1>1, ValueFacts DEF AskpassTypeOK, ChildFits, WorkFits, Reject
<1>3. MarksFit'
  <2>1. \A d \in Child : child[d] \in {"in", "out"} => child'[d] \in {"in", "out"}
    BY <1>1 DEF AskpassTypeOK, Reject
  <2>2. marks \in Nat /\ marks' = marks
    BY <1>1, ValueFacts, FS_CardinalityType DEF AskpassTypeOK, Reject
  <2> QED
    BY <1>1, <2>1, <2>2, MarksKept
<1>4. FateFits(c)'
  BY <1>1, FateKept DEF AskpassTypeOK, ChildFits, Reject
<1>5. WorkFits(c)'
  BY <1>1, ValueFacts DEF AskpassTypeOK, ChildFits, WorkFits, Reject
<1>6. RefusedFits(c)' /\ OfferFits(c)' /\ StagedFits(c)'
  BY <1>1 DEF AskpassTypeOK, ChildFits, WorkFits, RefusedFits, OfferFits, StagedFits, Reject
<1>7. \A d \in Child \ {c} : Same(d)
  BY <1>1 DEF AskpassTypeOK, Same, Reject
<1> QED
  BY <1>2, <1>3, <1>4, <1>5, <1>6, <1>7, StepOf DEF ChildFits

\* The child ends.
LEMMA ExitStep ==
    ASSUME AskpassInv, NEW c \in Child, Exit(c) PROVE AskpassInv'
<1>1. AskpassTypeOK /\ MarksFit /\ ChildFits(c)
  BY DEF AskpassInv
<1>2. AskpassTypeOK'
  BY <1>1, ValueFacts DEF AskpassTypeOK, ChildFits, WorkFits, Exit
<1>3. MarksFit'
  <2>1. \A d \in Child : child[d] \in {"in", "out"} => child'[d] \in {"in", "out"}
    BY <1>1 DEF AskpassTypeOK, Exit
  <2>2. marks \in Nat /\ marks' = marks
    BY <1>1, ValueFacts, FS_CardinalityType DEF AskpassTypeOK, Exit
  <2> QED
    BY <1>1, <2>1, <2>2, MarksKept
<1>4. FateFits(c)'
  BY <1>1, FateKept DEF AskpassTypeOK, ChildFits, Exit
<1>5. WorkFits(c)'
  BY <1>1, ValueFacts DEF AskpassTypeOK, ChildFits, WorkFits, Exit
<1>6. RefusedFits(c)' /\ OfferFits(c)' /\ StagedFits(c)'
  BY <1>1 DEF AskpassTypeOK, ChildFits, WorkFits, RefusedFits, OfferFits, StagedFits, Exit
<1>7. \A d \in Child \ {c} : Same(d)
  BY <1>1 DEF AskpassTypeOK, Same, Exit
<1> QED
  BY <1>2, <1>3, <1>4, <1>5, <1>6, <1>7, StepOf DEF ChildFits

\* A worker looks whether the context was dismissed.
LEMMA CheckDismissedStep ==
    ASSUME AskpassInv, NEW c \in Child, CheckDismissed(c)
    PROVE  AskpassInv'
<1>1. AskpassTypeOK /\ MarksFit /\ ChildFits(c)
  BY DEF AskpassInv
<1>2. AskpassTypeOK'
  <2>1. 0 \in 0..Old
    BY <1>1, ValueFacts DEF AskpassTypeOK, ChildFits, WorkFits, CheckDismissed
  <2> QED
    BY <1>1, <2>1 DEF AskpassTypeOK, CheckDismissed
<1>3. MarksFit'
  <2>1. \A d \in Child : child[d] \in {"in", "out"} => child'[d] \in {"in", "out"}
    BY <1>1 DEF AskpassTypeOK, CheckDismissed
  <2>2. marks \in Nat /\ marks' = marks
    BY <1>1, ValueFacts, FS_CardinalityType DEF AskpassTypeOK, CheckDismissed
  <2> QED
    BY <1>1, <2>1, <2>2, MarksKept
<1>4. FateFits(c)'
  BY <1>1, FateKept DEF AskpassTypeOK, ChildFits, CheckDismissed
<1>5. WorkFits(c)'
  BY <1>1, ValueFacts DEF AskpassTypeOK, ChildFits, WorkFits, CheckDismissed
<1>6. RefusedFits(c)' /\ OfferFits(c)' /\ StagedFits(c)'
  BY <1>1 DEF AskpassTypeOK, ChildFits, WorkFits, RefusedFits, OfferFits, StagedFits,
     CheckDismissed
<1>7. \A d \in Child \ {c} : Same(d)
  BY <1>1 DEF AskpassTypeOK, Same, CheckDismissed
<1> QED
  BY <1>2, <1>3, <1>4, <1>5, <1>6, <1>7, StepOf DEF ChildFits

\* A worker reads the context and counts the attempt.
LEMMA BeginAttemptStep ==
    ASSUME AskpassInv, NEW c \in Child, BeginAttempt(c)
    PROVE  AskpassInv'
<1>1. AskpassTypeOK /\ MarksFit /\ ChildFits(c)
  BY DEF AskpassInv
<1>0. /\ {attempt[c], asked[c], prompts[c]} \subseteq 0..MaxPrompts /\ MaxPrompts \in Nat
      /\ answer[c] \in 0..Old /\ vault[c] \in 0..Old
  BY <1>1, ValueFacts DEF AskpassTypeOK
<1>2. AskpassTypeOK'
  <2>1. worker' \in [Child -> {"idle", "begin", "read", "lookup", "ask", "prompt", "cancelled", "stage", "reply"}]
    <3>1. worker \in [Child -> {"idle", "begin", "read", "lookup", "ask", "prompt", "cancelled", "stage", "reply"}]
      BY <1>1 DEF AskpassTypeOK
    <3> QED
      BY <3>1 DEF BeginAttempt
  <2>2. attempt' \in [Child -> 0..MaxPrompts]
    <3>1. attempt \in [Child -> 0..MaxPrompts]
      BY <1>1 DEF AskpassTypeOK
    <3>2. CASE c \notin contexts
      BY <3>1, <3>2 DEF BeginAttempt
    <3>3. CASE ~(c \notin contexts)
      <4>1. attempt[c] + 1 \in 0..MaxPrompts
        BY <1>0, <1>1, <3>3 DEF BeginAttempt, ChildFits, WorkFits
      <4>2. attempt' = [attempt EXCEPT ![c] = @ + 1]
        BY <3>3 DEF BeginAttempt
      <4> QED
        BY <3>1, <4>1, <4>2
    <3> QED
      BY <3>2, <3>3
  <2> QED
    BY <1>1, <2>1, <2>2 DEF AskpassTypeOK, BeginAttempt
<1>3. MarksFit'
  <2>1. \A d \in Child : child[d] \in {"in", "out"} => child'[d] \in {"in", "out"}
    BY <1>1 DEF AskpassTypeOK, BeginAttempt
  <2>2. marks \in Nat /\ marks' = marks
    BY <1>1, ValueFacts, FS_CardinalityType DEF AskpassTypeOK, BeginAttempt
  <2> QED
    BY <1>1, <2>1, <2>2, MarksKept
<1>4. FateFits(c)'
  BY <1>1, FateKept DEF AskpassTypeOK, ChildFits, BeginAttempt
<1>5. WorkFits(c)'
  <2>1. /\ child' = child /\ asked' = asked /\ prompts' = prompts
        /\ attempt \in [Child -> 0..MaxPrompts] /\ DOMAIN worker = Child
    BY <1>1 DEF AskpassTypeOK, BeginAttempt
  <2>2. WorkFits(c) /\ worker[c] = "read"
    BY <1>1 DEF ChildFits, BeginAttempt
  <2>3. CASE c \notin contexts
    <3>1. attempt' = attempt /\ worker'[c] = "reply"
      BY <2>1, <2>3 DEF BeginAttempt
    <3> QED
      BY <2>1, <2>2, <3>1 DEF WorkFits
  <2>4. CASE c \in contexts
    <3>1. attempt'[c] = attempt[c] + 1 /\ worker'[c] \in {"ask", "lookup"}
      BY <2>1, <2>4 DEF BeginAttempt
    <3>2. prompts[c] <= attempt[c] /\ attempt[c] < asked[c] /\ child[c] = "asking"
      BY <2>2 DEF WorkFits
    <3> QED
      BY <1>0, <2>1, <3>1, <3>2 DEF WorkFits
  <2> QED
    BY <2>3, <2>4
<1>6. RefusedFits(c)' /\ OfferFits(c)' /\ StagedFits(c)'
  BY <1>1 DEF AskpassTypeOK, ChildFits, WorkFits, RefusedFits, OfferFits, StagedFits, BeginAttempt
<1>7. \A d \in Child \ {c} : Same(d)
  BY <1>1 DEF AskpassTypeOK, Same, BeginAttempt
<1> QED
  BY <1>2, <1>3, <1>4, <1>5, <1>6, <1>7, StepOf DEF ChildFits

\* The stored value is offered.
LEMMA AutofillStep ==
    ASSUME AskpassInv, NEW c \in Child, Autofill(c) PROVE AskpassInv'
<1>1. AskpassTypeOK /\ MarksFit /\ ChildFits(c)
  BY DEF AskpassInv
<1>0. /\ {attempt[c], asked[c], prompts[c]} \subseteq 0..MaxPrompts /\ MaxPrompts \in Nat
      /\ answer[c] \in 0..Old /\ vault[c] \in 0..Old
  BY <1>1, ValueFacts DEF AskpassTypeOK
<1>2. AskpassTypeOK'
  <2>1. vault[c] \in 0..Old /\ offers[c] + 1 \in Nat
    BY <1>0, <1>1 DEF AskpassTypeOK, ChildFits, WorkFits, Autofill
  <2> QED
    BY <1>1, <2>1 DEF AskpassTypeOK, Autofill
<1>3. MarksFit'
  <2>1. \A d \in Child : child[d] \in {"in", "out"} => child'[d] \in {"in", "out"}
    BY <1>1 DEF AskpassTypeOK, Autofill
  <2>2. marks \in Nat /\ marks' = marks
    BY <1>1, ValueFacts, FS_CardinalityType DEF AskpassTypeOK, Autofill
  <2> QED
    BY <1>1, <2>1, <2>2, MarksKept
<1>4. FateFits(c)'
  BY <1>1, FateKept DEF AskpassTypeOK, ChildFits, Autofill
<1>5. WorkFits(c)'
  BY <1>0, <1>1, ValueFacts DEF AskpassTypeOK, ChildFits, WorkFits, Autofill
<1>6. RefusedFits(c)' /\ OfferFits(c)' /\ StagedFits(c)'
  BY <1>1 DEF AskpassTypeOK, ChildFits, WorkFits, RefusedFits, OfferFits, StagedFits, Autofill
<1>7. \A d \in Child \ {c} : Same(d)
  BY <1>1 DEF AskpassTypeOK, Same, Autofill
<1> QED
  BY <1>2, <1>3, <1>4, <1>5, <1>6, <1>7, StepOf DEF ChildFits

\* There is no stored value.
LEMMA LookupMissesStep ==
    ASSUME AskpassInv, NEW c \in Child, LookupMisses(c)
    PROVE  AskpassInv'
<1>1. AskpassTypeOK /\ MarksFit /\ ChildFits(c)
  BY DEF AskpassInv
<1>2. AskpassTypeOK'
  BY <1>1, ValueFacts DEF AskpassTypeOK, ChildFits, WorkFits, LookupMisses
<1>3. MarksFit'
  <2>1. \A d \in Child : child[d] \in {"in", "out"} => child'[d] \in {"in", "out"}
    BY <1>1 DEF AskpassTypeOK, LookupMisses
  <2>2. marks \in Nat /\ marks' = marks
    BY <1>1, ValueFacts, FS_CardinalityType DEF AskpassTypeOK, LookupMisses
  <2> QED
    BY <1>1, <2>1, <2>2, MarksKept
<1>4. FateFits(c)'
  BY <1>1, FateKept DEF AskpassTypeOK, ChildFits, LookupMisses
<1>5. WorkFits(c)'
  BY <1>1, ValueFacts DEF AskpassTypeOK, ChildFits, WorkFits, LookupMisses
<1>6. RefusedFits(c)' /\ OfferFits(c)' /\ StagedFits(c)'
  BY <1>1 DEF AskpassTypeOK, ChildFits, WorkFits, RefusedFits, OfferFits, StagedFits,
     LookupMisses
<1>7. \A d \in Child \ {c} : Same(d)
  BY <1>1 DEF AskpassTypeOK, Same, LookupMisses
<1> QED
  BY <1>2, <1>3, <1>4, <1>5, <1>6, <1>7, StepOf DEF ChildFits

\* A person is asked.
LEMMA CreatePromptStep ==
    ASSUME AskpassInv, NEW c \in Child, CreatePrompt(c)
    PROVE  AskpassInv'
<1>1. AskpassTypeOK /\ MarksFit /\ ChildFits(c)
  BY DEF AskpassInv
<1>0. /\ {attempt[c], asked[c], prompts[c]} \subseteq 0..MaxPrompts /\ MaxPrompts \in Nat
      /\ answer[c] \in 0..Old /\ vault[c] \in 0..Old
  BY <1>1, ValueFacts DEF AskpassTypeOK
<1>2. AskpassTypeOK'
  <2>1. worker' \in [Child -> {"idle", "begin", "read", "lookup", "ask", "prompt", "cancelled", "stage", "reply"}]
    <3>1. worker \in [Child -> {"idle", "begin", "read", "lookup", "ask", "prompt", "cancelled", "stage", "reply"}]
      BY <1>1 DEF AskpassTypeOK
    <3> QED
      BY <3>1 DEF CreatePrompt
  <2>2. prompts' \in [Child -> 0..MaxPrompts]
    <3>1. prompts \in [Child -> 0..MaxPrompts]
      BY <1>1 DEF AskpassTypeOK
    <3>2. CASE c \in passive
      BY <3>1, <3>2 DEF CreatePrompt
    <3>3. CASE ~(c \in passive)
      <4>1. prompts[c] + 1 \in 0..MaxPrompts
        BY <1>0, <1>1, <3>3 DEF CreatePrompt, ChildFits, WorkFits
      <4>2. prompts' = [prompts EXCEPT ![c] = @ + 1]
        BY <3>3 DEF CreatePrompt
      <4> QED
        BY <3>1, <4>1, <4>2
    <3> QED
      BY <3>2, <3>3
  <2> QED
    BY <1>1, <2>1, <2>2 DEF AskpassTypeOK, CreatePrompt
<1>3. MarksFit'
  <2>1. \A d \in Child : child[d] \in {"in", "out"} => child'[d] \in {"in", "out"}
    BY <1>1 DEF AskpassTypeOK, CreatePrompt
  <2>2. marks \in Nat /\ marks' = marks
    BY <1>1, ValueFacts, FS_CardinalityType DEF AskpassTypeOK, CreatePrompt
  <2> QED
    BY <1>1, <2>1, <2>2, MarksKept
<1>4. FateFits(c)'
  BY <1>1, FateKept DEF AskpassTypeOK, ChildFits, CreatePrompt
<1>5. WorkFits(c)'
  BY <1>0, <1>1, ValueFacts DEF AskpassTypeOK, ChildFits, WorkFits, CreatePrompt
<1>6. RefusedFits(c)' /\ OfferFits(c)' /\ StagedFits(c)'
  BY <1>1 DEF AskpassTypeOK, ChildFits, WorkFits, RefusedFits, OfferFits, StagedFits,
     CreatePrompt
<1>7. \A d \in Child \ {c} : Same(d)
  BY <1>1 DEF AskpassTypeOK, Same, CreatePrompt
<1> QED
  BY <1>2, <1>3, <1>4, <1>5, <1>6, <1>7, StepOf DEF ChildFits

\* A person cancels the prompt.
LEMMA DismissStep ==
    ASSUME AskpassInv, NEW c \in Child, Dismiss(c) PROVE AskpassInv'
<1>1. AskpassTypeOK /\ MarksFit /\ ChildFits(c)
  BY DEF AskpassInv
<1>2. AskpassTypeOK'
  BY <1>1, ValueFacts DEF AskpassTypeOK, ChildFits, WorkFits, Dismiss
<1>3. MarksFit'
  <2>1. \A d \in Child : child[d] \in {"in", "out"} => child'[d] \in {"in", "out"}
    BY <1>1 DEF AskpassTypeOK, Dismiss
  <2>2. marks \in Nat /\ marks' = marks
    BY <1>1, ValueFacts, FS_CardinalityType DEF AskpassTypeOK, Dismiss
  <2> QED
    BY <1>1, <2>1, <2>2, MarksKept
<1>4. FateFits(c)'
  BY <1>1, FateKept DEF AskpassTypeOK, ChildFits, Dismiss
<1>5. WorkFits(c)'
  BY <1>1, ValueFacts DEF AskpassTypeOK, ChildFits, WorkFits, Dismiss
<1>6. RefusedFits(c)' /\ OfferFits(c)' /\ StagedFits(c)'
  BY <1>1 DEF AskpassTypeOK, ChildFits, WorkFits, RefusedFits, OfferFits, StagedFits, Dismiss
<1>7. \A d \in Child \ {c} : Same(d)
  BY <1>1 DEF AskpassTypeOK, Same, Dismiss
<1> QED
  BY <1>2, <1>3, <1>4, <1>5, <1>6, <1>7, StepOf DEF ChildFits

\* The cancellation is marked in the context.
LEMMA MarkCancelledStep ==
    ASSUME AskpassInv, NEW c \in Child, MarkCancelled(c)
    PROVE  AskpassInv'
<1>1. AskpassTypeOK /\ MarksFit /\ ChildFits(c)
  BY DEF AskpassInv
<1>2. AskpassTypeOK'
  BY <1>1, ValueFacts DEF AskpassTypeOK, ChildFits, WorkFits, MarkCancelled
<1>3. MarksFit'
  <2>1. \A d \in Child : child[d] \in {"in", "out"} => child'[d] \in {"in", "out"}
    BY <1>1 DEF AskpassTypeOK, MarkCancelled
  <2>2. marks \in Nat /\ marks' = marks
    BY <1>1, ValueFacts, FS_CardinalityType DEF AskpassTypeOK, MarkCancelled
  <2> QED
    BY <1>1, <2>1, <2>2, MarksKept
<1>4. FateFits(c)'
  BY <1>1, FateKept DEF AskpassTypeOK, ChildFits, MarkCancelled
<1>5. WorkFits(c)'
  BY <1>1, ValueFacts DEF AskpassTypeOK, ChildFits, WorkFits, MarkCancelled
<1>6. RefusedFits(c)' /\ OfferFits(c)' /\ StagedFits(c)'
  BY <1>1 DEF AskpassTypeOK, ChildFits, WorkFits, RefusedFits, OfferFits, StagedFits,
     MarkCancelled
<1>7. \A d \in Child \ {c} : Same(d)
  BY <1>1 DEF AskpassTypeOK, Same, MarkCancelled
<1> QED
  BY <1>2, <1>3, <1>4, <1>5, <1>6, <1>7, StepOf DEF ChildFits

\* The prompt ends unanswered.
LEMMA UnansweredStep ==
    ASSUME AskpassInv, NEW c \in Child, Unanswered(c)
    PROVE  AskpassInv'
<1>1. AskpassTypeOK /\ MarksFit /\ ChildFits(c)
  BY DEF AskpassInv
<1>2. AskpassTypeOK'
  BY <1>1, ValueFacts DEF AskpassTypeOK, ChildFits, WorkFits, Unanswered
<1>3. MarksFit'
  <2>1. \A d \in Child : child[d] \in {"in", "out"} => child'[d] \in {"in", "out"}
    BY <1>1 DEF AskpassTypeOK, Unanswered
  <2>2. marks \in Nat /\ marks' = marks
    BY <1>1, ValueFacts, FS_CardinalityType DEF AskpassTypeOK, Unanswered
  <2> QED
    BY <1>1, <2>1, <2>2, MarksKept
<1>4. FateFits(c)'
  BY <1>1, FateKept DEF AskpassTypeOK, ChildFits, Unanswered
<1>5. WorkFits(c)'
  BY <1>1, ValueFacts DEF AskpassTypeOK, ChildFits, WorkFits, Unanswered
<1>6. RefusedFits(c)' /\ OfferFits(c)' /\ StagedFits(c)'
  BY <1>1 DEF AskpassTypeOK, ChildFits, WorkFits, RefusedFits, OfferFits, StagedFits, Unanswered
<1>7. \A d \in Child \ {c} : Same(d)
  BY <1>1 DEF AskpassTypeOK, Same, Unanswered
<1> QED
  BY <1>2, <1>3, <1>4, <1>5, <1>6, <1>7, StepOf DEF ChildFits

\* The server accepts: one child more, one report more.
LEMMA AcceptStep ==
    ASSUME AskpassInv, NEW c \in Child, Accept(c) PROVE AskpassInv'
<1>1. AskpassTypeOK /\ MarksFit /\ ChildFits(c)
  BY DEF AskpassInv
<1>2. MarksFit' /\ marks' \in 0..Cardinality(Child)
  <2> DEFINE S == {d \in Child : child[d] \in {"in", "out"}}
             Z == {d \in Child : child'[d] \in {"in", "out"}}
  <2>1. Z = S \union {c} /\ c \notin S /\ S \subseteq Child /\ Z \subseteq Child
    BY <1>1 DEF AskpassTypeOK, Accept
  <2>2. IsFiniteSet(S) /\ IsFiniteSet(Z)
    BY <2>1, ValueFacts, FS_Subset
  <2>3. Cardinality(Z) = Cardinality(S) + 1 /\ Cardinality(S) \in Nat
    BY <2>1, <2>2, FS_AddElement, FS_CardinalityType
  <2>4. Cardinality(Z) <= Cardinality(Child) /\ Cardinality(Child) \in Nat
    BY <2>1, ValueFacts, FS_Subset, FS_CardinalityType
  <2>5. marks \in Nat /\ marks <= Cardinality(S) /\ marks' = marks + 1
    BY <1>1, <2>4 DEF AskpassTypeOK, MarksFit, Accept
  <2>6. marks' <= Cardinality(Z) /\ marks' \in 0..Cardinality(Child)
    BY <2>3, <2>4, <2>5
  <2> QED
    BY <2>6 DEF MarksFit
<1>3. AskpassTypeOK'
  <2>1. answer[c] \in 0..Old
    BY <1>1 DEF AskpassTypeOK
  <2> QED
    BY <1>1, <1>2, <2>1, ValueFacts DEF AskpassTypeOK, Accept
<1>4. FateFits(c)'
  BY <1>1, FateKept DEF AskpassTypeOK, ChildFits, Accept
<1>5. WorkFits(c)'
  BY <1>1 DEF AskpassTypeOK, ChildFits, WorkFits, Accept
<1>6. RefusedFits(c)' /\ OfferFits(c)' /\ StagedFits(c)'
  BY <1>1 DEF AskpassTypeOK, ChildFits, RefusedFits, OfferFits, StagedFits, Accept
<1>7. \A d \in Child \ {c} : Same(d)
  BY <1>1 DEF AskpassTypeOK, Same, Accept
<1> QED
  BY <1>2, <1>3, <1>4, <1>5, <1>6, <1>7, StepOf DEF ChildFits

\* A new report of an authentication, and the storage of a value, concern no child.
LEMMA OwnerStep ==
    ASSUME AskpassInv, MarkAuthenticated \/ StoreItem
    PROVE  AskpassInv'
<1>1. AskpassTypeOK /\ MarksFit
  BY DEF AskpassInv
<1>2. Cardinality(Child) \in Nat
  BY ValueFacts, FS_CardinalityType
<1>3. CASE MarkAuthenticated
  <2>1. marks \in Nat /\ marks' = marks - 1 /\ marks' \in 0..Cardinality(Child) /\ child' = child
    BY <1>1, <1>2, <1>3, ValueFacts DEF AskpassTypeOK, MarkAuthenticated
  <2>2. AskpassTypeOK'
    BY <1>1, <1>3, <2>1, ValueFacts DEF AskpassTypeOK, MarkAuthenticated
  <2>3. MarksFit'
    BY <1>1, <2>1, MarksKept
  <2>4. \A d \in Child : Same(d)
    BY <1>3 DEF Same, MarkAuthenticated
  <2> QED
    BY <2>2, <2>3, <2>4, SameFits DEF AskpassInv
<1>4. CASE StoreItem
  <2>1. items \in Seq(Child \X Typed) /\ items # <<>>
    BY <1>1, <1>4 DEF AskpassTypeOK, StoreItem
  <2>2. Head(items) \in Child \X Typed /\ Tail(items) \in Seq(Child \X Typed)
    BY <2>1
  <2>3. Head(items)[1] \in Child /\ Head(items)[2] \in 0..Old
    BY <2>2, ValueFacts
  <2>4. vault' \in [Child -> 0..Old]
    <3>1. vault \in [Child -> 0..Old]
      BY <1>1 DEF AskpassTypeOK
    <3>2. vault' = vault \/ vault' = [vault EXCEPT ![Head(items)[1]] = Head(items)[2]]
      BY <1>4 DEF StoreItem
    <3> QED
      BY <2>3, <3>1, <3>2
  <2>5. AskpassTypeOK'
    BY <1>1, <1>4, <2>2, <2>4 DEF AskpassTypeOK, StoreItem
  <2>6. MarksFit'
    BY <1>1, <1>4 DEF MarksFit, StoreItem
  <2>7. \A d \in Child : Same(d)
    BY <1>4 DEF Same, StoreItem
  <2> QED
    BY <2>5, <2>6, <2>7, SameFits DEF AskpassInv
<1> QED
  BY <1>3, <1>4

\* A fate grows at its end.
LEMMA FateGrows ==
    ASSUME NEW f \in Seq(Fates), NEW v \in Fates,
           \A i \in 1..Len(f) : f[i] = "reported" => i = 3
    PROVE  /\ Append(f, v) \in Seq(Fates) /\ Len(Append(f, v)) = Len(f) + 1 /\ Len(f) \in Nat
           /\ v # "reported" \/ Len(f) = 2 =>
                \A i \in 1..Len(Append(f, v)) : Append(f, v)[i] = "reported" => i = 3
<1>1. /\ Append(f, v) \in Seq(Fates) /\ Len(Append(f, v)) = Len(f) + 1
      /\ \A i \in 1..Len(f) : Append(f, v)[i] = f[i]
      /\ Append(f, v)[Len(f)+1] = v
  BY AppendProperties
<1>2. Len(f) \in Nat
  OBVIOUS
<1>3. v # "reported" \/ Len(f) = 2 =>
         \A i \in 1..Len(Append(f, v)) : Append(f, v)[i] = "reported" => i = 3
  <2> SUFFICES ASSUME v # "reported" \/ Len(f) = 2,
                      NEW i \in 1..Len(Append(f, v)), Append(f, v)[i] = "reported"
               PROVE  i = 3
    OBVIOUS
  <2>1. i \in 1..Len(f) \/ i = Len(f) + 1
    BY <1>1, <1>2
  <2>2. CASE i \in 1..Len(f)
    BY <1>1, <2>2
  <2>3. CASE i = Len(f) + 1
    <3>1. v = "reported"
      BY <1>1, <2>3
    <3>2. Len(f) = 2
      BY <3>1
    <3> QED
      BY <2>3, <3>2
  <2> QED
    BY <2>1, <2>2, <2>3
<1> QED
  BY <1>1, <1>2, <1>3

\* A value that is staged too late: its loss is the third entry.
LEMMA FateStagedLate ==
    ASSUME NEW f \in Seq(Fates), Len(f) = 1, f[1] # "reported"
    PROVE  /\ f \o <<"staged", "reported">> \in Seq(Fates)
           /\ Len(f \o <<"staged", "reported">>) = 3
           /\ \A i \in 1..3 : (f \o <<"staged", "reported">>)[i] = "reported" => i = 3
<1> DEFINE q == <<"staged", "reported">>
<1>1. q \in Seq(Fates) /\ Len(q) = 2 /\ q[1] = "staged"
  BY DEF Fates
<1> HIDE DEF q
<1>2. /\ f \o q \in Seq(Fates) /\ Len(f \o q) = Len(f) + Len(q)
      /\ \A i \in 1..Len(f) + Len(q) : (f \o q)[i] = IF i <= Len(f) THEN f[i] ELSE q[i - Len(f)]
  BY <1>1, ConcatProperties
<1>3. Len(f \o q) = 3
  BY <1>1, <1>2
<1>4. (f \o q)[1] = f[1]
  BY <1>1, <1>2
<1>5. (f \o q)[2] = "staged"
  <2>1. 2 \in 1..Len(f) + Len(q) /\ ~(2 <= Len(f)) /\ 2 - Len(f) = 1
    BY <1>1
  <2>2. (f \o q)[2] = q[2 - Len(f)]
    BY <1>2, <2>1
  <2> QED
    BY <1>1, <2>1, <2>2
<1>6. \A i \in 1..3 : i = 1 \/ i = 2 \/ i = 3
  OBVIOUS
<1>7. \A i \in 1..3 : (f \o q)[i] = "reported" => i = 3
  BY <1>4, <1>5, <1>6
<1> QED
  BY <1>2, <1>3, <1>7 DEF q

\* What is known of the fate of value n before a step.
LEMMA FateFacts ==
    ASSUME AskpassTypeOK, NEW c \in Child, FateFits(c), NEW n \in Typed
    PROVE  /\ fate[c][n] \in Seq(Fates) /\ Len(fate[c][n]) \in Nat /\ n \in Nat
           /\ \A i \in 1..Len(fate[c][n]) : fate[c][n][i] = "reported" => i = 3
           /\ Staged(c, n) <=> Len(fate[c][n]) = 2
           /\ Logged(c, n) => Len(fate[c][n]) = 3
           /\ n > attempt[c] \/ (n = attempt[c] /\ worker[c] \in {"lookup", "ask", "prompt"})
                 => Len(fate[c][n]) = 0
           /\ n = attempt[c] /\ worker[c] = "stage" => Len(fate[c][n]) = 1
           /\ Len(fate[c][n]) = 1 => (n = attempt[c] /\ worker[c] = "stage") \/ c \notin contexts
<1>1. fate[c][n] \in Seq(Fates)
  BY DEF AskpassTypeOK
<1>2. Len(fate[c][n]) \in Nat /\ n \in Nat
  BY <1>1, ValueFacts
<1> QED
  BY <1>1, <1>2 DEF FateFits

\* What a person typed is named after the attempt.
LEMMA SubmitStep ==
    ASSUME AskpassInv, NEW c \in Child, NEW keep \in BOOLEAN,
           Submit(c, keep)
    PROVE  AskpassInv'
<1>1. AskpassTypeOK /\ MarksFit /\ ChildFits(c)
  BY DEF AskpassInv
<1>0. /\ worker[c] = "prompt" /\ attempt[c] \in Typed /\ attempt' = attempt
      /\ contexts' = contexts /\ staged' = staged
      /\ worker'[c] = IF keep THEN "stage" ELSE "reply"
  BY <1>1, ValueFacts DEF AskpassTypeOK, ChildFits, WorkFits, Submit
<1>4. /\ fate' = [d \in Child |-> fate'[d]] /\ fate'[c] = [n \in Typed |-> fate'[c][n]]
      /\ \A d \in Child \ {c} : fate'[d] = fate[d]
      /\ \A n \in Typed : /\ fate'[c][n] \in Seq(Fates)
                          /\ fate'[c][n] = IF keep /\ n = attempt[c]
                                           THEN Append(fate[c][n], "chosen") ELSE fate[c][n]
  <2>1. fate \in [Child -> [Typed -> Seq(Fates)]] /\ "chosen" \in Fates
    BY <1>1 DEF AskpassTypeOK, Fates
  <2>2. fate' = IF keep THEN [fate EXCEPT ![c][attempt[c]] = Append(@, "chosen")] ELSE fate
    BY DEF Submit
  <2>3. CASE keep
    <3>1. PICK m \in Typed : m = attempt[c]
      BY <1>0
    <3>2. PICK g \in Seq(Fates) : g = Append(fate[c][m], "chosen")
      <4>1. PICK v \in Fates : v = "chosen"
        BY <2>1
      <4>2. PICK e \in Seq(Fates) : e = fate[c][m]
        BY <2>1
      <4>3. Append(e, v) \in Seq(Fates)
        OBVIOUS
      <4> QED
        BY <4>1, <4>2, <4>3
    <3>3. PICK h \in [Typed -> Seq(Fates)] : h = [fate[c] EXCEPT ![m] = g]
      BY <2>1
    <3>4. fate' = [fate EXCEPT ![c] = h]
      BY <2>2, <2>3, <3>1, <3>2, <3>3
    <3>5. fate'[c] = h /\ fate' \in [Child -> [Typed -> Seq(Fates)]]
      BY <2>1, <3>4
    <3>6. \A n \in Typed : h[n] = IF n = m THEN g ELSE fate[c][n]
      BY <2>1, <3>3
    <3>7. \A d \in Child \ {c} : fate'[d] = fate[d]
      BY <2>1, <3>4
    <3> QED
      BY <2>3, <3>1, <3>2, <3>5, <3>6, <3>7
  <2>4. CASE ~keep
    BY <2>1, <2>2, <2>4
  <2> QED
    BY <2>3, <2>4
<1>2. AskpassTypeOK'
  <2>1. attempt[c] \in 0..Old
    BY <1>1, ValueFacts DEF AskpassTypeOK
  <2>2. fate' \in [Child -> [Typed -> Seq(Fates)]]
    <3>1. fate \in [Child -> [Typed -> Seq(Fates)]]
      BY <1>1 DEF AskpassTypeOK
    <3>2. fate'[c] \in [Typed -> Seq(Fates)]
      BY <1>4, <3>1
    <3> QED
      BY <1>4, <3>1, <3>2
  <2>3. UNCHANGED <<ssh, contexts, attempt, flags, staged, store, offers, refused, prompts>>
    BY DEF Submit
  <2>4. /\ worker' \in [Child -> {"idle", "begin", "read", "lookup", "ask", "prompt",
                                  "cancelled", "stage", "reply"}]
        /\ answer' \in [Child -> 0..Old] /\ remember' \in [Child -> BOOLEAN]
    BY <1>1, <2>1 DEF AskpassTypeOK, Submit
  <2> QED
    BY <1>1, <2>2, <2>3, <2>4 DEF AskpassTypeOK
<1>3. MarksFit'
  BY <1>1 DEF MarksFit, Submit
<1>8. FateFits(c)'
  <2>1. \A n : (Staged(c, n)' <=> Staged(c, n)) /\ (Logged(c, n)' <=> Logged(c, n))
    BY <1>0 DEF Staged, Logged
  <2>2. ASSUME NEW n \in Typed
        PROVE  /\ \A i \in 1..Len(fate'[c][n]) : fate'[c][n][i] = "reported" => i = 3
               /\ Staged(c, n)' <=> Len(fate'[c][n]) = 2
               /\ Logged(c, n)' => Len(fate'[c][n]) = 3
               /\ n > attempt[c] => Len(fate'[c][n]) = 0
               /\ n = attempt[c] /\ worker'[c] = "stage" => Len(fate'[c][n]) = 1
               /\ Len(fate'[c][n]) = 1 =>
                     (n = attempt[c] /\ worker'[c] = "stage") \/ c \notin contexts
    <3>1. PICK f \in Seq(Fates) : f = fate[c][n]
      BY <1>1, FateFacts DEF ChildFits
    <3>2. /\ Len(f) \in Nat /\ n \in Nat
          /\ \A i \in 1..Len(f) : f[i] = "reported" => i = 3
          /\ Staged(c, n) <=> Len(f) = 2
          /\ Logged(c, n) => Len(f) = 3
          /\ n > attempt[c] \/ n = attempt[c] => Len(f) = 0
          /\ Len(f) = 1 => c \notin contexts
      BY <1>0, <1>1, <3>1, FateFacts DEF ChildFits
    <3>3. attempt[c] \in Nat
      BY <1>0, ValueFacts
    <3>4. CASE keep /\ n = attempt[c]
      <4>1. PICK v \in Fates : v = "chosen" /\ v # "reported"
        BY DEF Fates
      <4>2. /\ Len(Append(f, v)) = Len(f) + 1
            /\ \A i \in 1..Len(Append(f, v)) : Append(f, v)[i] = "reported" => i = 3
        BY <3>2, <4>1, FateGrows
      <4>3. fate'[c][n] = Append(f, v)
        BY <1>4, <3>1, <3>4, <4>1
      <4>4. Len(fate'[c][n]) = 1 /\ worker'[c] = "stage" /\ ~(n > attempt[c])
        BY <1>0, <3>2, <3>3, <3>4, <4>2, <4>3
      <4> QED
        BY <2>1, <3>2, <3>4, <4>2, <4>3, <4>4
    <3>5. CASE ~(keep /\ n = attempt[c])
      <4>1. fate'[c][n] = f
        BY <1>4, <3>1, <3>5
      <4>2. n = attempt[c] => worker'[c] # "stage"
        BY <1>0, <3>5
      <4> QED
        BY <2>1, <3>2, <4>1, <4>2
    <3> QED
      BY <3>4, <3>5
  <2>3. worker'[c] \notin {"lookup", "ask", "prompt"}
    BY <1>0
  <2> QED
    BY <1>0, <2>2, <2>3 DEF FateFits
<1>5. WorkFits(c)'
  BY <1>1 DEF AskpassTypeOK, ChildFits, WorkFits, Submit
<1>6. RefusedFits(c)' /\ OfferFits(c)' /\ StagedFits(c)'
  BY <1>1 DEF AskpassTypeOK, ChildFits, RefusedFits, OfferFits, StagedFits, Submit
<1>7. \A d \in Child \ {c} : Same(d)
  BY <1>1, <1>4 DEF AskpassTypeOK, Same, Submit
<1> QED
  BY <1>2, <1>3, <1>8, <1>5, <1>6, <1>7, StepOf DEF ChildFits

\* A value is staged in one place of the context or in none.
LEMMA StagedFacts ==
    ASSUME AskpassTypeOK, NEW c \in Child
    PROVE  /\ staged[c] \in Seq(Pending) /\ Len(staged[c]) \in Nat
           /\ \A k \in 1..Len(staged[c]) : /\ staged[c][k].value \in Typed
                                           /\ staged[c][k].reported \in BOOLEAN
           /\ \A n : (\E k \in 1..Len(staged[c]) : staged[c][k].value = n)
                        <=> Logged(c, n) \/ Staged(c, n)
           /\ \A n : (\E k \in 1..Len(staged[c]) :
                         staged[c][k] = [value |-> n, reported |-> FALSE]) <=> Staged(c, n)
<1>1. staged[c] \in Seq(Pending) /\ Len(staged[c]) \in Nat
  BY DEF AskpassTypeOK
<1>2. ASSUME NEW k \in 1..Len(staged[c])
      PROVE  /\ staged[c][k].value \in Typed /\ staged[c][k].reported \in BOOLEAN
             /\ staged[c][k] = [value |-> staged[c][k].value, reported |-> staged[c][k].reported]
  <2>1. staged[c][k] \in Pending
    BY <1>1
  <2> QED
    BY <2>1 DEF Pending
<1>3. ASSUME NEW n
      PROVE  (\E k \in 1..Len(staged[c]) : staged[c][k].value = n)
                        <=> Logged(c, n) \/ Staged(c, n)
  BY <1>2 DEF Staged, Logged
<1>4. ASSUME NEW n
      PROVE  (\E k \in 1..Len(staged[c]) :
                 staged[c][k] = [value |-> n, reported |-> FALSE]) <=> Staged(c, n)
  <2>1. ASSUME NEW k \in 1..Len(staged[c]), staged[c][k] = [value |-> n, reported |-> FALSE]
        PROVE  Staged(c, n)
    <3>1. staged[c][k].value = n /\ staged[c][k].reported = FALSE
      BY <2>1
    <3> QED
      BY <3>1 DEF Staged
  <2>2. ASSUME NEW k \in 1..Len(staged[c]), staged[c][k].value = n, ~staged[c][k].reported
        PROVE  staged[c][k] = [value |-> n, reported |-> FALSE]
    BY <1>2, <2>2
  <2> QED
    BY <2>1, <2>2 DEF Staged
<1> QED
  BY <1>1, <1>2, <1>3, <1>4

\* What is staged in a context is taken for the backend.
LEMMA TakeStep ==
    ASSUME AskpassInv, NEW c \in Child, TakeStaged(c)
    PROVE  AskpassInv'
<1>1. AskpassTypeOK /\ MarksFit /\ ChildFits(c)
  BY DEF AskpassInv
<1>2. CASE c \notin contexts
  <2>1. AskpassTypeOK'
    BY <1>1, <1>2 DEF AskpassTypeOK, TakeStaged
  <2>2. MarksFit'
    BY <1>1 DEF MarksFit, TakeStaged
  <2>3. \A d \in Child : Same(d)
    BY <1>2 DEF Same, TakeStaged
  <2> QED
    BY <2>1, <2>2, <2>3, SameFits DEF AskpassInv
<1>3. CASE c \in contexts
  <2>1. /\ staged' = [staged EXCEPT ![c] = <<>>] /\ committed' = committed \union {c}
        /\ items' = [n \in 1..Len(staged[c]) |-> <<c, staged[c][n].value>>]
        /\ saver' = saver \ {c}
        /\ UNCHANGED <<ssh, serving, contexts, attempt, passive, tried, dismissed, vault, marks,
                       offers, refused, prompts>>
    BY <1>3 DEF TakeStaged
  <2>2. fate' = [fate EXCEPT ![c] =
                   [n \in Typed |->
                       IF \E k \in 1..Len(staged[c]) : staged[c][k].value = n
                       THEN Append(@[n], "taken") ELSE @[n]]]
    BY <1>3 DEF TakeStaged
  <2>3. fate \in [Child -> [Typed -> Seq(Fates)]] /\ staged \in [Child -> Seq(Pending)]
    BY <1>1 DEF AskpassTypeOK
  <2>4. ASSUME NEW n \in Typed
        PROVE  fate'[c][n] = IF Logged(c, n) \/ Staged(c, n)
                             THEN Append(fate[c][n], "taken") ELSE fate[c][n]
    <3>1. fate'[c][n] = IF \E k \in 1..Len(staged[c]) : staged[c][k].value = n
                        THEN Append(fate[c][n], "taken") ELSE fate[c][n]
      BY <2>2, <2>3
    <3>2. (\E k \in 1..Len(staged[c]) : staged[c][k].value = n)
             <=> Logged(c, n) \/ Staged(c, n)
      BY <1>1, StagedFacts
    <3> QED
      BY <3>1, <3>2
  <2>5. ASSUME NEW n \in Typed
        PROVE  /\ fate'[c][n] \in Seq(Fates)
               /\ \A i \in 1..Len(fate'[c][n]) : fate'[c][n][i] = "reported" => i = 3
               /\ Len(fate'[c][n]) # 2
               /\ Len(fate[c][n]) <= 1 => Len(fate'[c][n]) = Len(fate[c][n])
               /\ Len(fate'[c][n]) = 1 => Len(fate[c][n]) = 1
    <3>1. /\ fate[c][n] \in Seq(Fates) /\ Len(fate[c][n]) \in Nat
          /\ \A i \in 1..Len(fate[c][n]) : fate[c][n][i] = "reported" => i = 3
          /\ Staged(c, n) <=> Len(fate[c][n]) = 2
          /\ Logged(c, n) => Len(fate[c][n]) = 3
      BY <1>1, FateFacts DEF ChildFits
    <3>2. CASE Logged(c, n) \/ Staged(c, n)
      <4>1. fate'[c][n] = Append(fate[c][n], "taken") /\ "taken" \in Fates /\ "taken" # "reported"
        BY <2>4, <3>2 DEF Fates
      <4>2. PICK f \in Seq(Fates) : f = fate[c][n]
        BY <3>1
      <4>3. PICK v \in Fates : v = "taken"
        BY <4>1
      <4>4. /\ Append(f, v) \in Seq(Fates) /\ Len(Append(f, v)) = Len(f) + 1 /\ Len(f) \in Nat
            /\ \A i \in 1..Len(Append(f, v)) : Append(f, v)[i] = "reported" => i = 3
        BY <3>1, <4>2, <4>3, FateGrows
      <4>5. Len(f) \in {2, 3}
        BY <3>1, <3>2, <4>2
      <4> QED
        BY <4>1, <4>2, <4>3, <4>4, <4>5
    <3>3. CASE ~(Logged(c, n) \/ Staged(c, n))
      <4>1. fate'[c][n] = fate[c][n]
        BY <2>4, <3>3
      <4> QED
        BY <3>1, <3>3, <4>1
    <3> QED
      BY <3>2, <3>3
  <2>6. \A d \in Child \ {c} : fate'[d] = fate[d]
    BY <2>2, <2>3
  <2>7. fate' \in [Child -> [Typed -> Seq(Fates)]]
    <3>1. fate'[c] \in [Typed -> Seq(Fates)]
      <4>1. fate'[c] = [n \in Typed |-> fate'[c][n]]
        BY <2>2, <2>3
      <4> QED
        BY <2>5, <4>1
    <3>2. fate' = [d \in Child |-> fate'[d]]
      BY <2>2, <2>3
    <3> QED
      BY <2>3, <2>6, <3>1, <3>2
  <2>8. items' \in Seq(Child \X Typed)
    <3>1. \A n \in 1..Len(staged[c]) : <<c, staged[c][n].value>> \in Child \X Typed
      BY <1>1, StagedFacts
    <3>2. Len(staged[c]) \in Nat
      BY <1>1, StagedFacts
    <3> QED
      BY <2>1, <3>1, <3>2
  <2>9. AskpassTypeOK'
    <3>1. staged' \in [Child -> Seq(Pending)]
      <4>1. <<>> \in Seq(Pending)
        OBVIOUS
      <4> QED
        BY <2>1, <2>3, <4>1
    <3>2. committed' \subseteq Child /\ saver' \subseteq Child
      BY <1>1, <2>1 DEF AskpassTypeOK
    <3> QED
      BY <1>1, <2>1, <2>7, <2>8, <3>1, <3>2 DEF AskpassTypeOK
  <2>10. MarksFit'
    BY <1>1, <2>1 DEF MarksFit
  <2>11. FateFits(c)'
    <3>1. staged'[c] = <<>> /\ attempt' = attempt /\ worker' = worker
      BY <2>1, <2>3
    <3>2. \A n : ~Staged(c, n)' /\ ~Logged(c, n)'
      BY <3>1 DEF Staged, Logged
    <3>3. FateFits(c)
      BY <1>1 DEF ChildFits
    <3>4. contexts' = contexts
      BY <2>1
    <3>5. \A n \in Typed : Len(fate[c][n]) \in Nat
      BY <1>1, FateFacts DEF ChildFits
    <3> QED
      BY <2>5, <3>1, <3>2, <3>3, <3>4, <3>5 DEF FateFits
  <2>12. WorkFits(c)' /\ RefusedFits(c)' /\ OfferFits(c)'
    BY <1>1, <2>1 DEF ChildFits, WorkFits, RefusedFits, OfferFits
  <2>13. StagedFits(c)'
    <3>1. staged'[c] = <<>>
      BY <2>1, <2>3
    <3> QED
      BY <3>1 DEF StagedFits
  <2>14. \A d \in Child \ {c} : Same(d)
    BY <2>1, <2>3, <2>6 DEF Same
  <2> QED
    BY <2>9, <2>10, <2>11, <2>12, <2>13, <2>14, StepOf DEF ChildFits
<1> QED
  BY <1>2, <1>3

\* The value of the present attempt joins what is staged, after what it replaces.
LEMMA StagedNext ==
    ASSUME AskpassTypeOK, NEW c \in Child, StagedFits(c), NEW a \in Typed,
           NEW late \in BOOLEAN,
           staged' = [staged EXCEPT ![c] = Append(Kept(c), [value |-> a, reported |-> late])]
    PROVE  /\ staged' \in [Child -> Seq(Pending)]
           /\ c \notin Passphrase => Len(staged'[c]) <= 1
           /\ \A n : Staged(c, n)' <=> (n = a /\ ~late) \/ (c \in Passphrase /\ Staged(c, n))
           /\ \A n : Logged(c, n)' <=> (n = a /\ late) \/ (c \in Passphrase /\ Logged(c, n))
           /\ {staged[c][k].value : k \in 1..Len(staged[c]) \ 1..Len(Kept(c))}
                 = IF c \in Passphrase THEN {}
                   ELSE {n \in Typed : Logged(c, n) \/ Staged(c, n)}
<1> DEFINE r == [value |-> a, reported |-> late]
<1>0. r \in Pending /\ r.value = a /\ r.reported = late
  BY DEF Pending
<1>1. /\ staged \in [Child -> Seq(Pending)] /\ staged[c] \in Seq(Pending)
      /\ Kept(c) \in Seq(Pending)
  BY DEF AskpassTypeOK, Kept
<1>2. PICK e \in Pending : e = r
  BY <1>0
<1> HIDE DEF r
<1>3. staged'[c] = Append(Kept(c), e)
  BY <1>1, <1>2 DEF r
<1>4. /\ Append(Kept(c), e) \in Seq(Pending) /\ Len(Append(Kept(c), e)) = Len(Kept(c)) + 1
      /\ \A i \in 1..Len(Kept(c)) : Append(Kept(c), e)[i] = Kept(c)[i]
      /\ Append(Kept(c), e)[Len(Kept(c)) + 1] = e
      /\ Len(Kept(c)) \in Nat
  BY <1>1, AppendProperties
<1>5. staged' \in [Child -> Seq(Pending)]
  <2>1. staged' = [staged EXCEPT ![c] = Append(Kept(c), e)]
    BY <1>2 DEF r
  <2> QED
    BY <1>1, <1>4, <2>1
<1>6. ASSUME NEW n
      PROVE  /\ Staged(c, n)' <=> \/ n = a /\ ~late
                                  \/ \E k \in 1..Len(Kept(c)) :
                                       Kept(c)[k].value = n /\ ~Kept(c)[k].reported
             /\ Logged(c, n)' <=> \/ n = a /\ late
                                  \/ \E k \in 1..Len(Kept(c)) :
                                       Kept(c)[k].value = n /\ Kept(c)[k].reported
  <2>1. e.value = a /\ (e.reported <=> late)
    BY <1>0, <1>2
  <2>2. /\ Staged(c, n)' <=> \E k \in 1..(Len(Kept(c)) + 1) :
             staged'[c][k].value = n /\ ~staged'[c][k].reported
        /\ Logged(c, n)' <=> \E k \in 1..(Len(Kept(c)) + 1) :
             staged'[c][k].value = n /\ staged'[c][k].reported
    BY <1>3, <1>4 DEF Staged, Logged
  <2>3. \A k \in 1..Len(Kept(c)) : k \in 1..(Len(Kept(c)) + 1) /\ staged'[c][k] = Kept(c)[k]
    BY <1>3, <1>4
  <2>4. Len(Kept(c)) + 1 \in 1..(Len(Kept(c)) + 1) /\ staged'[c][Len(Kept(c)) + 1] = e
    BY <1>3, <1>4
  <2>5. \A k \in 1..(Len(Kept(c)) + 1) : k \in 1..Len(Kept(c)) \/ k = Len(Kept(c)) + 1
    BY <1>4
  <2> QED
    BY <2>1, <2>2, <2>3, <2>4, <2>5
<1>7. CASE c \in Passphrase
  <2>1. Kept(c) = staged[c]
    BY <1>7 DEF Kept
  <2>2. {staged[c][k].value : k \in 1..Len(staged[c]) \ 1..Len(Kept(c))} = {}
    BY <2>1
  <2>3. \A n : /\ Staged(c, n)' <=> (n = a /\ ~late) \/ Staged(c, n)
               /\ Logged(c, n)' <=> (n = a /\ late) \/ Logged(c, n)
    BY <1>6, <2>1 DEF Staged, Logged
  <2> QED
    BY <1>5, <1>7, <2>2, <2>3
<1>8. CASE c \notin Passphrase
  <2>1. Kept(c) = <<>> /\ Len(Kept(c)) = 0 /\ 1..Len(Kept(c)) = {}
    BY <1>8 DEF Kept
  <2>2. \A n : (Staged(c, n)' <=> n = a /\ ~late) /\ (Logged(c, n)' <=> n = a /\ late)
    BY <1>6, <2>1
  <2>3. Len(staged'[c]) <= 1
    <3>1. Len(staged'[c]) = Len(Kept(c)) + 1
      BY <1>3, <1>4
    <3>2. Len(staged'[c]) = 0 + 1
      BY <2>1, <3>1, Zenon
    <3>3. 0 + 1 <= 1
      OBVIOUS
    <3> QED
      BY <3>2, <3>3, Zenon
  <2>4. {staged[c][k].value : k \in 1..Len(staged[c]) \ 1..Len(Kept(c))}
           = {n \in Typed : Logged(c, n) \/ Staged(c, n)}
    <3>1. 1..Len(staged[c]) \ 1..Len(Kept(c)) = 1..Len(staged[c])
      BY <2>1
    <3>2. \A k \in 1..Len(staged[c]) : staged[c][k].value \in Typed
      BY StagedFacts
    <3>3. \A n : (\E k \in 1..Len(staged[c]) : staged[c][k].value = n)
                    <=> Logged(c, n) \/ Staged(c, n)
      BY StagedFacts
    <3> QED
      BY <3>1, <3>2, <3>3
  <2> QED
    BY <1>5, <1>8, <2>2, <2>3, <2>4
<1> QED
  BY <1>7, <1>8

\* A worker stages the value of its attempt, unless the context is closed.
LEMMA StageStep ==
    ASSUME AskpassInv, NEW c \in Child, Stage(c) PROVE AskpassInv'
<1>1. AskpassTypeOK /\ MarksFit /\ ChildFits(c) /\ WorkFits(c) /\ StagedFits(c) /\ FateFits(c)
  BY DEF AskpassInv, ChildFits
<1>2. /\ worker[c] = "stage" /\ worker' = [worker EXCEPT ![c] = "reply"]
      /\ UNCHANGED <<ssh, answer, remember, contexts, attempt, flags, store, offers, refused,
                     prompts>>
  BY DEF Stage
<1>3. /\ worker' \in [Child -> {"idle", "begin", "read", "lookup", "ask", "prompt",
                                "cancelled", "stage", "reply"}]
      /\ worker'[c] = "reply" /\ \A d \in Child \ {c} : worker'[d] = worker[d]
  BY <1>1, <1>2 DEF AskpassTypeOK
<1>4. MarksFit'
  BY <1>1, <1>2 DEF MarksFit
<1>5. WorkFits(c)' /\ RefusedFits(c)' /\ OfferFits(c)'
  <2>1. child[c] = "asking" /\ RefusedFits(c) /\ OfferFits(c)
    BY <1>1, <1>2 DEF ChildFits, WorkFits
  <2> QED
    BY <1>1, <1>2, <1>3, <2>1 DEF WorkFits, RefusedFits, OfferFits
<1>6. CASE c \notin contexts
  <2>1. staged' = staged /\ fate' = fate
    BY <1>6 DEF Stage
  <2>2. AskpassTypeOK'
    BY <1>1, <1>2, <1>3, <2>1 DEF AskpassTypeOK
  <2>3. FateFits(c)'
    BY <1>1, <1>2, <1>3, <1>6, <2>1, FateKept
  <2>4. StagedFits(c)'
    BY <1>1, <1>2, <2>1 DEF StagedFits
  <2>5. \A d \in Child \ {c} : Same(d)
    BY <1>2, <1>3, <2>1 DEF Same
  <2> QED
    BY <1>4, <1>5, <2>2, <2>3, <2>4, <2>5, StepOf DEF ChildFits
<1>7. CASE c \in contexts
  <2>1. answer[c] = attempt[c] /\ answer[c] \in Typed
    BY <1>1, <1>2, ValueFacts DEF WorkFits, AskpassTypeOK
  <2>2. PICK a \in Typed : a = answer[c]
    BY <2>1
  <2>3. PICK late \in BOOLEAN : late = (c \in committed)
    <3>1. (c \in committed) \in BOOLEAN
      OBVIOUS
    <3> QED
      BY <3>1
  <2> DEFINE old == {staged[c][k].value : k \in 1..Len(staged[c]) \ 1..Len(Kept(c))}
  <2>4. staged' = [staged EXCEPT ![c] = Append(Kept(c), [value |-> a, reported |-> late])]
    BY <1>7, <2>2, <2>3 DEF Stage
  <2>5. fate' = [fate EXCEPT ![c] =
                   [n \in Typed |->
                       IF n \in old THEN Append(@[n], "replaced")
                       ELSE IF n # a THEN @[n]
                       ELSE IF late THEN @[n] \o <<"staged", "reported">>
                       ELSE Append(@[n], "staged")]]
    BY <1>7, <2>2, <2>3 DEF Stage
  <2>6. fate \in [Child -> [Typed -> Seq(Fates)]] /\ staged \in [Child -> Seq(Pending)]
    BY <1>1 DEF AskpassTypeOK
  <2>7. \A d \in Child \ {c} : fate'[d] = fate[d] /\ staged'[d] = staged[d]
    BY <2>4, <2>5, <2>6
  <2>8. \A n \in Typed : fate'[c][n] = IF n \in old THEN Append(fate[c][n], "replaced")
                                       ELSE IF n # a THEN fate[c][n]
                                       ELSE IF late THEN fate[c][n] \o <<"staged", "reported">>
                                       ELSE Append(fate[c][n], "staged")
    BY <2>5, <2>6
  <2>9. fate' = [d \in Child |-> fate'[d]] /\ fate'[c] = [n \in Typed |-> fate'[c][n]]
    BY <2>5, <2>6
  <2>10. /\ staged' \in [Child -> Seq(Pending)]
         /\ c \notin Passphrase => Len(staged'[c]) <= 1
         /\ \A z : Staged(c, z)' <=> (z = a /\ ~late) \/ (c \in Passphrase /\ Staged(c, z))
         /\ \A z : Logged(c, z)' <=> (z = a /\ late) \/ (c \in Passphrase /\ Logged(c, z))
         /\ old = IF c \in Passphrase THEN {}
                  ELSE {n \in Typed : Logged(c, n) \/ Staged(c, n)}
    BY <1>1, <2>4, StagedNext
  <2> HIDE DEF old
  <2>11. ASSUME NEW n \in Typed
         PROVE  /\ fate'[c][n] \in Seq(Fates)
                /\ \A i \in 1..Len(fate'[c][n]) : fate'[c][n][i] = "reported" => i = 3
                /\ Staged(c, n)' <=> Len(fate'[c][n]) = 2
                /\ Logged(c, n)' => Len(fate'[c][n]) = 3
                /\ n > attempt[c] => Len(fate'[c][n]) = 0
                /\ Len(fate'[c][n]) # 1
    <3> DEFINE f == fate[c][n]
    <3>1. /\ f \in Seq(Fates) /\ Len(f) \in Nat /\ n \in Nat
          /\ \A i \in 1..Len(f) : f[i] = "reported" => i = 3
          /\ Staged(c, n) <=> Len(f) = 2
          /\ Logged(c, n) => Len(f) = 3
          /\ n > attempt[c] => Len(f) = 0
          /\ n = attempt[c] => Len(f) = 1
          /\ Len(f) = 1 => n = attempt[c]
      BY <1>1, <1>2, <1>7, FateFacts
    <3>2. attempt[c] = a /\ a \in Nat
      BY <2>1, <2>2, ValueFacts
    <3> HIDE DEF f
    <3>3. CASE n \in old
      <4>1. Len(f) \in {2, 3} /\ n # a /\ c \notin Passphrase
        <5>1. c \notin Passphrase /\ (Logged(c, n) \/ Staged(c, n))
          BY <2>10, <3>3
        <5>2. Len(f) = 2 \/ Len(f) = 3
          BY <3>1, <5>1
        <5>3. n = a => Len(f) = 1
          BY <3>1, <3>2
        <5>4. n # a
          BY <5>2, <5>3
        <5> QED
          BY <5>1, <5>2, <5>4
      <4>2. fate'[c][n] = Append(f, "replaced")
        BY <2>8, <3>3 DEF f
      <4>3. PICK v \in Fates : v = "replaced" /\ v # "reported"
        BY DEF Fates
      <4>4. /\ Append(f, v) \in Seq(Fates) /\ Len(Append(f, v)) = Len(f) + 1
            /\ \A i \in 1..Len(Append(f, v)) : Append(f, v)[i] = "reported" => i = 3
        BY <3>1, <4>3, FateGrows
      <4>5. ~Logged(c, n)' /\ ~Staged(c, n)'
        BY <2>10, <4>1
      <4>6. ~(n > attempt[c])
        BY <3>1, <4>1
      <4> QED
        BY <4>1, <4>2, <4>3, <4>4, <4>5, <4>6
    <3>4. CASE n \notin old /\ n # a
      <4>1. fate'[c][n] = f
        BY <2>8, <3>4 DEF f
      <4>2. (Staged(c, n)' <=> Staged(c, n)) /\ (Logged(c, n)' <=> Logged(c, n))
        BY <2>10, <3>4
      <4>3. Len(f) # 1
        BY <3>1, <3>2, <3>4
      <4> QED
        BY <3>1, <4>1, <4>2, <4>3
    <3>5. CASE n = a
      <4>1. Len(f) = 1 /\ ~Logged(c, n) /\ ~Staged(c, n) /\ n \notin old
        <5>1. Len(f) = 1
          BY <3>1, <3>2, <3>5
        <5>2. ~Logged(c, n) /\ ~Staged(c, n)
          BY <3>1, <5>1
        <5> QED
          BY <2>10, <5>1, <5>2
      <4>2. Staged(c, n)' <=> ~late
        BY <2>10, <3>5, <4>1
      <4>3. Logged(c, n)' <=> late
        BY <2>10, <3>5, <4>1
      <4>4. CASE late
        <5>1. fate'[c][n] = f \o <<"staged", "reported">>
          BY <2>8, <3>5, <4>1, <4>4 DEF f
        <5>3. PICK g \in Seq(Fates) : g = f
          BY <3>1
        <5>4. Len(g) = 1 /\ g[1] # "reported"
          <6>1. 1 \in 1..Len(f)
            BY <4>1
          <6> QED
            BY <3>1, <4>1, <5>3, <6>1
        <5>5. /\ g \o <<"staged", "reported">> \in Seq(Fates)
              /\ Len(g \o <<"staged", "reported">>) = 3
              /\ \A i \in 1..3 : (g \o <<"staged", "reported">>)[i] = "reported" => i = 3
          BY <5>4, FateStagedLate
        <5>6. PICK h \in Seq(Fates) : h = g \o <<"staged", "reported">>
          BY <5>5
        <5>7. ~(n > attempt[c])
          BY <3>2, <3>5
        <5>8. fate'[c][n] = h /\ Len(h) = 3
          BY <5>1, <5>3, <5>5, <5>6
        <5>9. \A i \in 1..Len(fate'[c][n]) : fate'[c][n][i] = "reported" => i = 3
          BY <5>5, <5>6, <5>8
        <5> QED
          BY <4>2, <4>3, <4>4, <5>7, <5>8, <5>9
      <4>5. CASE ~late
        <5>1. fate'[c][n] = Append(f, "staged")
          BY <2>8, <3>5, <4>1, <4>5 DEF f
        <5>2. PICK v \in Fates : v = "staged" /\ v # "reported"
          BY DEF Fates
        <5>3. /\ Append(f, v) \in Seq(Fates) /\ Len(Append(f, v)) = Len(f) + 1
              /\ \A i \in 1..Len(Append(f, v)) : Append(f, v)[i] = "reported" => i = 3
          BY <3>1, <5>2, FateGrows
        <5> QED
          BY <3>2, <3>5, <4>1, <4>2, <4>3, <4>5, <5>1, <5>2, <5>3
      <4> QED
        BY <4>4, <4>5
    <3> QED
      BY <3>3, <3>4, <3>5
  <2>12. fate' \in [Child -> [Typed -> Seq(Fates)]]
    <3>1. fate'[c] \in [Typed -> Seq(Fates)]
      BY <2>9, <2>11
    <3> QED
      BY <2>6, <2>7, <2>9, <3>1
  <2>13. AskpassTypeOK'
    BY <1>1, <1>2, <1>3, <2>10, <2>12 DEF AskpassTypeOK
  <2>14. FateFits(c)'
    BY <1>2, <1>3, <2>11 DEF FateFits
  <2>15. StagedFits(c)'
    BY <1>2, <1>7, <2>10 DEF StagedFits
  <2>16. \A d \in Child \ {c} : Same(d)
    BY <1>2, <1>3, <2>7 DEF Same
  <2> QED
    BY <1>4, <1>5, <2>13, <2>14, <2>15, <2>16, StepOf DEF ChildFits
<1> QED
  BY <1>6, <1>7

\* The session ends: what is staged is discarded, and each loss is logged.
LEMMA CancelStep ==
    ASSUME AskpassInv, CancelContexts PROVE AskpassInv'
<1>1. AskpassTypeOK /\ MarksFit /\ \A c \in Child : ChildFits(c)
  BY DEF AskpassInv
<1>2. /\ contexts' = {} /\ staged' = [c \in Child |-> <<>>]
      /\ fate' = [c \in Child |->
                    [n \in Typed |-> IF n \in Lost(c) THEN Append(fate[c][n], "reported")
                                     ELSE fate[c][n]]]
      /\ worker' = [c \in Child |-> IF worker[c] = "prompt" THEN "cancelled" ELSE worker[c]]
      /\ UNCHANGED <<ssh, answer, remember, attempt, flags, store, offers, refused, prompts>>
  BY DEF CancelContexts
<1>3. /\ worker' \in [Child -> {"idle", "begin", "read", "lookup", "ask", "prompt",
                                "cancelled", "stage", "reply"}]
      /\ \A c \in Child :
            worker'[c] = IF worker[c] = "prompt" THEN "cancelled" ELSE worker[c]
  BY <1>1, <1>2 DEF AskpassTypeOK
<1>4. \A c \in Child : \A n \in Typed :
         fate'[c][n] = IF Staged(c, n) THEN Append(fate[c][n], "reported") ELSE fate[c][n]
  <2> TAKE c \in Child
  <2> TAKE n \in Typed
  <2>1. fate'[c][n] = IF n \in Lost(c) THEN Append(fate[c][n], "reported") ELSE fate[c][n]
    BY <1>2
  <2>2. n \in Lost(c) <=> Staged(c, n)
    BY <1>1, StagedFacts DEF Lost
  <2> QED
    BY <2>1, <2>2
<1>5. ASSUME NEW c \in Child, NEW n \in Typed
      PROVE  /\ fate'[c][n] \in Seq(Fates)
             /\ \A i \in 1..Len(fate'[c][n]) : fate'[c][n][i] = "reported" => i = 3
             /\ Len(fate'[c][n]) # 2
             /\ Len(fate[c][n]) <= 1 => Len(fate'[c][n]) = Len(fate[c][n])
  <2>1. /\ fate[c][n] \in Seq(Fates) /\ Len(fate[c][n]) \in Nat
        /\ \A i \in 1..Len(fate[c][n]) : fate[c][n][i] = "reported" => i = 3
        /\ Staged(c, n) <=> Len(fate[c][n]) = 2
    BY <1>1, FateFacts DEF ChildFits
  <2>2. CASE Staged(c, n)
    <3>1. fate'[c][n] = Append(fate[c][n], "reported")
      BY <1>4, <2>2
    <3>2. PICK f \in Seq(Fates) : f = fate[c][n]
      BY <2>1
    <3>3. PICK v \in Fates : v = "reported"
      BY DEF Fates
    <3>4. Len(f) = 2
      BY <2>1, <2>2, <3>2
    <3>5. /\ Append(f, v) \in Seq(Fates) /\ Len(Append(f, v)) = Len(f) + 1
          /\ \A i \in 1..Len(Append(f, v)) : Append(f, v)[i] = "reported" => i = 3
      BY <2>1, <3>2, <3>4, FateGrows
    <3> QED
      BY <3>1, <3>2, <3>3, <3>4, <3>5
  <2>3. CASE ~Staged(c, n)
    <3>1. fate'[c][n] = fate[c][n]
      BY <1>4, <2>3
    <3> QED
      BY <2>1, <2>3, <3>1
  <2> QED
    BY <2>2, <2>3
<1>6. fate' \in [Child -> [Typed -> Seq(Fates)]]
  <2>1. ASSUME NEW c \in Child PROVE fate'[c] \in [Typed -> Seq(Fates)]
    <3>1. fate'[c] = [n \in Typed |-> fate'[c][n]]
      BY <1>2
    <3> QED
      BY <1>5, <3>1
  <2>2. fate' = [c \in Child |-> fate'[c]]
    BY <1>2
  <2> QED
    BY <2>1, <2>2
<1>7. AskpassTypeOK'
  <2>1. staged' \in [Child -> Seq(Pending)]
    <3>1. <<>> \in Seq(Pending)
      OBVIOUS
    <3> QED
      BY <1>2, <3>1
  <2>2. contexts' \subseteq Child
    BY <1>2
  <2> QED
    BY <1>1, <1>2, <1>3, <1>6, <2>1, <2>2 DEF AskpassTypeOK
<1>8. MarksFit'
  BY <1>1, <1>2 DEF MarksFit
<1>9. ASSUME NEW c \in Child PROVE ChildFits(c)'
  <2>1. ChildFits(c) /\ WorkFits(c) /\ RefusedFits(c) /\ OfferFits(c) /\ FateFits(c)
    BY <1>1 DEF ChildFits
  <2>2. staged'[c] = <<>> /\ c \notin contexts'
    BY <1>2
  <2>3. WorkFits(c)'
    <3>1. /\ child' = child /\ asked' = asked /\ attempt' = attempt /\ prompts' = prompts
          /\ answer' = answer
      BY <1>2
    <3>2. worker'[c] = IF worker[c] = "prompt" THEN "cancelled" ELSE worker[c]
      BY <1>3
    <3>3. CASE worker[c] = "prompt"
      BY <2>1, <3>1, <3>2, <3>3 DEF WorkFits
    <3>4. CASE worker[c] # "prompt"
      BY <2>1, <3>1, <3>2, <3>4 DEF WorkFits
    <3> QED
      BY <3>3, <3>4
  <2>4. RefusedFits(c)'
    BY <1>2, <1>3, <2>1, <2>2 DEF RefusedFits
  <2>5. OfferFits(c)'
    BY <1>2, <1>3, <2>1, <2>2 DEF OfferFits
  <2>6. StagedFits(c)'
    BY <2>2 DEF StagedFits
  <2>7. FateFits(c)'
    <3>1. \A n : ~Staged(c, n)' /\ ~Logged(c, n)'
      BY <2>2 DEF Staged, Logged
    <3>2. ASSUME NEW n \in Typed,
                 n > attempt'[c] \/ (n = attempt'[c] /\ worker'[c] \in {"lookup", "ask", "prompt"})
          PROVE  Len(fate'[c][n]) = 0
      <4>1. n > attempt[c] \/ (n = attempt[c] /\ worker[c] \in {"lookup", "ask", "prompt"})
        BY <1>2, <1>3, <3>2
      <4>2. Len(fate[c][n]) = 0
        BY <2>1, <4>1 DEF FateFits
      <4> QED
        BY <1>5, <4>2
    <3>3. ASSUME NEW n \in Typed, n = attempt'[c], worker'[c] = "stage"
          PROVE  Len(fate'[c][n]) = 1
      <4>1. n = attempt[c] /\ worker[c] = "stage"
        BY <1>2, <1>3, <3>3
      <4>2. Len(fate[c][n]) = 1 /\ Len(fate[c][n]) <= 1
        BY <2>1, <4>1 DEF FateFits
      <4>3. Len(fate[c][n]) <= 1 => Len(fate'[c][n]) = Len(fate[c][n])
        BY <1>5
      <4> QED
        BY <4>2, <4>3
    <3> QED
      BY <1>5, <2>2, <3>1, <3>2, <3>3 DEF FateFits
  <2> QED
    BY <2>3, <2>4, <2>5, <2>6, <2>7 DEF ChildFits
<1> QED
  BY <1>7, <1>8, <1>9 DEF AskpassInv

\* Every step keeps the invariant.
LEMMA AskpassKeeps ==
    ASSUME AskpassInv, [AskpassNext]_askpassvars PROVE AskpassInv'
<1>1. CASE UNCHANGED askpassvars
  <2>1. AskpassTypeOK' /\ MarksFit'
    BY <1>1 DEF AskpassInv, AskpassTypeOK, MarksFit, askpassvars
  <2>2. \A d \in Child : Same(d)
    BY <1>1 DEF Same, askpassvars
  <2> QED
    BY <2>1, <2>2, SameFits DEF AskpassInv
<1>2. ASSUME NEW c \in Child,
             \/ Ask(c) \/ Reply(c) \/ Accept(c) \/ Reject(c) \/ Exit(c)
             \/ CheckDismissed(c) \/ BeginAttempt(c) \/ Autofill(c) \/ LookupMisses(c)
             \/ CreatePrompt(c) \/ Dismiss(c) \/ MarkCancelled(c) \/ Unanswered(c)
             \/ Stage(c) \/ TakeStaged(c)
             \/ \E keep \in BOOLEAN : Submit(c, keep)
      PROVE  AskpassInv'
  BY <1>2, AskStep, ReplyStep, AcceptStep, RejectStep, ExitStep, CheckDismissedStep,
     BeginAttemptStep, AutofillStep, LookupMissesStep, CreatePromptStep, DismissStep,
     MarkCancelledStep, UnansweredStep, StageStep, TakeStep, SubmitStep
<1>3. CASE MarkAuthenticated \/ StoreItem
  BY <1>3, OwnerStep
<1>4. CASE CancelContexts
  BY <1>4, CancelStep
<1> QED
  BY <1>1, <1>2, <1>3, <1>4 DEF AskpassNext

\* The inductive invariant of the askpass contexts holds throughout.
THEOREM AskpassInvariant == AskpassSpec => []AskpassInv
<1>1. AskpassInit => AskpassInv
  BY AskpassStarts
<1>2. AskpassInv /\ [AskpassNext]_askpassvars => AskpassInv'
  BY AskpassKeeps
<1> QED
  BY <1>1, <1>2, PTL DEF AskpassSpec

\* Secrets are accounted for, for any children and any number of attempts:
\* whatever the person asked to remember is, while its context is open, in the
\* hand of its worker, staged, taken, replaced or logged once as lost, and once
\* it was staged that holds also after the session has ended; a closed context
\* holds none; a stored value is offered once.
THEOREM SecretsAccountedAlways == AskpassSpec => []SecretsAccounted
<1>1. AskpassInv => SecretsAccounted
  <2> SUFFICES ASSUME AskpassInv PROVE SecretsAccounted
    OBVIOUS
  <2>1. AskpassTypeOK /\ \A c \in Child : ChildFits(c)
    BY DEF AskpassInv
  <2>2. ClosedHoldsNothing /\ AutofillOnce
    BY <2>1 DEF ClosedHoldsNothing, AutofillOnce, ChildFits, StagedFits, OfferFits
  <2>3. ASSUME NEW c \in Child, NEW n \in Typed
        PROVE  Cardinality({k \in 1..Len(fate[c][n]) : fate[c][n][k] = "reported"}) <= 1
    <3> DEFINE logged == {k \in 1..Len(fate[c][n]) : fate[c][n][k] = "reported"}
    <3>1. logged \subseteq {3}
      BY <2>1, FateFacts DEF ChildFits
    <3>2. IsFiniteSet({3}) /\ Cardinality({3}) = 1
      BY FS_Singleton
    <3>3. IsFiniteSet(logged) /\ Cardinality(logged) <= Cardinality({3})
      BY <3>1, <3>2, FS_Subset
    <3> QED
      BY <3>2, <3>3
  <2>4. ASSUME NEW c \in Child, NEW n \in Typed, fate[c][n] = <<"chosen", "staged">>
        PROVE  IsStaged(c, n)
    <3>1. Len(fate[c][n]) = 2
      BY <2>4
    <3>2. Staged(c, n)
      BY <2>1, <3>1, FateFacts DEF ChildFits
    <3> QED
      BY <3>2 DEF Staged, IsStaged
  <2>5. ASSUME NEW c \in Child, NEW n \in Typed, fate[c][n] = <<"chosen">>
        PROVE  InHand(c, n) \/ c \notin contexts
    <3>1. Len(fate[c][n]) = 1
      BY <2>5
    <3>2. (n = attempt[c] /\ worker[c] = "stage") \/ c \notin contexts
      BY <2>1, <3>1, FateFacts DEF ChildFits
    <3>3. worker[c] = "stage" => answer[c] = attempt[c]
      BY <2>1 DEF ChildFits, WorkFits
    <3> QED
      BY <3>2, <3>3 DEF InHand
  <2> QED
    BY <2>1, <2>2, <2>3, <2>4, <2>5 DEF SecretsAccounted, NothingVanishes
<1> QED
  BY <1>1, AskpassInvariant, PTL

\* A child whose prompt a person cancelled never shows another one, for any
\* children and any number of attempts.
THEOREM NoRepromptAlways == AskpassSpec => NoReprompt
<1>1. AskpassInv /\ [AskpassNext]_askpassvars =>
         [\A c \in Child : c \in refused => prompts'[c] = prompts[c]]_askpassvars
  <2> SUFFICES ASSUME AskpassInv, AskpassNext, NEW c \in Child, c \in refused
               PROVE  prompts'[c] = prompts[c]
    OBVIOUS
  <2>1. worker[c] # "ask" /\ prompts \in [Child -> 0..MaxPrompts]
    BY DEF AskpassInv, AskpassTypeOK, ChildFits, RefusedFits
  <2>2. ASSUME NEW d \in Child, CreatePrompt(d) PROVE prompts'[c] = prompts[c]
    BY <2>1, <2>2 DEF CreatePrompt
  <2>3. ASSUME NEW d \in Child,
               \/ Ask(d) \/ Reply(d) \/ Accept(d) \/ Reject(d) \/ Exit(d)
               \/ CheckDismissed(d) \/ BeginAttempt(d) \/ Autofill(d) \/ LookupMisses(d)
               \/ Dismiss(d) \/ MarkCancelled(d) \/ Unanswered(d)
               \/ Stage(d) \/ TakeStaged(d)
               \/ \E keep \in BOOLEAN : Submit(d, keep)
        PROVE  prompts' = prompts
    BY <2>3 DEF Ask, Reply, Accept, Reject, Exit, CheckDismissed, BeginAttempt, Autofill,
       LookupMisses, Dismiss, MarkCancelled, Unanswered, Stage, TakeStaged, Submit
  <2>4. ASSUME MarkAuthenticated \/ StoreItem \/ CancelContexts PROVE prompts' = prompts
    BY <2>4 DEF MarkAuthenticated, StoreItem, CancelContexts
  <2> QED
    BY <2>2, <2>3, <2>4 DEF AskpassNext
<1>2. AskpassSpec => []AskpassInv
  BY AskpassInvariant
<1> QED
  BY <1>1, <1>2, PTL DEF AskpassSpec, NoReprompt

=============================================================================
