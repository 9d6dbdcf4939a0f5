---------------------- MODULE SessionAttachmentsProofs ----------------------
(***************************************************************************)
(* Theorems about attachments, ownership of the input and the audience of  *)
(* a session, for any sets of clients, attachment ids and sizes.           *)
(***************************************************************************)
EXTENDS SessionAttachments, SequenceTheorems, TLAPS

\* An id is given out once, so a new attachment is not yet anybody's.
IdsFresh == live \subseteq used

\* The inductive invariant.  SingleOwner needs IndexExact (a disconnect removes
\* what the index names), IndexExact needs IdsFresh (an attach must not steal a
\* live id), OutputToAttached needs IndexExact (detach looks for another
\* attachment that wants output in the index).
AttachmentsInv == TypeOK /\ IdsFresh /\ SingleOwner /\ IndexExact /\ OutputToAttached

\* The initial state satisfies the invariant.
LEMMA InvInit == Init => AttachmentsInv
<1> SUFFICES ASSUME Init PROVE AttachmentsInv
  OBVIOUS
<1> USE AttachmentsAssumption
<1>1. TypeOK
  <2>1. commands \in Seq(Size)
    BY EmptySeq DEF Init
  <2>2. dispatch \in [Thread -> {"idle", "waiting", "holding"}]
    BY DEF Init
  <2>3. QED
    BY <2>1, <2>2 DEF Init, TypeOK
<1>2. IdsFresh /\ SingleOwner /\ IndexExact /\ OutputToAttached
  BY DEF Init, IdsFresh, SingleOwner, IndexExact, OutputToAttached
<1>3. QED
  BY <1>1, <1>2 DEF AttachmentsInv

\* Every step preserves the types of the record's fields.
LEMMA TypeStep ==
    ASSUME TypeOK, [Next]_vars
    PROVE  TypeOK'
<1> USE AttachmentsAssumption
        DEF TypeOK, Thread, lifeVars, attachVars, idVars, eofVars, sizeVars, Holds, Request,
            SelectorFree
<1>1. ASSUME NEW c \in Client, NEW a \in Attachment, NEW out \in BOOLEAN, NEW inp \in BOOLEAN,
             Attach(c, a, out, inp)
      PROVE  TypeOK'
  BY <1>1 DEF Attach
<1>2. ASSUME NEW c \in Client, NEW a \in Attachment, Detach(c, a) PROVE TypeOK'
  BY <1>2 DEF Detach
<1>3. ASSUME NEW c \in Client, NEW a \in Attachment, ClaimInput(c, a) PROVE TypeOK'
  BY <1>3 DEF ClaimInput
<1>4. ASSUME NEW c \in Client, NEW a \in Attachment, ReleaseInput(c, a) PROVE TypeOK'
  BY <1>4 DEF ReleaseInput
<1>5. ASSUME NEW c \in Client, NEW a \in Attachment, NEW d \in Size, ResizeTerminal(c, a, d)
      PROVE  TypeOK'
  BY <1>5 DEF ResizeTerminal
<1>6. ASSUME NEW c \in Client, Disconnect(c) PROVE TypeOK'
  BY <1>6 DEF Disconnect
<1>7. ASSUME ApplyResize PROVE TypeOK'
  <2>1. Head(commands) \in Size /\ Tail(commands) \in Seq(Size)
    BY <1>7, HeadTailProperties DEF ApplyResize
  <2>2. QED
    BY <1>7, <2>1 DEF ApplyResize
<1>8. ASSUME NEW t \in Thread, DispatchBegin(t) PROVE TypeOK'
  BY <1>8 DEF DispatchBegin
<1>9. ASSUME NEW t \in Thread, DispatchResize(t) PROVE TypeOK'
  <2>1. Append(commands, read) \in Seq(Size)
    BY AppendProperties
  <2>2. commands' \in Seq(Size) /\ missed' \in BOOLEAN
    <3>1. CASE commands' = Append(commands, read) /\ missed' = FALSE
      BY <3>1, <2>1
    <3>2. CASE UNCHANGED commands /\ missed' = TRUE
      BY <3>2
    <3>3. QED
      BY <1>9, <3>1, <3>2 DEF DispatchResize
  <2>3. dispatch' \in [Thread -> {"idle", "waiting", "holding"}]
    BY <1>9 DEF DispatchResize
  <2>4. QED
    BY <1>9, <2>2, <2>3 DEF DispatchResize
<1>10. CASE StartClaim
  BY <1>10 DEF StartClaim
<1>11. CASE StartSpawn
  BY <1>11 DEF StartSpawn
<1>12. CASE StartAttach
  BY <1>12 DEF StartAttach
<1>13. CASE BecomeRunning
  BY <1>13 DEF BecomeRunning
<1>14. CASE BecomeClosing
  BY <1>14 DEF BecomeClosing
<1>15. CASE BecomeFailed
  BY <1>15, ZenonT(30) DEF BecomeFailed
<1>16. CASE BecomeClosed
  BY <1>16 DEF BecomeClosed, DropAttachments
<1>17. CASE Evict
  BY <1>17 DEF Evict
<1>18. CASE EofAccepted
  BY <1>18 DEF EofAccepted, DropAttachments, Receives
<1>19. CASE EofQueued
  BY <1>19 DEF EofQueued
<1>20. CASE EofDrained
  BY <1>20 DEF EofDrained, Receives
<1>21. CASE ShutdownBegin
  BY <1>21 DEF ShutdownBegin
<1>22. CASE ShutdownClear
  BY <1>22 DEF ShutdownClear
<1>23. CASE UNCHANGED vars
  BY <1>23 DEF vars
<1>24. QED
  BY <1>1, <1>2, <1>3, <1>4, <1>5, <1>6, <1>7, <1>8, <1>9, <1>10, <1>11, <1>12, <1>13, <1>14,
     <1>15, <1>16, <1>17, <1>18, <1>19, <1>20, <1>21, <1>22, <1>23
     DEF Next, ClientStep, SizeStep, LifeStep

\* Every step preserves the rest of the invariant: one step per operation that
\* touches attachments; all others leave them alone.
LEMMA AttachmentsStep ==
    ASSUME AttachmentsInv, [Next]_vars
    PROVE  (IdsFresh /\ SingleOwner /\ IndexExact /\ OutputToAttached)'
<1> USE AttachmentsAssumption DEF AttachmentsInv, Holds
<1> DEFINE Goal == IdsFresh /\ SingleOwner /\ IndexExact /\ OutputToAttached
<1>1. ASSUME NEW c \in Client, NEW a \in Attachment, NEW out \in BOOLEAN, NEW inp \in BOOLEAN,
             Attach(c, a, out, inp)
      PROVE  Goal'
  <2>1. a \notin live /\ c \in connected /\ connected' = connected
    BY <1>1 DEF Attach, IdsFresh, Request
  <2>2. \A b \in live : clientOf'[b] = clientOf[b]
    BY <1>1, <2>1 DEF Attach, TypeOK
  <2>3. clientOf'[a] = c
    BY <1>1 DEF Attach, TypeOK
  <2>4. IdsFresh'
    BY <1>1 DEF Attach, IdsFresh
  <2>5. IndexExact'
    BY <1>1, <2>1, <2>2, <2>3 DEF Attach, IndexExact, TypeOK
  <2>6. SingleOwner'
    BY <1>1, <2>1, <2>2, <2>3 DEF Attach, SingleOwner, TypeOK
  <2>7. OutputToAttached'
    BY <1>1, <2>1, <2>2, <2>3 DEF Attach, OutputToAttached, TypeOK
  <2>8. QED
    BY <2>4, <2>5, <2>6, <2>7
<1>2. ASSUME NEW c \in Client, NEW a \in Attachment, Detach(c, a) PROVE Goal'
  <2>1. IdsFresh' /\ IndexExact' /\ SingleOwner'
    BY <1>2 DEF Detach, idVars, IdsFresh, IndexExact, SingleOwner, TypeOK
  <2>2. OutputToAttached'
    <3> SUFFICES ASSUME NEW x \in outputClients'
                 PROVE  \E b \in live' \intersect wanting' : clientOf'[b] = x
      BY DEF OutputToAttached
    <3>1. PICK b \in live \intersect wanting : clientOf[b] = x
      BY <1>2 DEF Detach, OutputToAttached
    <3>2. CASE b # a
      BY <1>2, <3>1, <3>2 DEF Detach, idVars
    <3>3. CASE b = a
      <4>1. ~(attachmentsOf[c] \intersect wanting \subseteq {a})
        BY <1>2, <3>1, <3>3 DEF Detach
      <4>2. PICK e \in attachmentsOf[c] \intersect wanting : e # a
        BY <4>1
      <4>3. e \in live /\ clientOf[e] = c
        BY <4>2 DEF IndexExact
      <4>4. QED
        BY <1>2, <3>1, <3>3, <4>2, <4>3 DEF Detach, idVars
    <3>4. QED
      BY <3>2, <3>3
  <2>3. QED
    BY <2>1, <2>2
<1>3. ASSUME NEW c \in Client, NEW a \in Attachment, ClaimInput(c, a) PROVE Goal'
  BY <1>3 DEF ClaimInput, idVars, IdsFresh, IndexExact, SingleOwner, OutputToAttached, TypeOK
<1>4. ASSUME NEW c \in Client, NEW a \in Attachment, ReleaseInput(c, a) PROVE Goal'
  BY <1>4 DEF ReleaseInput, idVars, IdsFresh, IndexExact, SingleOwner, OutputToAttached, TypeOK
<1>5. ASSUME NEW c \in Client, Disconnect(c) PROVE Goal'
  <2>1. attachmentsOf[c] = {a \in live : clientOf[a] = c}
    BY DEF IndexExact
  <2>2. IdsFresh' /\ IndexExact' /\ SingleOwner'
    BY <1>5, <2>1 DEF Disconnect, idVars, IdsFresh, IndexExact, SingleOwner, TypeOK
  <2>3. OutputToAttached'
    <3> SUFFICES ASSUME NEW x \in outputClients'
                 PROVE  \E b \in live' \intersect wanting' : clientOf'[b] = x
      BY DEF OutputToAttached
    <3>1. PICK b \in live \intersect wanting : clientOf[b] = x
      BY <1>5 DEF Disconnect, OutputToAttached
    <3>2. x # c
      BY <1>5, <2>1, <3>1 DEF Disconnect
    <3>3. QED
      BY <1>5, <2>1, <3>1, <3>2 DEF Disconnect, idVars
  <2>4. QED
    BY <2>2, <2>3
<1>6. ASSUME DropAttachments, UNCHANGED <<idVars, connected>> PROVE Goal'
  BY <1>6 DEF DropAttachments, idVars, IdsFresh, IndexExact, SingleOwner, OutputToAttached
<1>7. ASSUME ShutdownClear PROVE Goal'
  BY <1>7 DEF ShutdownClear, idVars, IdsFresh, IndexExact, SingleOwner, OutputToAttached
<1>8. ASSUME UNCHANGED <<idVars, connected, attachVars>> PROVE Goal'
  BY <1>8 DEF attachVars, idVars, IdsFresh, IndexExact, SingleOwner, OutputToAttached
<1>9. ASSUME BecomeClosed PROVE Goal'
  BY <1>6, <1>9 DEF BecomeClosed
<1>10. ASSUME EofAccepted PROVE Goal'
  BY <1>6, <1>8, <1>10 DEF EofAccepted
<1>11. ASSUME NEW c \in Client, NEW a \in Attachment, NEW d \in Size, ResizeTerminal(c, a, d)
       PROVE  Goal'
  BY <1>8, <1>11 DEF ResizeTerminal
<1>12. ASSUME SizeStep PROVE Goal'
  BY <1>8, <1>12 DEF SizeStep, ApplyResize, DispatchBegin, DispatchResize
<1>13. ASSUME \/ StartClaim \/ StartSpawn \/ StartAttach
              \/ BecomeRunning \/ BecomeClosing \/ BecomeFailed \/ Evict
              \/ EofQueued \/ EofDrained \/ ShutdownBegin
       PROVE  Goal'
  BY <1>8, <1>13 DEF StartClaim, StartSpawn, StartAttach, BecomeRunning, BecomeClosing,
     BecomeFailed, Evict, EofQueued, EofDrained, ShutdownBegin
<1>14. ASSUME UNCHANGED vars PROVE Goal'
  BY <1>8, <1>14 DEF vars
<1>15. QED
  BY <1>1, <1>2, <1>3, <1>4, <1>5, <1>7, <1>9, <1>10, <1>11, <1>12, <1>13, <1>14
     DEF Next, ClientStep, LifeStep

\* The invariant holds in every reachable state.
LEMMA InvAlways == Spec => []AttachmentsInv
<1>1. AttachmentsInv /\ [Next]_vars => AttachmentsInv'
  BY TypeStep, AttachmentsStep DEF AttachmentsInv
<1>2. QED
  BY InvInit, <1>1, PTL DEF Spec

\* The fields of the record keep their types; EXITED is never left visible.
THEOREM AttachmentsTyped == Spec => []TypeOK
<1>1. AttachmentsInv => TypeOK
  BY DEF AttachmentsInv
<1>2. QED
  BY InvAlways, <1>1, PTL

\* At most one attachment, live and of a connected client, owns the input of
\* a session, whatever attach_session, detach_session, claim_input,
\* release_input, detach_client and the end of the session do.
THEOREM OneInputOwner == Spec => []SingleOwner
<1>1. AttachmentsInv => SingleOwner
  BY DEF AttachmentsInv
<1>2. QED
  BY InvAlways, <1>1, PTL

\* client_attachments names exactly the live attachments, so that the
\* disconnect of a client leaves none of its own behind, and live frames are
\* addressed only to clients with an attachment that asked for output.
THEOREM AttachmentsExactAlways == Spec => []AttachmentsExact
<1>1. AttachmentsInv => AttachmentsExact
  BY DEF AttachmentsInv, AttachmentsExact
<1>2. QED
  BY InvAlways, <1>1, PTL

\* No step takes the input away from one attachment and gives it to another.
THEOREM NoTakeover == Spec => NoForcedTakeover
<1> DEFINE Kept == (owner # NoAttachment /\ owner' # owner) => owner' = NoAttachment
<1>1. ASSUME [Next]_vars PROVE Kept
  <2>1. ASSUME NEW c \in Client, ClientStep(c) PROVE Kept
    BY <2>1 DEF ClientStep, Attach, Detach, ClaimInput, ReleaseInput, Disconnect,
                ResizeTerminal, attachVars
  <2>2. ASSUME SizeStep PROVE Kept
    BY <2>2 DEF SizeStep, ApplyResize, DispatchBegin, DispatchResize, attachVars
  <2>3. ASSUME LifeStep PROVE Kept
    BY <2>3 DEF LifeStep, StartClaim, StartSpawn, StartAttach, BecomeRunning, BecomeClosing,
                BecomeFailed, BecomeClosed, Evict, EofAccepted, EofQueued, EofDrained,
                ShutdownBegin, ShutdownClear, DropAttachments, attachVars
  <2>4. CASE UNCHANGED vars
    BY <2>4 DEF vars, attachVars
  <2>5. QED
    BY <1>1, <2>1, <2>2, <2>3, <2>4 DEF Next
<1>2. [Next]_vars => [Kept]_vars
  BY <1>1
<1>3. QED
  BY <1>2, PTL DEF Spec, NoForcedTakeover

-----------------------------------------------------------------------------
(* The EOF marker. *)

\* While the marker is under way, whoever must get it is still connected and
\* still counted as receiving: in output_clients, or, the session being closed
\* meanwhile, in closed_output_clients.
EofUnderway ==
    /\ closedOutputClients # {} => state \in {"closed", "gone"}
    /\ eof = "none" => audience = {}
    /\ eof \in {"accepted", "queued"} =>
          /\ audience \subseteq connected
          /\ audience \subseteq outputClients \union closedOutputClients
          /\ audience # {} => state # "gone"

EofInv == TypeOK /\ EofUnderway /\ EofReachesAudience

\* Every step preserves it.
LEMMA EofStep ==
    ASSUME EofInv, [Next]_vars
    PROVE  (EofUnderway /\ EofReachesAudience)'
<1> USE DEF EofInv, EofUnderway, EofReachesAudience, lifeVars, eofVars
<1> DEFINE Goal == EofUnderway /\ EofReachesAudience
<1>1. ASSUME NEW c \in Client, NEW a \in Attachment, NEW out \in BOOLEAN, NEW inp \in BOOLEAN,
             Attach(c, a, out, inp)
      PROVE  Goal'
  BY <1>1 DEF Attach
<1>2. ASSUME NEW c \in Client, NEW a \in Attachment, Detach(c, a) PROVE Goal'
  BY <1>2 DEF Detach
<1>3. ASSUME NEW c \in Client, Disconnect(c) PROVE Goal'
  BY <1>3 DEF Disconnect
<1>4. ASSUME BecomeClosed PROVE Goal'
  BY <1>4 DEF BecomeClosed, DropAttachments
<1>5. ASSUME Evict PROVE Goal'
  BY <1>5 DEF Evict, attachVars
<1>6. ASSUME EofAccepted PROVE Goal'
  <2>1. CASE UNCHANGED <<state, handle, attachVars>>
    BY <1>6, <2>1 DEF EofAccepted, attachVars, Receives
  <2>2. CASE /\ state \in {"starting", "running", "closing", "failed"}
             /\ state' = "closed" /\ DropAttachments
    BY <1>6, <2>2 DEF EofAccepted, DropAttachments, Receives
  <2>3. QED
    BY <1>6, <2>1, <2>2 DEF EofAccepted
<1>7. ASSUME EofQueued PROVE Goal'
  BY <1>7 DEF EofQueued, attachVars
<1>8. ASSUME EofDrained PROVE Goal'
  BY <1>8 DEF EofDrained, attachVars, Receives
<1>9. ASSUME ShutdownClear PROVE Goal'
  BY <1>9 DEF ShutdownClear
<1>10. ASSUME BecomeRunning \/ BecomeClosing \/ BecomeFailed PROVE Goal'
  BY <1>10 DEF BecomeRunning, BecomeClosing, BecomeFailed, attachVars
<1>11. ASSUME UNCHANGED <<state, connected, eofVars, outputClients, closedOutputClients>>
       PROVE  Goal'
  BY <1>11
<1>12. ASSUME NEW c \in Client, NEW a \in Attachment,
              \/ ClaimInput(c, a) \/ ReleaseInput(c, a)
              \/ \E d \in Size : ResizeTerminal(c, a, d)
       PROVE  Goal'
  BY <1>11, <1>12 DEF ClaimInput, ReleaseInput, ResizeTerminal, attachVars
<1>13. ASSUME SizeStep \/ StartClaim \/ StartSpawn \/ StartAttach \/ ShutdownBegin PROVE Goal'
  BY <1>11, <1>13 DEF SizeStep, ApplyResize, DispatchBegin, DispatchResize, StartClaim,
     StartSpawn, StartAttach, ShutdownBegin, attachVars
<1>14. ASSUME UNCHANGED vars PROVE Goal'
  BY <1>11, <1>14 DEF vars, attachVars
<1>15. QED
  BY <1>1, <1>2, <1>3, <1>4, <1>5, <1>6, <1>7, <1>8, <1>9, <1>10, <1>12, <1>13, <1>14
     DEF Next, ClientStep, LifeStep

\* Once drained, the EOF marker has been sent to every client that was
\* receiving the terminal when the PTY ended and has not left since, although
\* the close that may come first drops every attachment.
THEOREM EofReachesEveryone == Spec => []EofReachesAudience
<1>1. Init => EofInv
  <2>1. Init => TypeOK
    BY InvInit DEF AttachmentsInv
  <2>2. Init => EofUnderway /\ EofReachesAudience
    BY DEF Init, EofUnderway, EofReachesAudience
  <2>3. QED
    BY <2>1, <2>2 DEF EofInv
<1>2. EofInv /\ [Next]_vars => EofInv'
  BY TypeStep, EofStep DEF EofInv
<1>3. EofInv => EofReachesAudience
  BY DEF EofInv
<1>4. QED
  BY <1>1, <1>2, <1>3, PTL DEF Spec

-----------------------------------------------------------------------------
(* The terminal size. *)

Idle == \A t \in Thread : dispatch[t] = "idle"

\* The size the PTY will have when its command queue is empty.
Settling == IF commands = <<>> THEN applied ELSE commands[Len(commands)]

\* Before the handle is stored nothing has been dispatched.
BeforeHandle ==
    /\ worker # "done" => ~handle /\ Idle /\ commands = <<>> /\ ~missed
    /\ worker = "spawned" => applied = launched
    /\ state = "running" => worker = "done"

\* The dispatch lock.
OneHolder ==
    \A t, u \in Thread : dispatch[t] = "holding" /\ dispatch[u] = "holding" => t = u

\* With a handle the newest size is on its way: some thread has yet to read
\* it, or holds it, or nothing newer than it has been queued.
SizeUnderway ==
    handle /\ state \in {"starting", "running"} =>
        \/ \E t \in Thread : dispatch[t] = "waiting"
        \/ \E t \in Thread : dispatch[t] = "holding" /\ read = desired
        \/ Idle /\ (missed \/ Settling = desired)

SizeInv == TypeOK /\ BeforeHandle /\ OneHolder /\ SizeUnderway

\* Every step preserves it.
LEMMA SizeInvStep ==
    ASSUME SizeInv, [Next]_vars
    PROVE  (BeforeHandle /\ OneHolder /\ SizeUnderway)'
<1> USE DEF SizeInv, BeforeHandle, OneHolder, SizeUnderway, Settling, Idle, sizeVars
<1> DEFINE Goal == BeforeHandle /\ OneHolder /\ SizeUnderway
<1>1. ASSUME UNCHANGED <<sizeVars, worker, handle, state>> PROVE Goal'
  BY <1>1
<1>2. ASSUME NEW c \in Client, NEW a \in Attachment, NEW d \in Size, ResizeTerminal(c, a, d)
      PROVE  Goal'
  <2>1. CASE handle
    <3>1. /\ dispatch' = [dispatch EXCEPT !["selector"] = "waiting"]
          /\ dispatch["selector"] = "idle" /\ "selector" \in Thread
      BY <1>2, <2>1 DEF ResizeTerminal, Request, SelectorFree, Thread
    <3>2. dispatch'["selector"] = "waiting"
      BY <3>1 DEF TypeOK
    <3>3. SizeUnderway'
      BY <3>1, <3>2
    <3>4. OneHolder'
      BY <3>1 DEF TypeOK
    <3>5. BeforeHandle'
      BY <1>2, <2>1 DEF ResizeTerminal, lifeVars
    <3>6. QED
      BY <3>3, <3>4, <3>5
  <2>2. CASE ~handle
    BY <1>2, <2>2 DEF ResizeTerminal, lifeVars
  <2>3. QED
    BY <2>1, <2>2
<1>3. ASSUME NEW t \in Thread, DispatchBegin(t) PROVE Goal'
  <2>1. worker = "done" /\ UNCHANGED <<worker, handle, state, desired>>
    BY <1>3 DEF DispatchBegin, lifeVars
  <2>2. \A u \in Thread : dispatch'[u] = IF u = t THEN (IF handle THEN "holding" ELSE "idle")
                                          ELSE dispatch[u]
    BY <1>3 DEF DispatchBegin, TypeOK
  <2>3. OneHolder'
    BY <1>3, <2>2 DEF DispatchBegin
  <2>4. SizeUnderway'
    BY <1>3, <2>1, <2>2 DEF DispatchBegin
  <2>5. BeforeHandle'
    BY <1>3, <2>1 DEF DispatchBegin
  <2>6. QED
    BY <2>3, <2>4, <2>5
<1>4. ASSUME NEW t \in Thread, DispatchResize(t) PROVE Goal'
  <2>1. worker = "done" /\ UNCHANGED <<worker, handle, state, desired, read, applied>>
    BY <1>4 DEF DispatchResize, lifeVars
  <2>2. \A u \in Thread : dispatch'[u] = IF u = t THEN "idle" ELSE dispatch[u]
    BY <1>4 DEF DispatchResize, TypeOK
  <2>3. OneHolder'
    BY <2>2
  <2>4. BeforeHandle'
    BY <1>4, <2>1 DEF DispatchResize
  <2>5. \/ missed'
        \/ Settling' = read
    <3>1. CASE commands' = Append(commands, read)
      <4>1. commands' # <<>> /\ commands'[Len(commands')] = read
        BY <3>1, AppendProperties DEF TypeOK
      <4>2. QED
        BY <4>1
    <3>2. CASE missed' = TRUE
      BY <3>2
    <3>3. QED
      BY <1>4, <3>1, <3>2 DEF DispatchResize
  <2>6. ASSUME handle, state \in {"starting", "running"},
               \A u \in Thread : dispatch'[u] # "waiting"
        PROVE  Idle' /\ read = desired
    <3>1. \A u \in Thread : dispatch[u] = "holding" => u = t
      BY <1>4 DEF DispatchResize
    <3>2. \A u \in Thread : dispatch[u] # "waiting"
      BY <1>4, <2>2, <2>6 DEF DispatchResize
    <3>3. Idle'
      BY <2>2, <2>6, <3>1, <3>2 DEF TypeOK
    <3>4. read = desired
      BY <1>4, <2>6, <3>2 DEF DispatchResize
    <3>5. QED
      BY <3>3, <3>4
  <2>7. SizeUnderway'
    BY <2>1, <2>5, <2>6
  <2>8. QED
    BY <2>3, <2>4, <2>7
<1>5. ASSUME ApplyResize PROVE Goal'
  <2>1. worker = "done" /\ UNCHANGED <<worker, handle, state, desired, read, dispatch, missed>>
    BY <1>5 DEF ApplyResize, lifeVars
  <2>2. Settling' = Settling
    <3>1. /\ Len(commands) \in Nat \ {0} /\ Len(Tail(commands)) = Len(commands) - 1
          /\ \A i \in 1 .. Len(commands) - 1 : Tail(commands)[i] = commands[i + 1]
          /\ Head(commands) = commands[1]
      BY <1>5, HeadTailProperties, LenProperties DEF ApplyResize, TypeOK
    <3>2. CASE Len(commands) = 1
      <4>1. Tail(commands) = <<>>
        BY <3>1, <3>2, HeadTailProperties, EmptySeq DEF TypeOK
      <4>2. QED
        BY <1>5, <3>1, <3>2, <4>1 DEF ApplyResize
    <3>3. CASE Len(commands) # 1
      <4>1. Len(Tail(commands)) # 0
        BY <3>1, <3>3
      <4>2. Tail(commands) # <<>> /\ Tail(commands)[Len(Tail(commands))] = commands[Len(commands)]
        BY <3>1, <3>3, <4>1
      <4>3. QED
        BY <1>5, <4>2 DEF ApplyResize
    <3>4. QED
      BY <3>2, <3>3
  <2>3. QED
    BY <2>1, <2>2
<1>6. CASE StartClaim
  BY <1>6 DEF StartClaim
<1>7. CASE StartSpawn
  BY <1>7 DEF StartSpawn, lifeVars
<1>8. CASE StartAttach
  <2>1. /\ worker = "spawned" /\ worker' = "done" /\ Idle /\ commands = <<>> /\ ~missed
        /\ applied = launched /\ state # "running"
        /\ UNCHANGED <<state, desired, launched, applied, commands, read, missed>>
    BY <1>8 DEF StartAttach, lifeVars
  <2>2. CASE state = "starting" /\ desired # launched
    <3>1. "worker" \in Thread /\ dispatch' = [dispatch EXCEPT !["worker"] = "waiting"]
      BY <1>8, <2>2 DEF StartAttach, Thread
    <3>2. \A u \in Thread : dispatch'[u] = IF u = "worker" THEN "waiting" ELSE "idle"
      BY <2>1, <3>1 DEF TypeOK
    <3>3. QED
      BY <2>1, <3>1, <3>2
  <2>3. CASE ~(state = "starting" /\ desired # launched)
    <3>1. dispatch' = dispatch
      BY <1>8, <2>3 DEF StartAttach
    <3>2. Idle' /\ (state = "starting" => Settling' = desired')
      BY <2>1, <2>3, <3>1
    <3>3. QED
      BY <2>1, <3>1, <3>2
  <2>4. QED
    BY <2>2, <2>3
<1>9. ASSUME BecomeRunning \/ BecomeClosing \/ BecomeFailed \/ Evict PROVE Goal'
  <2>1. /\ UNCHANGED <<desired, launched, applied, commands, dispatch, read, missed, worker,
                        handle>>
        /\ \/ state = "starting" /\ handle /\ state' = "running"
           \/ state' \in {"closing", "failed", "gone"}
    BY <1>9 DEF BecomeRunning, BecomeClosing, BecomeFailed, Evict
  <2>2. OneHolder'
    BY <2>1
  <2>3. CASE state = "starting" /\ handle /\ state' = "running"
    <3>1. BeforeHandle' /\ SizeUnderway'
      BY <2>1, <2>3
    <3>2. QED
      BY <2>2, <3>1
  <2>4. CASE state' \in {"closing", "failed", "gone"}
    <3>1. BeforeHandle' /\ SizeUnderway'
      BY <2>1, <2>4
    <3>2. QED
      BY <2>2, <3>1
  <2>5. QED
    BY <2>1, <2>3, <2>4
<1>10. ASSUME BecomeClosed \/ EofAccepted PROVE Goal'
  BY <1>10 DEF BecomeClosed, EofAccepted
<1>11. ASSUME EofQueued \/ EofDrained \/ ShutdownBegin \/ ShutdownClear PROVE Goal'
  BY <1>1, <1>11 DEF EofQueued, EofDrained, ShutdownBegin, ShutdownClear, lifeVars
<1>12. ASSUME NEW c \in Client, NEW a \in Attachment,
              \/ \E out, inp \in BOOLEAN : Attach(c, a, out, inp)
              \/ Detach(c, a) \/ ClaimInput(c, a) \/ ReleaseInput(c, a)
       PROVE  Goal'
  BY <1>1, <1>12 DEF Attach, Detach, ClaimInput, ReleaseInput, lifeVars
<1>13. ASSUME NEW c \in Client, Disconnect(c) PROVE Goal'
  BY <1>1, <1>13 DEF Disconnect, lifeVars
<1>14. ASSUME UNCHANGED vars PROVE Goal'
  BY <1>1, <1>14 DEF vars, lifeVars
<1>15. QED
  BY <1>2, <1>3, <1>4, <1>5, <1>6, <1>7, <1>8, <1>9, <1>10, <1>11, <1>12, <1>13, <1>14
     DEF Next, ClientStep, SizeStep, LifeStep

\* When every dispatch is over the PTY has the size that was asked for last,
\* for any number of requests that race the start worker: what makes it so is
\* that _dispatch_resize reads the size only under the dispatch lock.
THEOREM NewestSizeWins == Spec => []SizeSettles
<1>1. Init => SizeInv
  <2>1. Init => TypeOK
    BY InvInit DEF AttachmentsInv
  <2>2. Init => BeforeHandle /\ OneHolder /\ SizeUnderway
    BY DEF Init, BeforeHandle, OneHolder, SizeUnderway, Idle
  <2>3. QED
    BY <2>1, <2>2 DEF SizeInv
<1>2. SizeInv /\ [Next]_vars => SizeInv'
  BY TypeStep, SizeInvStep DEF SizeInv
<1>3. SizeInv => SizeSettles
  BY DEF SizeInv, SizeUnderway, SizeSettles, Settling
<1>4. QED
  BY <1>1, <1>2, <1>3, PTL DEF Spec
=============================================================================
