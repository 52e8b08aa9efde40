--------------------------- MODULE ReceiverProofs ---------------------------
(***************************************************************************)
(* The receiver's effects are those of its marked rows, and the receiver   *)
(* implements module Delivery, for every set of events, of threads and of  *)
(* stray deliveries, every tolerance and every number of crashes.          *)
(***************************************************************************)
EXTENDS Receiver, TLAPS

---------------------------------------------------------------------------
(* The inductive invariant.                                                *)

InboxInv ==
  /\ inbox \in [Events -> {"absent", "pending", "processed"}]
  /\ EffectIffMarker
  /\ Accepted \subseteq happened

\* The row the worker's transaction holds stays as it found it.
WorkerInv ==
  /\ worker \in WorkerStates
  /\ Locked => worker.event \in Pending

\* Whatever was sent is an event that happened, signed with the secret.
WireInv ==
  \A d \in sent : \E e \in Events : e \in happened /\ d.body = BodyOf(e)

\* A thread that stores or acknowledges an event knows it from the wire.
ThreadInv ==
  /\ thread \in [Threads -> ThreadStates]
  /\ \A h \in Threads :
       /\ thread[h].stage = "storing" => thread[h].event \in happened \intersect Events
       /\ thread[h].stage = "answering" /\ thread[h].status = 200
            => thread[h].event \in Accepted
  /\ acknowledged \subseteq Accepted

RInv == InboxInv /\ WorkerInv /\ WireInv /\ ThreadInv

---------------------------------------------------------------------------
(* Lemmas about the operators.                                             *)

\* What passes a receiver's checks was sent for an event that happened: no
\* forged and no misaddressed delivery does (webhook.go:72-112, ParseEvent).
LEMMA VerifiedHappened ==
  ASSUME RInv, NEW d \in Wire, Verified(d)
  PROVE  d.body.id \in happened \intersect Events
<1>1. d.header = Sign(Secret, d.header.t, d.body)
  BY WebhookAssumption, ReceiverAssumption
  DEF Verified, VerifySignature, VerifySignatureAt
<1>2. d \notin Forged
  BY <1>1, ReceiverAssumption
<1>3. d \notin Misaddressed
  <2> SUFFICES ASSUME d \in Misaddressed PROVE FALSE
    OBVIOUS
  <2>1. d.body \in Bodies
    BY ReceiverAssumption DEF Deliveries
  <2>2. d.body.json /\ d.body.type /\ d.body.id \in Events /\ d.body.tenant = Tenant
    BY <2>1 DEF Bodies, Verified, Parses
  <2>3. d.body = BodyOf(d.body.id)
    BY <2>1, <2>2 DEF Bodies, BodyOf
  <2> QED
    BY <2>2, <2>3, ReceiverAssumption
<1>4. d \in sent
  BY <1>2, <1>3 DEF Wire
<1>5. PICK e \in Events : e \in happened /\ d.body = BodyOf(e)
  BY <1>4 DEF RInv, WireInv
<1>6. d.body.id = e
  BY <1>5 DEF BodyOf
<1> QED
  BY <1>5, <1>6

---------------------------------------------------------------------------
(* The invariant holds initially and is preserved.                         *)

LEMMA RInit == Init => RInv
<1> SUFFICES ASSUME Init PROVE RInv
  OBVIOUS
<1>1. InboxInv
  BY DEF Init, InboxInv, EffectIffMarker, Accepted
<1>2. WorkerInv
  BY DEF Init, WorkerInv, WorkerStates, Locked, Resting
<1>3. WireInv
  BY DEF Init, WireInv
<1>4. ThreadInv
  BY DEF Init, ThreadInv, ThreadStates, Idle
<1> QED
  BY <1>1, <1>2, <1>3, <1>4 DEF RInv

\* The environment's steps add to what happened and to what was sent.
LEMMA EnvironmentStep ==
  ASSUME RInv,
         \/ Tick \/ Configure \/ BreakWorker \/ MendWorker \/ Restart
         \/ \E e \in Events : Happen(e) \/ Send(e) \/ Redeliver(e)
  PROVE  RInv'
<1>1. /\ inbox' = inbox /\ effects' = effects /\ acknowledged' = acknowledged
      /\ happened \subseteq happened'
  BY DEF Tick, Configure, BreakWorker, MendWorker, Restart, Happen, Send, Redeliver, Transmit,
         walletVars, fileVars, tableVars
<1>2. InboxInv'
  BY <1>1 DEF RInv, InboxInv, EffectIffMarker, Accepted
<1>3. worker' = worker \/ worker' = Resting
  BY DEF Tick, Configure, BreakWorker, MendWorker, Restart, Happen, Send, Redeliver, Transmit
<1>4. WorkerInv'
  BY <1>1, <1>3 DEF RInv, WorkerInv, WorkerStates, Locked, Pending, Resting
<1>5. WireInv'
  <2>1. CASE sent' = sent
    BY <2>1, <1>1 DEF RInv, WireInv, BodyOf
  <2>2. CASE \E e \in Events : Send(e) \/ Redeliver(e)
    <3>1. PICK e \in Events : Send(e) \/ Redeliver(e)
      BY <2>2
    <3>2. e \in happened /\ happened' = happened /\ sent' = sent \union {DeliveryOf(e)}
      BY <3>1 DEF Send, Redeliver, Transmit
    <3>3. DeliveryOf(e).body = BodyOf(e)
      BY DEF DeliveryOf
    <3>4. \A f \in Events : BodyOf(f)' = BodyOf(f)
      BY DEF BodyOf
    <3> QED
      BY <3>2, <3>3, <3>4 DEF RInv, WireInv
  <2> QED
    BY <2>1, <2>2 DEF Tick, Configure, BreakWorker, MendWorker, Restart, Happen, walletVars
<1>6. thread' = thread \/ thread' = [h \in Threads |-> Idle]
  BY DEF Tick, Configure, BreakWorker, MendWorker, Restart, Happen, Send, Redeliver, Transmit
<1>7. ThreadInv'
  <2>1. CASE thread' = thread
    BY <2>1, <1>1 DEF RInv, ThreadInv, Accepted
  <2>2. CASE thread' = [h \in Threads |-> Idle]
    BY <2>2, <1>1 DEF RInv, ThreadInv, Accepted, Idle, ThreadStates
  <2> QED
    BY <1>6, <2>1, <2>2
<1> QED
  BY <1>2, <1>4, <1>5, <1>7 DEF RInv

LEMMA HandlerStep ==
  ASSUME RInv, NEW h \in Threads, Handler(h)
  PROVE  RInv'
<1> USE DEF RInv
<1>1. CASE \E d \in Wire : Receive(h, d)
  <2>1. PICK d \in Wire, advisory \in Events, reject \in BOOLEAN :
          SetThread(h, CASE ~ configured -> Answering(Nil, 503)
                         [] configured /\ ~ Verified(d) -> Answering(Nil, 401)
                         [] OTHER -> IF reject THEN Answering(d.body.id, 503)
                                     ELSE Storing(d.body.id))
    BY <1>1 DEF Receive, Identity
  <2>2. UNCHANGED <<walletVars, tableVars, worker>>
    BY <1>1 DEF Receive
  <2>3. ThreadInv'
    BY <2>1, <2>2, VerifiedHappened
    DEF ThreadInv, SetThread, Answering, Storing, ThreadStates, walletVars, tableVars, Accepted
  <2> QED
    BY <2>2, <2>3 DEF InboxInv, EffectIffMarker, Accepted, WorkerInv, Locked, Pending, WireInv,
                      walletVars, tableVars
<1>2. CASE Store(h)
  <2> DEFINE e == thread[h].event
  <2>1. e \in happened \intersect Events /\ ~ Locked
    BY <1>2 DEF Store, ThreadInv
  <2>2. /\ inbox' = [inbox EXCEPT ![e] = IF @ = "absent" THEN "pending" ELSE @]
        /\ thread' = [thread EXCEPT ![h] = Answering(e, 200)]
        /\ UNCHANGED <<walletVars, effects, worker>>
    BY <1>2 DEF Store, SetThread
  <2>3. inbox' \in [Events -> {"absent", "pending", "processed"}]
    BY <2>1, <2>2 DEF InboxInv
  <2>4. Accepted' = Accepted \union {e}
    BY <2>1, <2>2 DEF InboxInv, Accepted
  <2>5. InboxInv'
    BY <2>1, <2>2, <2>3, <2>4 DEF InboxInv, EffectIffMarker, walletVars
  <2>6. ThreadInv'
    BY <2>1, <2>2, <2>4 DEF ThreadInv, Answering, ThreadStates, walletVars
  <2>7. WorkerInv' /\ WireInv'
    BY <2>1, <2>2 DEF WorkerInv, Locked, WireInv, walletVars
  <2> QED
    BY <2>5, <2>6, <2>7
<1>3. CASE StoreFails(h) \/ GoUnanswered(h)
  <2>1. UNCHANGED <<walletVars, tableVars, worker>>
    BY <1>3 DEF StoreFails, GoUnanswered
  <2>2. ThreadInv'
    BY <1>3, <2>1 DEF StoreFails, GoUnanswered, SetThread, Answering, Idle, ThreadInv,
                      ThreadStates, walletVars, tableVars, Accepted
  <2> QED
    BY <2>1, <2>2 DEF InboxInv, EffectIffMarker, Accepted, WorkerInv, Locked, Pending, WireInv,
                      walletVars, tableVars
<1>4. CASE Answer(h)
  <2>1. UNCHANGED <<happened, sent, tableVars, worker>>
    BY <1>4 DEF Answer
  <2>2. ThreadInv'
    BY <1>4, <2>1 DEF Answer, SetThread, Idle, ThreadInv, ThreadStates, tableVars, Accepted
  <2> QED
    BY <2>1, <2>2 DEF InboxInv, EffectIffMarker, Accepted, WorkerInv, Locked, Pending, WireInv,
                      tableVars
<1> QED
  BY <1>1, <1>2, <1>3, <1>4 DEF Handler

LEMMA WorkerPreserves ==
  ASSUME RInv, WorkerStep \/ WorkerDies
  PROVE  RInv'
<1> USE DEF RInv
<1>1. CASE Commit
  <2> DEFINE e == worker.event
  <2>1. e \in Pending
    BY <1>1 DEF Commit, WorkerInv, Locked
  <2>2. /\ inbox' = [inbox EXCEPT ![e] = "processed"]
        /\ effects' = effects \union {e}
        /\ worker' = Resting
        /\ UNCHANGED <<walletVars, thread>>
    BY <1>1 DEF Commit
  <2>3. inbox' \in [Events -> {"absent", "pending", "processed"}]
    BY <2>2 DEF InboxInv
  <2>4. Accepted' = Accepted
    BY <2>1, <2>2 DEF InboxInv, Accepted, Pending
  <2>5. EffectIffMarker'
    BY <2>1, <2>2 DEF InboxInv, EffectIffMarker, Pending
  <2>6. WorkerInv'
    BY <2>2 DEF WorkerInv, WorkerStates, Locked, Resting
  <2> QED
    BY <2>2, <2>3, <2>4, <2>5, <2>6 DEF InboxInv, ThreadInv, WireInv, walletVars
<1>2. CASE Begin \/ Apply \/ RollBack \/ WorkerDies
  <2>1. UNCHANGED <<walletVars, thread, tableVars>>
    BY <1>2 DEF Begin, Apply, RollBack, WorkerDies
  <2>2. Pending' = Pending
    BY <2>1 DEF Pending, tableVars
  <2>3. WorkerInv'
    <3>1. CASE Begin
      <4>1. PICK e \in Pending : worker' = [stage |-> "open", event |-> e]
        BY <3>1 DEF Begin
      <4> QED
        BY <2>2, <4>1 DEF WorkerInv, WorkerStates, Locked, Pending
    <3>2. CASE Apply
      BY <2>2, <3>2 DEF Apply, WorkerInv, WorkerStates, Locked
    <3>3. CASE RollBack \/ WorkerDies
      BY <3>3 DEF RollBack, WorkerDies, WorkerInv, WorkerStates, Locked, Resting, Dead
    <3> QED
      BY <1>2, <3>1, <3>2, <3>3
  <2> QED
    BY <2>1, <2>3 DEF InboxInv, EffectIffMarker, Accepted, ThreadInv, WireInv, walletVars, tableVars
<1> QED
  BY <1>1, <1>2 DEF WorkerStep

LEMMA RStep == RInv /\ [Next]_vars => RInv'
<1> SUFFICES ASSUME RInv, [Next]_vars PROVE RInv'
  OBVIOUS
<1>1. CASE UNCHANGED vars
  <2>1. UNCHANGED <<walletVars, thread, tableVars, worker>>
    BY <1>1 DEF vars
  <2>2. InboxInv'
    BY <2>1 DEF RInv, InboxInv, EffectIffMarker, Accepted, walletVars, tableVars
  <2>3. WorkerInv'
    BY <2>1 DEF RInv, WorkerInv, WorkerStates, Locked, Pending, tableVars
  <2>4. WireInv'
    BY <2>1 DEF RInv, WireInv, BodyOf, walletVars
  <2>5. ThreadInv'
    BY <2>1 DEF RInv, ThreadInv, ThreadStates, Accepted, walletVars, tableVars
  <2> QED
    BY <2>2, <2>3, <2>4, <2>5 DEF RInv
<1>2. CASE \/ Tick \/ Configure \/ BreakWorker \/ MendWorker \/ Restart
           \/ \E e \in Events : Happen(e) \/ Send(e) \/ Redeliver(e)
  BY <1>2, EnvironmentStep
<1>3. CASE \E h \in Threads : Handler(h)
  BY <1>3, HandlerStep
<1>4. CASE WorkerStep \/ WorkerDies
  BY <1>4, WorkerPreserves
<1> QED
  BY <1>1, <1>2, <1>3, <1>4 DEF Next

\* The invariant of the receiver (receiver.py:14-63).
THEOREM ReceiverInvariance == Spec => []RInv
BY RInit, RStep, PTL DEF Spec

\* The effects are those of the marked rows at every moment, for every number
\* of events, threads and crashes (receiver.py:15-24).
THEOREM EffectsAreMarked == Spec => []EffectIffMarker
<1>1. RInv => EffectIffMarker
  BY DEF RInv, InboxInv
<1> QED
  BY <1>1, ReceiverInvariance, PTL

---------------------------------------------------------------------------
(* The window.                                                             *)

\* What verification says of a delivery signed with the secret is what the
\* window says, in the arithmetic of the code.
LEMMA SignedVerifies ==
  ASSUME NEW d \in Deliveries, NEW tolerance \in Spans, d.header = Sign(Secret, d.header.t, d.body)
  PROVE  (VerifySignature(d.header, d.body, Secret, tolerance, now) = "nil")
           <=> InWindow(d.header.t, IF tolerance < 0 THEN Negated(tolerance) ELSE tolerance, now)
<1>1. Secret # NoSecret
  BY WebhookAssumption, ReceiverAssumption
<1>2. d.header.wellFormed
  BY DEF Sign
<1> QED
  BY <1>1, <1>2 DEF VerifySignature, VerifySignatureAt

\* The code's two comparisons against the window in unbounded integers.  Only
\* the most negative tolerance is its own magnitude's negation.
LEMMA WindowIsTheWindow ==
  ASSUME NEW t \in Int, NEW tolerance \in Spans, now \in Int
  PROVE  LET magnitude == IF tolerance < 0 THEN Negated(tolerance) ELSE tolerance
             span == IF tolerance < 0 THEN -tolerance ELSE tolerance
             skew == now - t * TicksPerSecond
         IN  /\ InWindow(t, magnitude, now) => -span <= skew /\ skew <= span
             /\ tolerance # -HalfSpan /\ -span <= skew /\ skew <= span
                  => InWindow(t, magnitude, now)
<1> DEFINE x == t * TicksPerSecond
<1>1. x \in Int /\ HalfSpan \in Int /\ HalfSpan > 0 /\ tolerance \in Int
      /\ tolerance >= -HalfSpan /\ tolerance < HalfSpan
  BY WebhookAssumption DEF Spans
<1> HIDE DEF x
<1>2. InWindow(t, IF tolerance < 0 THEN Negated(tolerance) ELSE tolerance, now)
        <=> LET magnitude == IF tolerance < 0 THEN Negated(tolerance) ELSE tolerance
            IN  ~ x < now + Negated(magnitude) /\ ~ x > now + magnitude
  BY DEF InWindow, x
<1>3. CASE tolerance >= 0
  BY <1>1, <1>2, <1>3 DEF Negated, x
<1>4. CASE tolerance < 0 /\ tolerance # -HalfSpan
  BY <1>1, <1>2, <1>4 DEF Negated, x
<1>5. CASE tolerance = -HalfSpan
  BY <1>1, <1>2, <1>5 DEF Negated, x
<1> QED
  BY <1>1, <1>3, <1>4, <1>5

\* What was sent is signed as it is, and the clock counts.
SignedInv ==
  /\ now \in Int
  /\ \A d \in sent : d \in Deliveries /\ d.header = Sign(Secret, d.header.t, d.body)

LEMMA SentIsSigned ==
  ASSUME now \in Int, NEW e \in Events
  PROVE  /\ DeliveryOf(e) \in Deliveries
         /\ DeliveryOf(e).header = Sign(Secret, DeliveryOf(e).header.t, DeliveryOf(e).body)
<1> DEFINE t == now \div TicksPerSecond
<1>1. t \in Int
  BY WebhookAssumption
<1> HIDE DEF t
<1>2. BodyOf(e) \in Bodies
  BY ReceiverAssumption DEF BodyOf, Bodies
<1>3. Sign(Secret, t, BodyOf(e)) \in HeaderTexts
  BY <1>1, <1>2, ReceiverAssumption DEF Sign, HeaderTexts
<1>4. DeliveryOf(e) = [header |-> Sign(Secret, t, BodyOf(e)), body |-> BodyOf(e)]
  BY DEF DeliveryOf, t
<1>5. DeliveryOf(e) \in Deliveries
  BY <1>2, <1>3, <1>4 DEF Deliveries
<1>6. Sign(Secret, t, BodyOf(e)).t = t
  BY DEF Sign
<1>7. DeliveryOf(e).header = Sign(Secret, t, BodyOf(e)) /\ DeliveryOf(e).body = BodyOf(e)
  BY <1>4
<1> QED
  BY <1>5, <1>6, <1>7

LEMMA SignedStep == SignedInv /\ [Next]_vars => SignedInv'
<1> SUFFICES ASSUME SignedInv, [Next]_vars PROVE SignedInv'
  OBVIOUS
<1>1. CASE UNCHANGED <<now, sent>>
  BY <1>1 DEF SignedInv, Deliveries, HeaderTexts, Bodies, Sign
<1>2. CASE Tick
  BY <1>2 DEF Tick, walletVars, SignedInv, Deliveries, HeaderTexts, Bodies, Sign
<1>3. ASSUME NEW e \in Events, Send(e) \/ Redeliver(e) PROVE SignedInv'
  <2>1. sent' = sent \union {DeliveryOf(e)} /\ now' = now
    BY <1>3 DEF Send, Redeliver, Transmit
  <2>2. \A d \in sent' : d \in Deliveries /\ d.header = Sign(Secret, d.header.t, d.body)
    BY <2>1, SentIsSigned DEF SignedInv
  <2> QED
    BY <2>1, <2>2 DEF SignedInv, Deliveries, HeaderTexts, Bodies, Sign
<1>4. ASSUME NEW e \in Events, Happen(e) PROVE UNCHANGED <<now, sent>>
  BY <1>4 DEF Happen
<1>5. ASSUME Configure \/ BreakWorker \/ MendWorker \/ Restart PROVE UNCHANGED <<now, sent>>
  BY <1>5 DEF Configure, BreakWorker, MendWorker, Restart, walletVars
<1>6. ASSUME NEW h \in Threads, Handler(h) PROVE UNCHANGED <<now, sent>>
  BY <1>6 DEF Handler, Receive, Store, StoreFails, Answer, GoUnanswered, walletVars
<1>7. ASSUME WorkerStep \/ WorkerDies PROVE UNCHANGED <<now, sent>>
  BY <1>7 DEF WorkerStep, WorkerDies, Begin, Apply, RollBack, Commit, walletVars
<1>8. CASE UNCHANGED vars
  BY <1>1, <1>8 DEF vars, walletVars
<1> QED
  BY <1>1, <1>2, <1>3, <1>4, <1>5, <1>6, <1>7, <1>8 DEF Next

LEMMA SignedSuffices == SignedInv => VerifiesWhatWasSigned
<1> SUFFICES ASSUME SignedInv, NEW d \in Wire, NEW tolerance \in Spans
             PROVE LET verifies == VerifySignature(d.header, d.body, Secret, tolerance, now) = "nil"
                       genuine == d \notin Forged /\ Within(d, tolerance)
                   IN  /\ verifies => genuine
                       /\ genuine /\ tolerance # -HalfSpan => verifies
  BY DEF VerifiesWhatWasSigned
<1>1. d \in Deliveries
  BY ReceiverAssumption DEF SignedInv, Wire
<1>2. d.header.t \in Int
  BY <1>1 DEF Deliveries, HeaderTexts
<1>3. CASE d.header = Sign(Secret, d.header.t, d.body)
  <2>1. d \notin Forged
    BY <1>3, ReceiverAssumption
  <2> QED
    BY <1>1, <1>2, <1>3, <2>1, SignedVerifies, WindowIsTheWindow DEF SignedInv, Within
<1>4. CASE d.header # Sign(Secret, d.header.t, d.body)
  <2>1. VerifySignature(d.header, d.body, Secret, tolerance, now) # "nil"
    BY <1>4 DEF VerifySignature, VerifySignatureAt
  <2>2. d \in Forged
    BY <1>4, ReceiverAssumption DEF SignedInv, Wire
  <2> QED
    BY <2>1, <2>2
<1> QED
  BY <1>3, <1>4

\* At every moment and for every tolerance, what verifies is what was signed
\* within the window (webhook.go:72-112).
THEOREM OnlySignedInTimeVerifies == Spec => []VerifiesWhatWasSigned
<1>1. Init => SignedInv
  BY DEF Init, SignedInv
<1> QED
  BY <1>1, SignedStep, SignedSuffices, PTL DEF Spec

---------------------------------------------------------------------------
(* Types.                                                                  *)

\* What RInv and SignedInv leave open of the type invariant.
ClockAndFiles ==
  /\ now \in 0 .. MaxNow /\ faults \in 0 .. MaxFaults
  /\ configured \in BOOLEAN /\ workerFail \in BOOLEAN
  /\ happened \subseteq Events

LEMMA ClockAndFilesStep == ClockAndFiles /\ [Next]_vars => ClockAndFiles'
<1> SUFFICES ASSUME ClockAndFiles, [Next]_vars PROVE ClockAndFiles'
  OBVIOUS
<1>0. MaxNow \in Nat /\ MaxFaults \in Nat
  BY ReceiverAssumption
<1>1. CASE Tick
  <2>1. now' \in 0 .. MaxNow
    BY <1>0, <1>1 DEF Tick, ClockAndFiles
  <2> QED BY <1>1, <2>1 DEF Tick, walletVars, fileVars, ClockAndFiles
<1>2. CASE BreakWorker \/ Restart
  <2>1. faults' \in 0 .. MaxFaults
    BY <1>0, <1>2 DEF BreakWorker, Restart, ClockAndFiles
  <2> QED BY <1>2, <2>1 DEF BreakWorker, Restart, walletVars, fileVars, ClockAndFiles
<1>3. CASE Configure \/ MendWorker
  BY <1>3 DEF Configure, MendWorker, walletVars, ClockAndFiles
<1>4. ASSUME NEW e \in Events, Happen(e) \/ Send(e) \/ Redeliver(e) PROVE ClockAndFiles'
  BY <1>4 DEF Happen, Send, Redeliver, Transmit, fileVars, ClockAndFiles
<1>5. CASE UNCHANGED <<now, happened, fileVars, faults>>
  BY <1>5 DEF fileVars, ClockAndFiles
<1>6. ASSUME NEW h \in Threads, Handler(h) PROVE UNCHANGED <<now, happened, fileVars, faults>>
  BY <1>6 DEF Handler, Receive, Store, StoreFails, Answer, GoUnanswered, walletVars
<1>7. ASSUME WorkerStep \/ WorkerDies PROVE UNCHANGED <<now, happened, fileVars, faults>>
  BY <1>7 DEF WorkerStep, WorkerDies, Begin, Apply, RollBack, Commit, walletVars
<1>8. CASE UNCHANGED vars
  BY <1>5, <1>8 DEF vars, walletVars
<1> QED BY <1>1, <1>2, <1>3, <1>4, <1>5, <1>6, <1>7, <1>8 DEF Next

\* The type invariant of the receiver: what it keeps, of the wire and of its
\* tables, is of events and deliveries, whatever arrives (receiver.py).
THEOREM TypeCorrect == Spec => []TypeOK
<1>1. Init => SignedInv /\ ClockAndFiles
  <2> SUFFICES ASSUME Init PROVE SignedInv /\ ClockAndFiles
    OBVIOUS
  <2>1. 0 \in 0 .. MaxNow /\ 0 \in 0 .. MaxFaults
    BY ReceiverAssumption
  <2>2. ClockAndFiles
    BY <2>1 DEF Init, ClockAndFiles
  <2>3. SignedInv
    BY DEF Init, SignedInv
  <2> QED BY <2>2, <2>3
<1>2. RInv /\ SignedInv /\ ClockAndFiles => TypeOK
  BY DEF RInv, InboxInv, WorkerInv, ThreadInv, EffectIffMarker, Accepted, SignedInv,
     ClockAndFiles, TypeOK
<1> QED BY <1>1, <1>2, SignedStep, ClockAndFilesStep, ReceiverInvariance, PTL DEF Spec

---------------------------------------------------------------------------
(* The receiver implements module Delivery.                                *)

LEMMA RefinesInit == Init => D!Init
BY DEF Init, Accepted, D!Init

\* Steps that change none of the four sets an integrator sees.
LEMMA Stutters ==
  ASSUME UNCHANGED <<happened, inbox, acknowledged, effects>>
  PROVE  UNCHANGED D!vars
BY DEF D!vars, Accepted

LEMMA StoreRefines ==
  ASSUME RInv, NEW h \in Threads, Store(h)
  PROVE  [D!Next]_D!vars
<1> DEFINE e == thread[h].event
<1>1. e \in happened \intersect Events
  BY DEF RInv, ThreadInv, Store
<1>2. inbox' = [inbox EXCEPT ![e] = IF @ = "absent" THEN "pending" ELSE @]
      /\ UNCHANGED <<happened, acknowledged, effects>>
  BY DEF Store, walletVars
<1>3. inbox \in [Events -> {"absent", "pending", "processed"}]
  BY DEF RInv, InboxInv
<1>4. CASE inbox[e] = "absent"
  <2>1. Accepted' = Accepted \union {e} /\ e \notin Accepted
    BY <1>1, <1>2, <1>3, <1>4 DEF Accepted
  <2>2. D!Accept(e)
    BY <1>1, <1>2, <2>1 DEF D!Accept
  <2> QED
    BY <1>1, <2>2 DEF D!Next
<1>5. CASE inbox[e] # "absent"
  <2>1. inbox' = inbox
    BY <1>1, <1>2, <1>3, <1>5
  <2> QED
    BY <1>2, <2>1, Stutters
<1> QED
  BY <1>4, <1>5

LEMMA AnswerRefines ==
  ASSUME RInv, NEW h \in Threads, Answer(h)
  PROVE  [D!Next]_D!vars
<1> DEFINE e == thread[h].event
<1>1. UNCHANGED <<happened, inbox, effects>>
  BY DEF Answer, tableVars
<1>2. Accepted' = Accepted
  BY <1>1 DEF Accepted
<1>3. CASE thread[h].status = 200 /\ e \notin acknowledged
  <2>1. e \in Accepted \ acknowledged /\ acknowledged' = acknowledged \union {e}
    BY <1>3 DEF Answer, RInv, ThreadInv
  <2>2. D!Acknowledge(e)
    BY <1>1, <1>2, <2>1 DEF D!Acknowledge
  <2> QED
    BY <2>1, <2>2 DEF D!Next, Accepted
<1>4. CASE ~ (thread[h].status = 200 /\ e \notin acknowledged)
  <2>1. acknowledged' = acknowledged
    BY <1>4 DEF Answer
  <2> QED
    BY <1>1, <2>1, Stutters
<1> QED
  BY <1>3, <1>4

LEMMA CommitRefines ==
  ASSUME RInv, Commit
  PROVE  [D!Next]_D!vars
<1> DEFINE e == worker.event
<1>1. e \in Pending
  BY DEF RInv, WorkerInv, Locked, Commit
<1>2. /\ inbox' = [inbox EXCEPT ![e] = "processed"] /\ effects' = effects \union {e}
      /\ UNCHANGED <<happened, acknowledged>>
  BY DEF Commit, walletVars
<1>3. inbox \in [Events -> {"absent", "pending", "processed"}] /\ EffectIffMarker
  BY DEF RInv, InboxInv
<1>4. Accepted' = Accepted
  BY <1>1, <1>2, <1>3 DEF Accepted, Pending
<1>5. e \in Accepted \ effects
  BY <1>1, <1>3 DEF Accepted, Pending, EffectIffMarker
<1>6. D!Apply(e)
  BY <1>2, <1>4, <1>5 DEF D!Apply
<1> QED
  BY <1>1, <1>6 DEF D!Next, Pending

LEMMA RefinesStep == RInv /\ [Next]_vars => [D!Next]_D!vars
<1> SUFFICES ASSUME RInv, [Next]_vars PROVE [D!Next]_D!vars
  OBVIOUS
<1>1. CASE UNCHANGED <<happened, inbox, acknowledged, effects>>
  BY <1>1, Stutters
<1>2. ASSUME NEW e \in Events, Happen(e) PROVE [D!Next]_D!vars
  <2>1. Accepted' = Accepted
    BY <1>2 DEF Happen, tableVars, Accepted
  <2>2. D!Happen(e)
    BY <1>2, <2>1 DEF Happen, tableVars, D!Happen
  <2> QED
    BY <2>2 DEF D!Next
<1>3. ASSUME NEW e \in Events, Send(e) \/ Redeliver(e)
      PROVE UNCHANGED <<happened, inbox, acknowledged, effects>>
  BY <1>3 DEF Send, Redeliver, Transmit, tableVars
<1>4. ASSUME Tick \/ Configure \/ BreakWorker \/ MendWorker \/ Restart
      PROVE UNCHANGED <<happened, inbox, acknowledged, effects>>
  BY <1>4 DEF Tick, Configure, BreakWorker, MendWorker, Restart, walletVars, tableVars
<1>5. ASSUME NEW h \in Threads, Handler(h) PROVE [D!Next]_D!vars
  <2>1. ASSUME NEW d \in Wire, Receive(h, d)
        PROVE UNCHANGED <<happened, inbox, acknowledged, effects>>
    BY <2>1 DEF Receive, walletVars, tableVars
  <2>2. ASSUME StoreFails(h) \/ GoUnanswered(h)
        PROVE UNCHANGED <<happened, inbox, acknowledged, effects>>
    BY <2>2 DEF StoreFails, GoUnanswered, walletVars, tableVars
  <2> QED
    BY <1>5, <1>1, <2>1, <2>2, StoreRefines, AnswerRefines DEF Handler
<1>6. ASSUME Begin \/ Apply \/ RollBack \/ WorkerDies
      PROVE UNCHANGED <<happened, inbox, acknowledged, effects>>
  BY <1>6 DEF Begin, Apply, RollBack, WorkerDies, walletVars, tableVars
<1>7. CASE UNCHANGED vars
  BY <1>1, <1>7 DEF vars, walletVars, tableVars
<1> QED
  BY <1>1, <1>2, <1>3, <1>4, <1>5, <1>6, <1>7, CommitRefines DEF Next, WorkerStep

\* What the receiver does is what module Delivery promises: nothing but what
\* happened is accepted, a 200 is said of a durable row only, and what was
\* accepted takes effect once and is never lost (README.md:267-274).
THEOREM DeliveryImplemented == Spec => DeliverySpec
BY RefinesInit, RefinesStep, ReceiverInvariance, PTL DEF Spec, DeliverySpec, D!Spec
==============================================================================
