----------------------------- MODULE JourneyProofs -----------------------------
(***************************************************************************)
(* Proofs about Journey for any scripts about one payment, and any bounds  *)
(* on attempts and calls: what is repeated or arrives late moves money at  *)
(* most once, answered calls take effect once and in order, and what was   *)
(* concluded of a final status stands.                                     *)
(***************************************************************************)
EXTENDS Journey, WellFoundedInduction, TLAPS

---------------------------------------------------------------------------
(* The inductive invariant.                                                *)

Places == 1 .. Len(script)
Asks(i, endpoint) == script[i].endpoint = endpoint

\* While a call is under way or was not answered, there is one.
CallerInv ==
  /\ phase # "ready" => step \in Places /\ call >= 1 /\ attempt >= 1
  /\ phase = "ready" => call = 0

\* Money is held exactly while a payment waits for its capture.
Held(w) ==
  /\ w.payment = "requires_capture" <=> w.held > 0
  /\ w.payment # "captured" => w.taken = 0

\* There is a payment only once its step was carried out, which it is once.
PaymentInv ==
  /\ world.payment # "none" => \A i \in Places : Asks(i, "CreatePayment") => i \in executed
  /\ Held(world)

\* A keyed step has moved money exactly if it was carried out.  Another one
\* has moved money only by a change of status that cannot happen again.
MovedInv ==
  \A i \in Places :
    /\ Keyed(script[i].endpoint) => moved[i] = IF i \in executed THEN 1 ELSE 0
    /\ ~ Keyed(script[i].endpoint) =>
         \/ moved[i] = 0
         \/ moved[i] = 1 /\ Asks(i, "VoidPayment") /\ world.payment = "voided"
         \/ moved[i] = 1 /\ Asks(i, "RefreshTopup") /\ world.topup = "succeeded"

\* What is concluded was carried out, or read back.
ConcludedInv ==
  /\ \A i \in executed :
       Asks(i, "CapturePayment") => world.payment = "captured"
  /\ \A i \in concluded :
       /\ Keyed(script[i].endpoint) => i \in executed
       /\ Asks(i, "VoidPayment") => world.payment = "voided"
       /\ Asks(i, "CancelSubscription") => world.subscription = "canceled"

\* While every call was answered, all that is left on the wire of earlier
\* steps is keyed and stored, and of this one what `do` has sent: one request
\* if it has no key.
OnWire(r) ==
  /\ r.step <= step
  /\ r.step < step => Stored(r)
  /\ r.step = step =>
       /\ phase \in {"calling", "stopped"} /\ ~ Refused
       /\ r.call = 1 /\ r.attempt <= attempt
       /\ attempt = 1 => step \notin executed
       /\ ~ Keyed(Here.endpoint) =>
            phase = "calling" /\ r.attempt = attempt /\ step \notin executed

\* The step the world has come to.
Reached == IF step \in executed THEN step ELSE step - 1

OrderInv ==
  ~ silent =>
    /\ phase # "unknown" /\ call <= 1
    /\ \A i \in executed : i <= step
    /\ phase = "ready" \/ Refused => step \notin executed
    /\ \A r \in wire : OnWire(r)
    /\ world.payment # "expired" => world = After(Reached)

JInv == TypeOK /\ CallerInv /\ PaymentInv /\ MovedInv /\ ConcludedInv

---------------------------------------------------------------------------
(* What the service makes of a step.                                       *)

LEMMA StepsFacts ==
  ASSUME NEW s \in Steps
  PROVE  /\ s.endpoint \in KeyedWrites \union UnkeyedWrites /\ s.amount \in Nat
         /\ Keyed(s.endpoint) <=> s.endpoint \in KeyedWrites
         /\ s.endpoint \in {"VoidPayment", "PauseSubscription", "ResumeSubscription",
                            "CancelSubscription", "SetUserCreditLimit", "RefreshTopup",
                            "CreateUser"} \union WebhookCalls.unkeyed => ~ Keyed(s.endpoint)
BY DEF Steps, Keyed, KeyedWrites, MoneyCalls, WebhookCalls

LEMMA WorldFacts ==
  ASSUME NEW w \in Worlds
  PROVE  /\ w.held \in Nat /\ w.taken \in Nat /\ w.refunded \in Nat
         /\ w.sent \in Nat /\ w.credited \in Nat
         /\ {"captured", "requires_capture", "voided", "expired"} \subseteq PaymentStatus
         /\ "succeeded" \in TopupStatus
BY DEF Worlds, PaymentStatus, TopupStatus

LEMMA ServedPayment ==
  ASSUME NEW w \in Worlds, NEW s \in Steps, NEW v \in Served(w, s),
         s.endpoint \in {"CreatePayment", "CapturePayment", "VoidPayment", "CreateRefund"}
  PROVE  /\ v \in Worlds
         /\ v.sent = w.sent /\ v.credited = w.credited /\ v.topup = w.topup
         /\ v.subscription = w.subscription
         /\ s.endpoint = "CreatePayment" =>
              \/ /\ v.payment = "captured" /\ v.held = w.held /\ v.taken = w.taken + s.amount
              \/ /\ v.payment = "requires_capture" /\ v.held = w.held + s.amount
                 /\ v.taken = w.taken
         /\ s.endpoint = "CapturePayment" =>
              w.payment = "requires_capture" /\ v.payment = "captured" /\ v.held = 0
         /\ s.endpoint = "VoidPayment" =>
              /\ w.payment \in {"requires_capture", "voided"} /\ v.payment = "voided"
              /\ v.held = 0 /\ v.taken = w.taken /\ v.refunded = w.refunded
         /\ s.endpoint = "CreateRefund" =>
              /\ v.payment = w.payment /\ v.held = w.held /\ v.taken = w.taken
              /\ v.refunded = w.refunded + s.amount
<1>0. s.amount \in Nat
  BY StepsFacts
<1>1. CASE s.endpoint = "CreatePayment"
  <2>1. v \in CreatePayment(w, s)
    BY <1>1 DEF Served, WebhookCalls
  <2>2. v \in Worlds
    <3>1. w.taken + s.amount \in Nat /\ w.held + s.amount \in Nat
      BY <1>0, WorldFacts
    <3>2. CASE s.mode = "instant"
      <4>1. PICK n \in Nat : v = [w EXCEPT !.payment = "captured", !.taken = n]
        BY <2>1, <3>1, <3>2 DEF CreatePayment
      <4> QED BY <4>1, WorldFacts DEF Worlds
    <3>3. CASE s.mode # "instant"
      <4>1. PICK n \in Nat : v = [w EXCEPT !.payment = "requires_capture", !.held = n]
        BY <2>1, <3>1, <3>3 DEF CreatePayment
      <4> QED BY <4>1, WorldFacts DEF Worlds
    <3> QED BY <3>2, <3>3
  <2>3. /\ v.sent = w.sent /\ v.credited = w.credited /\ v.topup = w.topup
        /\ v.subscription = w.subscription
        /\ \/ v.payment = "captured" /\ v.held = w.held /\ v.taken = w.taken + s.amount
           \/ v.payment = "requires_capture" /\ v.held = w.held + s.amount /\ v.taken = w.taken
    BY <2>1 DEF CreatePayment, Worlds
  <2> QED BY <1>1, <2>2, <2>3
<1>2. CASE s.endpoint = "CapturePayment"
  <2>1. v \in CapturePayment(w, s)
    BY <1>2 DEF Served, WebhookCalls
  <2>2. v \in Worlds
    <3>1. w.taken + (IF s.amount = 0 THEN w.held ELSE s.amount) \in Nat
      BY <1>0, WorldFacts
    <3>2. PICK n \in Nat : v = [w EXCEPT !.payment = "captured", !.held = 0, !.taken = n]
      BY <2>1, <3>1 DEF CapturePayment
    <3> QED BY <3>2, WorldFacts DEF Worlds
  <2>3. /\ v.sent = w.sent /\ v.credited = w.credited /\ v.topup = w.topup
        /\ v.subscription = w.subscription
        /\ w.payment = "requires_capture" /\ v.payment = "captured" /\ v.held = 0
    BY <2>1 DEF CapturePayment, Worlds
  <2> QED BY <1>2, <2>2, <2>3
<1>3. CASE s.endpoint = "VoidPayment"
  <2>1. v \in VoidPayment(w, s)
    BY <1>3 DEF Served, WebhookCalls
  <2>2. v \in Worlds
    <3>1. v = [w EXCEPT !.payment = "voided", !.held = 0]
      BY <2>1 DEF VoidPayment
    <3> QED BY <3>1, WorldFacts DEF Worlds
  <2>3. /\ v.sent = w.sent /\ v.credited = w.credited /\ v.topup = w.topup
        /\ v.subscription = w.subscription
        /\ w.payment \in {"requires_capture", "voided"} /\ v.payment = "voided"
        /\ v.held = 0 /\ v.taken = w.taken /\ v.refunded = w.refunded
    BY <2>1 DEF VoidPayment, Worlds
  <2> QED BY <1>3, <2>2, <2>3
<1>4. CASE s.endpoint = "CreateRefund"
  <2>1. v \in CreateRefund(w, s)
    BY <1>4 DEF Served, WebhookCalls
  <2>2. v \in Worlds
    BY <1>0, <2>1 DEF CreateRefund, Worlds
  <2>3. /\ v.sent = w.sent /\ v.credited = w.credited /\ v.topup = w.topup
        /\ v.subscription = w.subscription
        /\ v.payment = w.payment /\ v.held = w.held /\ v.taken = w.taken
        /\ v.refunded = w.refunded + s.amount
    BY <2>1 DEF CreateRefund, Worlds
  <2> QED BY <1>4, <2>2, <2>3
<1> QED BY <1>1, <1>2, <1>3, <1>4

LEMMA ServedOther ==
  ASSUME NEW w \in Worlds, NEW s \in Steps, NEW v \in Served(w, s),
         s.endpoint \notin {"CreatePayment", "CapturePayment", "VoidPayment", "CreateRefund"}
  PROVE  /\ v \in Worlds
         /\ v.payment = w.payment /\ v.held = w.held /\ v.taken = w.taken
         /\ v.refunded = w.refunded
         /\ w.subscription = "canceled" \/ s.endpoint = "CancelSubscription"
              => v.subscription = "canceled"
         /\ w.topup = "succeeded" \/ s.endpoint = "RefreshTopup" => v.topup = "succeeded"
         /\ s.endpoint # "RefreshTopup" \/ w.topup # "created" => v.credited = w.credited
         /\ IF Keyed(s.endpoint) THEN v.sent = w.sent + s.amount ELSE v.sent = w.sent
<1> DEFINE Same(u) == /\ u.payment = w.payment /\ u.held = w.held /\ u.taken = w.taken
                      /\ u.refunded = w.refunded
<1>0. s.amount \in Nat
  BY StepsFacts
<1>1. ASSUME NEW status \in {"paused", "active", "canceled"}, v \in SubscriptionAction(w, status)
      PROVE  /\ v \in Worlds /\ Same(v) /\ v.subscription = status
             /\ v.sent = w.sent /\ v.credited = w.credited /\ v.topup = w.topup
             /\ w.subscription = "canceled" => status = "canceled"
  BY <1>1 DEF SubscriptionAction, Worlds, SubscriptionStatus
<1>2. CASE s.endpoint \in {"PauseSubscription", "ResumeSubscription", "CancelSubscription"}
  <2>1. PICK status \in {"paused", "active", "canceled"} :
          /\ v \in SubscriptionAction(w, status)
          /\ s.endpoint = "CancelSubscription" => status = "canceled"
    BY <1>2 DEF Served, WebhookCalls
  <2>2. /\ v \in Worlds /\ Same(v) /\ v.subscription = status
        /\ v.sent = w.sent /\ v.credited = w.credited /\ v.topup = w.topup
        /\ w.subscription = "canceled" => status = "canceled"
    BY <1>1, <2>1
  <2>3. ~ Keyed(s.endpoint)
    BY <1>2, StepsFacts
  <2> QED BY <1>2, <2>1, <2>2, <2>3
<1>3. CASE s.endpoint = "SetUserCreditLimit"
  <2>1. v \in SetUserCreditLimit(w, s) /\ ~ Keyed(s.endpoint)
    BY <1>3, StepsFacts DEF Served, WebhookCalls
  <2>2. v \in Worlds
    BY <1>0, <2>1 DEF SetUserCreditLimit, Worlds
  <2>3. /\ Same(v) /\ v.subscription = w.subscription
        /\ v.sent = w.sent /\ v.credited = w.credited /\ v.topup = w.topup
    BY <2>1 DEF SetUserCreditLimit, Worlds
  <2> QED BY <1>3, <2>1, <2>2, <2>3
<1>4. CASE s.endpoint = "RefreshTopup"
  <2>1. v \in RefreshTopup(w) /\ ~ Keyed(s.endpoint)
    BY <1>4, StepsFacts DEF Served, WebhookCalls
  <2>2. v \in Worlds
    <3>1. (IF w.topup = "created" THEN w.credited + 1 ELSE w.credited) \in Nat
      BY WorldFacts
    <3>2. PICK n \in Nat : v = [w EXCEPT !.topup = "succeeded", !.credited = n]
      BY <2>1, <3>1 DEF RefreshTopup
    <3> QED BY <3>2, WorldFacts DEF Worlds
  <2>3. /\ Same(v) /\ v.subscription = w.subscription /\ v.sent = w.sent
        /\ v.topup = "succeeded"
        /\ w.topup # "created" => v.credited = w.credited
    BY <2>1 DEF RefreshTopup, Worlds
  <2> QED BY <1>4, <2>1, <2>2, <2>3
<1>5. CASE s.endpoint = "CreateUser"
  <2>1. v \in CreateUser(w) /\ ~ Keyed(s.endpoint)
    BY <1>5, StepsFacts DEF Served, WebhookCalls
  <2>2. v \in Worlds
    BY <1>0, <2>1 DEF CreateUser, Worlds
  <2>3. /\ Same(v) /\ v.subscription = w.subscription
        /\ v.sent = w.sent /\ v.credited = w.credited /\ v.topup = w.topup
    BY <2>1 DEF CreateUser, Worlds
  <2> QED BY <1>5, <2>1, <2>2, <2>3
<1>6. CASE s.endpoint \in WebhookCalls.unkeyed
  <2>1. v \in ChangeWebhooks(w) /\ ~ Keyed(s.endpoint)
    BY <1>6, StepsFacts DEF Served, WebhookCalls
  <2>2. v \in Worlds
    BY <1>0, <2>1 DEF ChangeWebhooks, Worlds
  <2>3. /\ Same(v) /\ v.subscription = w.subscription
        /\ v.sent = w.sent /\ v.credited = w.credited /\ v.topup = w.topup
    BY <2>1 DEF ChangeWebhooks, Worlds
  <2> QED BY <1>6, <2>1, <2>2, <2>3 DEF WebhookCalls
<1>7. CASE s.endpoint \in {"CreateTopup", "CreateTransfer", "ConvertPoints", "CreateSubscription"}
  <2>1. v \in MoveMoney(w, s) /\ Keyed(s.endpoint)
    BY <1>7 DEF Served, Keyed, KeyedWrites, MoneyCalls, WebhookCalls
  <2>2. v \in Worlds
    BY <1>0, <2>1 DEF MoveMoney, Worlds
  <2>3. /\ Same(v) /\ v.subscription = w.subscription
        /\ v.sent = w.sent + s.amount /\ v.credited = w.credited /\ v.topup = w.topup
    BY <2>1 DEF MoveMoney, Worlds
  <2> QED BY <1>7, <2>1, <2>2, <2>3
<1> QED
  BY <1>2, <1>3, <1>4, <1>5, <1>6, <1>7, StepsFacts
     DEF KeyedWrites, UnkeyedWrites, UserCalls, MoneyCalls, WebhookCalls

\* A service that serves a step does so in one way.
LEMMA ServedOnce ==
  ASSUME NEW w, NEW s, NEW u \in Served(w, s), NEW v \in Served(w, s)
  PROVE  u = v
<1>1. \E x : CreatePayment(w, s) \subseteq {x}
  BY DEF CreatePayment
<1>2. \E x : CapturePayment(w, s) \subseteq {x}
  BY DEF CapturePayment
<1>3. \E x : VoidPayment(w, s) \subseteq {x}
  BY DEF VoidPayment
<1>4. \E x : CreateRefund(w, s) \subseteq {x}
  BY DEF CreateRefund
<1>5. \A status : \E x : SubscriptionAction(w, status) \subseteq {x}
  BY DEF SubscriptionAction
<1>6. (\E x : SetUserCreditLimit(w, s) \subseteq {x}) /\ (\E x : RefreshTopup(w) \subseteq {x})
  BY DEF SetUserCreditLimit, RefreshTopup
<1>7. /\ \E x : CreateUser(w) \subseteq {x}
      /\ \E x : ChangeWebhooks(w) \subseteq {x}
      /\ \E x : MoveMoney(w, s) \subseteq {x}
  BY DEF CreateUser, ChangeWebhooks, MoveMoney
<1>8. \E x : Served(w, s) \subseteq {x}
  BY <1>1, <1>2, <1>3, <1>4, <1>5, <1>6, <1>7 DEF Served
<1> QED BY <1>8

LEMMA ServedType ==
  ASSUME NEW w \in Worlds, NEW s \in Steps, NEW v \in Served(w, s)
  PROVE  v \in Worlds
BY ServedPayment, ServedOther

---------------------------------------------------------------------------
(* Steps.                                                                  *)

LEMMA ScriptFacts ==
  ASSUME TypeOK
  PROVE  /\ Len(script) \in Nat
         /\ \A i \in Places : script[i] \in Steps
BY JourneyAssumption DEF TypeOK, Places

\* What a step may do to the service: nothing, let the hold expire, or carry
\* out a request.
LEMMA ServiceSteps ==
  ASSUME [Next]_vars
  PROVE  /\ script' = script
         /\ \/ UNCHANGED <<world, executed, moved>>
            \/ HoldExpires
            \/ \E r \in wire : Execute(r)
<1>1. CASE Call \/ NoAnswer \/ ReadBack \/ HoldExpires
  BY <1>1 DEF Call, NoAnswer, ReadBack, HoldExpires
<1>2. CASE \E r \in wire : Replay(r) \/ Execute(r) \/ Refuse(r) \/ Throttle(r)
  BY <1>2 DEF Replay, Execute, Refuse, Throttle
<1>3. CASE UNCHANGED vars
  BY <1>3 DEF vars
<1> QED BY <1>1, <1>2, <1>3 DEF Next

\* A 429 that is followed by another attempt.
Throttled(r) ==
  /\ Awaited(r)
  /\ attempt < MaxAttempts
  /\ attempt' = attempt + 1
  /\ wire' = (wire \ {r}) \union {[r EXCEPT !.attempt = attempt + 1]}
  /\ UNCHANGED <<step, phase, call, silent, concluded>>

\* What a step may do to the caller and to the wire.
LEMMA CallerSteps ==
  ASSUME TypeOK, CallerInv, [Next]_vars
  PROVE  \/ Call \/ NoAnswer \/ ReadBack
         \/ UNCHANGED <<callerVars, wire>>
         \/ \E r \in wire : Succeed(r) \/ Stop(r) \/ Lost(r) \/ Throttled(r)
BY DEF Next, vars, HoldExpires, Replay, Execute, Refuse, Throttle, Throttled

LEMMA CallerNext ==
  ASSUME TypeOK, CallerInv, [Next]_vars
  PROVE  CallerInv'
<1>0. script' = script /\ step \in Int /\ call \in Nat /\ attempt \in Nat
  BY ServiceSteps, JourneyAssumption DEF TypeOK
<1>1. CASE Call
  BY <1>0, <1>1, ScriptFacts DEF Call, CallerInv, TypeOK, Places
<1>2. CASE NoAnswer
  BY <1>0, <1>2 DEF NoAnswer, Resend, CallerInv, Places
<1>3. CASE ReadBack
  BY <1>3 DEF ReadBack, Advance, CallerInv
<1>4. ASSUME NEW r \in wire, Succeed(r) PROVE CallerInv'
  BY <1>0, <1>4 DEF Succeed, Advance, Lost, callerVars, CallerInv, Places
<1>5. ASSUME NEW r \in wire, Stop(r) PROVE CallerInv'
  BY <1>0, <1>5 DEF Stop, Awaited, CallerInv, Places
<1>6. ASSUME NEW r \in wire, Throttled(r) PROVE CallerInv'
  BY <1>0, <1>6 DEF Throttled, CallerInv, Places
<1>7. CASE UNCHANGED callerVars
  BY <1>0, <1>7 DEF callerVars, CallerInv, Places
<1> QED BY <1>1, <1>2, <1>3, <1>4, <1>5, <1>6, <1>7, CallerSteps DEF Lost

LEMMA CurrentType ==
  ASSUME TypeOK, CallerInv, phase = "calling"
  PROVE  /\ step \in Places /\ call \in 1 .. MaxCalls /\ attempt \in 1 .. MaxAttempts
         /\ Current \in Requests
<1>1. step \in Places /\ call \in 1 .. MaxCalls /\ attempt \in 1 .. MaxAttempts
  BY JourneyAssumption DEF TypeOK, CallerInv
<1> QED BY <1>1 DEF Current, Requests, Places

LEMMA TypeInit == Init => TypeOK
<1> SUFFICES ASSUME Init PROVE TypeOK
  OBVIOUS
<1>1. Len(script) \in Nat
  BY JourneyAssumption DEF Init
<1>2. world \in Worlds
  BY DEF Init, World0, Worlds, TopupStatus, SubscriptionStatus
<1>3. 1 \in 1 .. Len(script) + 1 /\ 0 \in 0 .. MaxCalls /\ 0 \in 0 .. MaxAttempts
  BY <1>1, JourneyAssumption
<1>4. moved \in [1 .. Len(script) -> Nat]
  BY DEF Init
<1> QED BY <1>2, <1>3, <1>4 DEF Init, TypeOK

\* What is carried out takes a world to a world.
LEMMA ServiceType ==
  ASSUME TypeOK, [Next]_vars
  PROVE  /\ world' \in Worlds
         /\ executed' \subseteq Places
         /\ moved' \in [Places -> Nat]
<1>1. CASE UNCHANGED <<world, executed, moved>>
  BY <1>1 DEF TypeOK, Places
<1>2. CASE HoldExpires
  <2>1. world' = [world EXCEPT !.payment = "expired", !.held = 0]
    BY <1>2 DEF HoldExpires
  <2>2. world' \in Worlds
    BY <2>1, WorldFacts DEF TypeOK, Worlds
  <2> QED BY <1>2, <2>2 DEF HoldExpires, TypeOK, Places
<1>3. ASSUME NEW r \in wire, Execute(r)
      PROVE  world' \in Worlds /\ executed' \subseteq Places /\ moved' \in [Places -> Nat]
  <2>1. r.step \in Places
    BY DEF TypeOK, Requests, Places
  <2>2. world' \in Served(world, script[r.step])
    BY <1>3 DEF Execute
  <2>3. world' \in Worlds
    BY <2>1, <2>2, ScriptFacts, ServedType DEF TypeOK
  <2>4. moved' \in [Places -> Nat]
    BY <1>3, <2>1 DEF Execute, TypeOK, Places
  <2> QED BY <1>3, <2>1, <2>3, <2>4 DEF Execute, TypeOK, Places
<1> QED BY <1>1, <1>2, <1>3, ServiceSteps

LEMMA TypeNext ==
  ASSUME TypeOK, CallerInv, [Next]_vars
  PROVE  TypeOK'
<1>0. /\ script' = script /\ Places' = Places /\ Requests' = Requests
      /\ world' \in Worlds /\ executed' \subseteq Places /\ moved' \in [Places -> Nat]
  BY ServiceSteps, ServiceType DEF Places, Requests
<1>1. /\ step' \in 1 .. Len(script) + 1
      /\ phase' \in {"ready", "calling", "unknown", "stopped"}
      /\ call' \in 0 .. MaxCalls /\ attempt' \in 0 .. MaxAttempts
      /\ wire' \subseteq Requests
      /\ concluded' \subseteq Places
      /\ silent' \in BOOLEAN
  <2> DEFINE CallerType ==
        /\ step' \in 1 .. Len(script) + 1
        /\ phase' \in {"ready", "calling", "unknown", "stopped"}
        /\ call' \in 0 .. MaxCalls /\ attempt' \in 0 .. MaxAttempts
        /\ wire' \subseteq Requests
        /\ concluded' \subseteq Places
        /\ silent' \in BOOLEAN
  <2>1. CASE Call
    <3>1. step \in Places /\ call + 1 \in 1 .. MaxCalls /\ 1 \in 1 .. MaxAttempts
      BY <2>1, ScriptFacts, JourneyAssumption DEF Call, TypeOK, CallerInv, Places
    <3>2. [step |-> step, call |-> call + 1, attempt |-> 1] \in Requests
      BY <3>1 DEF Requests, Places
    <3> QED BY <2>1, <3>1, <3>2 DEF Call, TypeOK, Places
  <2>2. ASSUME attempt < MaxAttempts, phase = "calling"
        PROVE  /\ attempt + 1 \in 1 .. MaxAttempts
               /\ [Current EXCEPT !.attempt = attempt + 1] \in Requests
    <3>1. attempt + 1 \in 1 .. MaxAttempts
      BY <2>2, JourneyAssumption DEF TypeOK
    <3> QED BY <2>2, <3>1, CurrentType DEF Requests
  <2>3. CASE NoAnswer
    <3>1. CASE Resend
      <4>1. /\ attempt' \in 1 .. MaxAttempts /\ wire' \subseteq Requests
            /\ UNCHANGED <<step, phase, call, silent, concluded>>
        BY <2>2, <2>3, <3>1 DEF NoAnswer, Resend, TypeOK
      <4> QED BY <4>1, JourneyAssumption DEF TypeOK, Places
    <3>2. CASE phase' = "unknown" /\ silent' = TRUE
               /\ UNCHANGED <<step, call, attempt, concluded, wire>>
      BY <3>2 DEF TypeOK, Places
    <3> QED BY <2>3, <3>1, <3>2 DEF NoAnswer
  <2>4. ASSUME NEW done \in SUBSET {step}, Advance(done), step \in Places, silent' = silent,
               wire' \subseteq wire
        PROVE  CallerType
    <3>1. step + 1 \in 1 .. Len(script) + 1
      BY <2>4, ScriptFacts DEF Places
    <3> QED BY <2>4, <3>1, JourneyAssumption DEF Advance, TypeOK, Places
  <2>5. CASE ReadBack
    <3>1. (IF Shows(world, Here) THEN {step} ELSE {}) \in SUBSET {step}
      OBVIOUS
    <3>2. step \in Places
      BY <2>5 DEF ReadBack, CallerInv
    <3> QED BY <2>4, <2>5, <3>1, <3>2 DEF ReadBack
  <2>6. ASSUME NEW r \in wire, Lost(r) PROVE CallerType
    BY <2>6 DEF Lost, callerVars, TypeOK, Places
  <2>7. ASSUME NEW r \in wire, Succeed(r) PROVE CallerType
    <3>1. CASE Awaited(r) /\ Advance({step}) /\ wire' = wire \ {r} /\ UNCHANGED silent
      BY <2>4, <3>1, CurrentType DEF Awaited
    <3> QED BY <2>6, <2>7, <3>1 DEF Succeed
  <2>8. ASSUME NEW r \in wire, Stop(r) PROVE CallerType
    BY <2>8 DEF Stop, TypeOK, Places
  <2>9. ASSUME NEW r \in wire, Throttled(r) PROVE CallerType
    <3>1. /\ attempt' \in 1 .. MaxAttempts /\ wire' \subseteq Requests
          /\ UNCHANGED <<step, phase, call, silent, concluded>>
      BY <2>2, <2>9 DEF Throttled, Awaited, TypeOK
    <3> QED BY <3>1, JourneyAssumption DEF TypeOK, Places
  <2>10. CASE UNCHANGED <<callerVars, wire>>
    BY <2>10 DEF callerVars, TypeOK, Places
  <2> QED BY <2>1, <2>3, <2>5, <2>6, <2>7, <2>8, <2>9, <2>10, CallerSteps
<1> QED BY <1>0, <1>1 DEF TypeOK, Places

---------------------------------------------------------------------------
(* The payment, and what was moved.                                        *)

\* The service carries out step i.
Carries(i) ==
  /\ Keyed(script[i].endpoint) => i \notin executed
  /\ world' \in Served(world, script[i])
  /\ executed' = executed \union {i}
  /\ moved' = IF Money(world') = Money(world) THEN moved ELSE [moved EXCEPT ![i] = @ + 1]
  /\ script' = script

LEMMA ExecuteCarries ==
  ASSUME TypeOK, NEW r \in wire, Execute(r)
  PROVE  r.step \in Places /\ Carries(r.step)
BY DEF TypeOK, Requests, Places, Execute, Stored, Carries

LEMMA StepFacts ==
  ASSUME TypeOK, NEW i \in Places
  PROVE  /\ script[i] \in Steps /\ script[i].amount \in Nat
         /\ Keyed(script[i].endpoint) /\ ~ Asks(i, "CapturePayment") => script[i].amount > 0
         /\ \A j \in Places : Asks(i, "CreatePayment") /\ Asks(j, "CreatePayment") => i = j
<1>1. script \in Scripts /\ script[i] \in Steps
  BY ScriptFacts DEF TypeOK
<1> QED BY <1>1, ScriptsAssumption, StepsFacts DEF Places, Asks

\* A payment is created where there is none.
LEMMA CreatesOnce ==
  ASSUME TypeOK, PaymentInv, NEW i \in Places, Carries(i), Asks(i, "CreatePayment")
  PROVE  world.payment = "none"
BY DEF PaymentInv, Carries, Asks, Keyed, KeyedWrites, MoneyCalls

LEMMA ServedHeld ==
  ASSUME TypeOK, PaymentInv, NEW i \in Places, Carries(i)
  PROVE  Held(world')
<1> DEFINE s == script[i]
           w == world
           v == world'
<1>1. s \in Steps /\ s.amount \in Nat /\ w \in Worlds /\ Held(w) /\ v \in Served(w, s)
  BY StepFacts DEF TypeOK, PaymentInv, Held, Carries
<1>2. v \in Worlds
  BY <1>1, ServedType
<1>3. CASE Asks(i, "CreatePayment")
  <2>1. w.payment = "none"
    BY <1>3, CreatesOnce
  <2>2. s.amount > 0
    BY <1>3, StepFacts DEF Asks, Keyed, KeyedWrites, MoneyCalls
  <2>3. w.held = 0 /\ w.taken = 0
    BY <1>1, <2>1, WorldFacts DEF Held
  <2>4. \/ v.payment = "captured" /\ v.held = w.held /\ v.taken = w.taken + s.amount
        \/ v.payment = "requires_capture" /\ v.held = w.held + s.amount /\ v.taken = w.taken
    BY <1>1, <1>3, ServedPayment DEF Asks
  <2> QED BY <1>1, <2>2, <2>3, <2>4 DEF Held
<1>4. CASE Asks(i, "CapturePayment")
  <2>1. v.payment = "captured" /\ v.held = 0
    BY <1>1, <1>4, ServedPayment DEF Asks
  <2> QED BY <2>1 DEF Held
<1>5. CASE Asks(i, "VoidPayment")
  <2>1. /\ w.payment \in {"requires_capture", "voided"} /\ v.payment = "voided"
        /\ v.held = 0 /\ v.taken = w.taken
    BY <1>1, <1>5, ServedPayment DEF Asks
  <2> QED BY <1>1, <2>1 DEF Held
<1>6. CASE \A e \in {"CreatePayment", "CapturePayment", "VoidPayment"} : ~ Asks(i, e)
  <2>1. v.payment = w.payment /\ v.held = w.held /\ v.taken = w.taken
    BY <1>1, <1>6, ServedPayment, ServedOther DEF Asks
  <2> QED BY <1>1, <2>1 DEF Held
<1> QED BY <1>3, <1>4, <1>5, <1>6

LEMMA PaymentNext ==
  ASSUME TypeOK, PaymentInv, [Next]_vars
  PROVE  PaymentInv'
<1>0. script' = script /\ Places' = Places
  BY ServiceSteps DEF Places
<1>1. CASE UNCHANGED <<world, executed, moved>>
  BY <1>0, <1>1 DEF PaymentInv, Held, Asks
<1>2. CASE HoldExpires
  <2>1. world.payment = "requires_capture" /\ executed' = executed
        /\ world' = [world EXCEPT !.payment = "expired", !.held = 0]
    BY <1>2 DEF HoldExpires
  <2>2. world'.payment = "expired" /\ world'.held = 0 /\ world'.taken = world.taken
    BY <2>1 DEF TypeOK, Worlds
  <2> QED BY <1>0, <2>1, <2>2 DEF PaymentInv, Held, Asks
<1>3. ASSUME NEW i \in Places, Carries(i) PROVE PaymentInv'
  <2>1. Held(world')
    BY <1>3, ServedHeld
  <2>2. ASSUME world'.payment # "none", NEW j \in Places, Asks(j, "CreatePayment")
        PROVE  j \in executed'
    <3>1. CASE Asks(i, "CreatePayment")
      BY <1>3, <2>2, <3>1, StepFacts DEF Carries
    <3>2. CASE ~ Asks(i, "CreatePayment")
      <4>1. script[i] \in Steps /\ world \in Worlds /\ world' \in Served(world, script[i])
        BY <1>3, StepFacts DEF TypeOK, Carries
      <4>2. world.payment # "none"
        BY <2>2, <3>2, <4>1, ServedPayment, ServedOther DEF Asks
      <4> QED BY <1>3, <2>2, <4>2 DEF PaymentInv, Carries
    <3> QED BY <3>1, <3>2
  <2> QED BY <1>0, <2>1, <2>2 DEF PaymentInv, Held, Asks
<1> QED BY <1>1, <1>2, <1>3, ServiceSteps, ExecuteCarries

\* A final status stays, whatever is carried out.
LEMMA FinalStays ==
  ASSUME TypeOK, PaymentInv, [Next]_vars
  PROVE  /\ world.payment \in {"captured", "voided", "expired"} => world'.payment = world.payment
         /\ world.subscription = "canceled" => world'.subscription = "canceled"
         /\ world.topup = "succeeded" => world'.topup = "succeeded"
<1>1. CASE HoldExpires
  BY <1>1 DEF HoldExpires, TypeOK, Worlds
<1>2. ASSUME NEW i \in Places, Carries(i)
      PROVE  /\ world.payment \in {"captured", "voided", "expired"} => world'.payment = world.payment
             /\ world.subscription = "canceled" => world'.subscription = "canceled"
             /\ world.topup = "succeeded" => world'.topup = "succeeded"
  <2>1. script[i] \in Steps /\ world \in Worlds /\ world' \in Served(world, script[i])
    BY <1>2, StepFacts DEF TypeOK, Carries
  <2>2. Asks(i, "CreatePayment") => world.payment = "none"
    BY <1>2, CreatesOnce
  <2>3. CASE script[i].endpoint
               \in {"CreatePayment", "CapturePayment", "VoidPayment", "CreateRefund"}
    BY <2>1, <2>2, <2>3, ServedPayment DEF Asks
  <2>4. CASE script[i].endpoint
               \notin {"CreatePayment", "CapturePayment", "VoidPayment", "CreateRefund"}
    BY <2>1, <2>4, ServedOther
  <2> QED BY <2>3, <2>4
<1> QED BY <1>1, <1>2, ServiceSteps, ExecuteCarries

\* A keyed step that is carried out moves money.
LEMMA KeyedMoves ==
  ASSUME TypeOK, PaymentInv, NEW i \in Places, Carries(i), Keyed(script[i].endpoint)
  PROVE  Money(world') # Money(world)
<1>1. /\ script[i] \in Steps /\ world \in Worlds /\ world' \in Served(world, script[i])
      /\ script[i].amount \in Nat
  BY StepFacts DEF TypeOK, Carries
<1>2. ~ Asks(i, "CapturePayment") => script[i].amount > 0
  BY StepFacts
<1>3. CASE Asks(i, "CreatePayment")
  <2>1. \/ world'.taken = world.taken + script[i].amount
        \/ world'.held = world.held + script[i].amount
    BY <1>1, <1>3, ServedPayment DEF Asks
  <2>2. world'.taken # world.taken \/ world'.held # world.held
    BY <1>1, <1>2, <1>3, <2>1, WorldFacts DEF Asks
  <2> QED BY <2>2 DEF Money
<1>4. CASE Asks(i, "CapturePayment")
  <2>1. world.payment = "requires_capture" /\ world'.held = 0
    BY <1>1, <1>4, ServedPayment DEF Asks
  <2>2. world'.held # world.held
    BY <2>1 DEF PaymentInv, Held
  <2> QED BY <2>2 DEF Money
<1>5. CASE Asks(i, "CreateRefund")
  <2>1. world'.refunded = world.refunded + script[i].amount
    BY <1>1, <1>5, ServedPayment DEF Asks
  <2>2. world'.refunded # world.refunded
    BY <1>1, <1>2, <1>5, <2>1, WorldFacts DEF Asks
  <2> QED BY <2>2 DEF Money
<1>6. CASE script[i].endpoint
             \notin {"CreatePayment", "CapturePayment", "VoidPayment", "CreateRefund"}
  <2>1. world'.sent = world.sent + script[i].amount
    BY <1>1, <1>6, ServedOther
  <2>2. world'.sent # world.sent
    BY <1>1, <1>2, <1>6, <2>1, WorldFacts DEF Asks
  <2> QED BY <2>2 DEF Money
<1> QED BY <1>3, <1>4, <1>5, <1>6 DEF Asks, Keyed, KeyedWrites, MoneyCalls

\* Without a key, a void that releases the hold and a refresh that finds the
\* top-up paid move money.
LEMMA UnkeyedMoves ==
  ASSUME TypeOK, PaymentInv, NEW i \in Places, Carries(i), ~ Keyed(script[i].endpoint)
  PROVE  \/ Money(world') = Money(world)
         \/ /\ Asks(i, "VoidPayment") /\ world.payment = "requires_capture"
            /\ world'.payment = "voided"
         \/ Asks(i, "RefreshTopup") /\ world.topup = "created" /\ world'.topup = "succeeded"
<1>1. script[i] \in Steps /\ world \in Worlds /\ world' \in Served(world, script[i])
  BY StepFacts DEF TypeOK, Carries
<1>2. CASE Asks(i, "VoidPayment")
  <2>1. /\ world.payment \in {"requires_capture", "voided"} /\ world'.payment = "voided"
        /\ world'.held = 0 /\ world'.taken = world.taken /\ world'.refunded = world.refunded
        /\ world'.sent = world.sent /\ world'.credited = world.credited
    BY <1>1, <1>2, ServedPayment DEF Asks
  <2>2. world.payment = "voided" => world.held = 0
    BY <1>1, WorldFacts DEF PaymentInv, Held
  <2> QED BY <1>2, <2>1, <2>2 DEF Money
<1>3. CASE ~ Asks(i, "VoidPayment")
  <2>1. script[i].endpoint
          \notin {"CreatePayment", "CapturePayment", "VoidPayment", "CreateRefund"}
    BY <1>3 DEF Asks, Keyed, KeyedWrites, MoneyCalls
  <2>2. /\ world'.held = world.held /\ world'.taken = world.taken
        /\ world'.refunded = world.refunded /\ world'.sent = world.sent
        /\ ~ Asks(i, "RefreshTopup") \/ world.topup # "created"
             => world'.credited = world.credited
        /\ Asks(i, "RefreshTopup") => world'.topup = "succeeded"
    BY <1>1, <2>1, ServedOther DEF Asks
  <2> QED BY <2>2 DEF Money
<1> QED BY <1>2, <1>3

LEMMA MovedNext ==
  ASSUME TypeOK, PaymentInv, MovedInv, [Next]_vars
  PROVE  MovedInv'
<1>0. script' = script /\ Places' = Places
  BY ServiceSteps DEF Places
<1>1. CASE executed' = executed /\ moved' = moved
  BY <1>0, <1>1, FinalStays DEF MovedInv, Asks
<1>2. ASSUME NEW i \in Places, Carries(i) PROVE MovedInv'
  <2>0. moved \in [Places -> Nat]
    BY DEF TypeOK, Places
  <2>1. ASSUME NEW j \in Places, j # i PROVE moved'[j] = moved[j]
    BY <1>2, <2>0, <2>1 DEF Carries
  <2>2. CASE Keyed(script[i].endpoint)
    <3>1. moved[i] = 0
      BY <1>2, <2>2 DEF MovedInv, Carries
    <3>2. moved' = [moved EXCEPT ![i] = moved[i] + 1]
      BY <1>2, <2>2, KeyedMoves DEF Carries
    <3>3. moved' = [moved EXCEPT ![i] = 1]
      BY <3>1, <3>2
    <3>4. moved'[i] = 1
      BY <2>0, <3>3
    <3> QED BY <1>0, <1>2, <2>1, <2>2, <3>4, FinalStays DEF MovedInv, Carries, Asks
  <2>3. CASE ~ Keyed(script[i].endpoint)
    <3>1. CASE Money(world') = Money(world)
      BY <1>0, <1>2, <2>3, <3>1, FinalStays DEF MovedInv, Carries, Asks
    <3>2. CASE Money(world') # Money(world)
      <4>1. moved' = [moved EXCEPT ![i] = moved[i] + 1]
        BY <1>2, <3>2 DEF Carries
      <4>2. \/ /\ Asks(i, "VoidPayment") /\ world.payment = "requires_capture"
               /\ world'.payment = "voided"
            \/ Asks(i, "RefreshTopup") /\ world.topup = "created" /\ world'.topup = "succeeded"
        BY <1>2, <2>3, <3>2, UnkeyedMoves
      <4>3. moved[i] = 0
        BY <2>3, <4>2 DEF MovedInv, Asks
      <4>4. moved' = [moved EXCEPT ![i] = 1]
        BY <4>1, <4>3
      <4>5. moved'[i] = 1
        BY <2>0, <4>4
      <4> QED BY <1>0, <1>2, <2>1, <2>3, <4>2, <4>5, FinalStays DEF MovedInv, Carries, Asks
    <3> QED BY <3>1, <3>2
  <2> QED BY <2>2, <2>3
<1> QED BY <1>1, <1>2, ServiceSteps, ExecuteCarries DEF HoldExpires

---------------------------------------------------------------------------
(* What was concluded.                                                     *)

\* A step that is carried out, or read back, shows its status.
LEMMA CarriedShows ==
  ASSUME TypeOK, PaymentInv, NEW i \in Places, Carries(i)
  PROVE  /\ Asks(i, "CapturePayment") => world'.payment = "captured"
         /\ Asks(i, "VoidPayment") => world'.payment = "voided"
         /\ Asks(i, "CancelSubscription") => world'.subscription = "canceled"
<1>1. script[i] \in Steps /\ world \in Worlds /\ world' \in Served(world, script[i])
  BY StepFacts DEF TypeOK, Carries
<1>2. CASE Asks(i, "CancelSubscription")
  BY <1>1, <1>2, ServedOther DEF Asks
<1>3. CASE Asks(i, "CapturePayment") \/ Asks(i, "VoidPayment")
  BY <1>1, <1>3, ServedPayment DEF Asks
<1> QED BY <1>2, <1>3

LEMMA ShowsStatus ==
  ASSUME NEW i \in Places, Shows(world, script[i])
  PROVE  /\ Asks(i, "VoidPayment") => world.payment = "voided"
         /\ Asks(i, "CancelSubscription") => world.subscription = "canceled"
BY DEF Shows, Asks

\* How a step comes to be concluded: its answer arrives, or it is read back.
LEMMA ConcludedSteps ==
  ASSUME TypeOK, CallerInv, [Next]_vars
  PROVE  \/ concluded' = concluded
         \/ /\ step \in Places
            /\ concluded' = concluded \union {step}
            /\ \/ Keyed(Here.endpoint) /\ step \in executed
               \/ Carries(step)
               \/ ~ Keyed(Here.endpoint) /\ Shows(world, Here)
<1>1. CASE Call \/ NoAnswer \/ HoldExpires
  BY <1>1 DEF Call, NoAnswer, Resend, HoldExpires, callerVars
<1>2. CASE ReadBack
  BY <1>2 DEF ReadBack, Advance, CallerInv
<1>3. ASSUME NEW r \in wire, Replay(r) \/ Execute(r), concluded' # concluded
      PROVE  /\ step \in Places /\ concluded' = concluded \union {step}
             /\ (Keyed(Here.endpoint) /\ step \in executed) \/ Carries(step)
  <2>1. phase = "calling" /\ r = Current /\ concluded' = concluded \union {step}
    BY <1>3 DEF Replay, Execute, Succeed, Awaited, Advance, Lost, callerVars
  <2>2. r.step = step /\ step \in Places
    BY <2>1 DEF Current, CallerInv
  <2>3. CASE Replay(r)
    BY <2>1, <2>2, <2>3 DEF Replay, Stored, Here
  <2>4. CASE Execute(r)
    BY <2>1, <2>2, <2>4, ExecuteCarries
  <2> QED BY <1>3, <2>1, <2>2, <2>3, <2>4
<1>4. ASSUME NEW r \in wire, Refuse(r) \/ Throttle(r) PROVE concluded' = concluded
  BY <1>4 DEF Refuse, Throttle, Stop, Lost, callerVars
<1>5. CASE UNCHANGED vars
  BY <1>5 DEF vars, callerVars
<1> QED BY <1>1, <1>2, <1>3, <1>4, <1>5 DEF Next

LEMMA ConcludedNext ==
  ASSUME TypeOK, CallerInv, PaymentInv, ConcludedInv, [Next]_vars
  PROVE  ConcludedInv'
<1>0. script' = script /\ executed \subseteq executed'
      /\ executed \subseteq Places /\ concluded \subseteq Places
  BY ServiceSteps, ExecuteCarries DEF HoldExpires, Carries, TypeOK, Places
<1>1. ASSUME NEW i \in executed', Asks(i, "CapturePayment")
      PROVE  world'.payment = "captured"
  <2>1. CASE i \in executed
    BY <1>1, <2>1, FinalStays DEF ConcludedInv
  <2>2. CASE i \notin executed
    <3>1. PICK r \in wire : Execute(r)
      BY <2>2, ServiceSteps DEF HoldExpires
    <3>2. r.step = i /\ i \in Places /\ Carries(i)
      BY <2>2, <3>1, ExecuteCarries DEF Carries
    <3> QED BY <1>1, <3>2, CarriedShows
  <2> QED BY <2>1, <2>2
<1>2. ASSUME NEW i \in concluded'
      PROVE  /\ Keyed(script[i].endpoint) => i \in executed'
             /\ Asks(i, "VoidPayment") => world'.payment = "voided"
             /\ Asks(i, "CancelSubscription") => world'.subscription = "canceled"
  <2>1. CASE i \in concluded
    BY <1>0, <2>1, FinalStays DEF ConcludedInv
  <2>2. CASE i \notin concluded
    <3>1. /\ i = step /\ i \in Places
          /\ \/ Keyed(script[i].endpoint) /\ i \in executed
             \/ Carries(i)
             \/ ~ Keyed(script[i].endpoint) /\ Shows(world, script[i])
      BY <2>2, ConcludedSteps DEF Here
    <3>2. CASE Keyed(script[i].endpoint) /\ i \in executed
      BY <1>0, <3>2 DEF Asks, Keyed, KeyedWrites, MoneyCalls
    <3>3. CASE Carries(i)
      BY <3>1, <3>3, CarriedShows DEF Carries
    <3>4. CASE ~ Keyed(script[i].endpoint) /\ Shows(world, script[i])
      BY <3>1, <3>4, ShowsStatus, FinalStays
    <3> QED BY <3>1, <3>2, <3>3, <3>4
  <2> QED BY <2>1, <2>2
<1> QED BY <1>0, <1>1, <1>2 DEF ConcludedInv, Asks

---------------------------------------------------------------------------
(* The invariant and what follows from it.                                 *)

LEMMA InitInv == Init => JInv
<1> SUFFICES ASSUME Init PROVE JInv
  OBVIOUS
<1>1. TypeOK
  BY TypeInit
<1>2. CallerInv
  BY DEF Init, CallerInv
<1>3. PaymentInv
  BY DEF Init, PaymentInv, Held, World0
<1>4. MovedInv
  BY DEF Init, MovedInv, Places
<1>5. ConcludedInv
  BY DEF Init, ConcludedInv
<1> QED BY <1>1, <1>2, <1>3, <1>4, <1>5 DEF JInv

\* JInv holds in every reachable state, for any scripts and any bounds.
THEOREM Invariance == Spec => []JInv
<1>1. JInv /\ [Next]_vars => JInv'
  BY TypeNext, CallerNext, PaymentNext, MovedNext, ConcludedNext DEF JInv
<1> QED BY <1>1, InitInv, PTL DEF Spec

\* The type invariant: a payment holds, takes and refunds no negative amount.
THEOREM TypeCorrect == Spec => []TypeOK
<1>1. JInv => TypeOK
  BY DEF JInv
<1> QED BY <1>1, Invariance, PTL

\* However often calls are repeated and however late what they sent arrives,
\* every step moves money at most once, a keyed one that was answered exactly
\* once (money.go:12-16, 85-88, 179-181).
THEOREM EachMovedOnce == Spec => []MovedOnce
<1>1. JInv => MovedOnce
  <2> SUFFICES ASSUME JInv, NEW i \in 1 .. Len(script)
               PROVE  /\ moved[i] <= 1
                      /\ i \in concluded /\ Keyed(script[i].endpoint) => moved[i] = 1
    BY DEF MovedOnce
  <2> QED BY DEF JInv, MovedInv, ConcludedInv, Places
<1> QED BY <1>1, Invariance, PTL

\* What a caller has concluded of a final status stands, whatever arrives
\* late (money.go:58-60, 74-92, 174-177).
THEOREM ConclusionsStand == Spec => []FinalStands
<1>1. JInv => FinalStands
  <2> SUFFICES ASSUME JInv, NEW i \in concluded
               PROVE  /\ Asks(i, "VoidPayment") => world.payment = "voided" /\ world.taken = 0
                      /\ Asks(i, "CapturePayment")
                           => world.payment = "captured" /\ world.held = 0
                      /\ Asks(i, "CancelSubscription") => world.subscription = "canceled"
    BY DEF FinalStands, Asks
  <2>1. CASE Asks(i, "VoidPayment")
    BY <2>1 DEF JInv, ConcludedInv, PaymentInv, Held, Asks
  <2>2. CASE Asks(i, "CapturePayment")
    <3>1. i \in executed
      BY <2>2 DEF JInv, ConcludedInv, Asks, Keyed, KeyedWrites, MoneyCalls
    <3>2. world.payment = "captured" /\ ~ world.held > 0
      BY <2>2, <3>1 DEF JInv, ConcludedInv, PaymentInv, Held
    <3>3. world.held \in Nat
      BY WorldFacts DEF JInv, TypeOK
    <3> QED BY <2>2, <3>2, <3>3 DEF Asks
  <2>3. CASE Asks(i, "CancelSubscription")
    BY <2>3 DEF JInv, ConcludedInv, Asks
  <2> QED BY <2>1, <2>2, <2>3
<1> QED BY <1>1, Invariance, PTL

---------------------------------------------------------------------------
(* The course of a script.                                                 *)

LEMMA LeastNatural ==
  ASSUME NEW S \in SUBSET Nat, S # {}
  PROVE  \E n \in S : \A k \in S : n <= k
<1>1. PICK n \in S : \A k \in S : <<k, n>> \notin OpToRel(<, Nat)
  BY NatLessThanWellFounded, WFMin
<1>2. \A k \in S : ~ k < n
  BY <1>1 DEF OpToRel
<1> QED BY <1>2

\* The recursive definition has a solution, built up step by step: there is
\* no least number of steps for which there is none.
LEMMA CourseDef ==
  ASSUME NEW s \in Scripts
  PROVE  /\ Course(s)[0] = World0
         /\ \A n \in 1 .. Len(s) :
              Course(s)[n] = CHOOSE v \in Served(Course(s)[n - 1], s[n]) : TRUE
<1> DEFINE After1(w, n) == CHOOSE v \in Served(w, s[n]) : TRUE
           Solves(f, n) == f = [i \in 0 .. n |-> IF i = 0 THEN World0 ELSE After1(f[i - 1], i)]
<1>0. Len(s) \in Nat
  BY JourneyAssumption
<1>1. Course(s) = CHOOSE f : Solves(f, Len(s))
  BY DEF Course
<1> HIDE DEF After1
<1>2. \E f : Solves(f, Len(s))
  <2> DEFINE Unsolved == {n \in Nat : ~ \E f : Solves(f, n)}
  <2> SUFFICES Unsolved = {}
    BY <1>0
  <2>1. ASSUME NEW n \in Unsolved, \A k \in Unsolved : n <= k PROVE FALSE
    <3>1. CASE n = 0
      <4>1. Solves([i \in 0 .. 0 |-> World0], 0)
        OBVIOUS
      <4> QED BY <3>1, <4>1
    <3>2. CASE n # 0
      <4>1. n - 1 \in Nat /\ ~ n <= n - 1
        BY <3>2
      <4>2. PICK f : Solves(f, n - 1)
        BY <2>1, <4>1
      <4> DEFINE g == [i \in 0 .. n |-> IF i = n THEN After1(f[n - 1], n) ELSE f[i]]
      <4>3. \A i \in 0 .. n - 1 : g[i] = f[i]
        OBVIOUS
      <4>4. \A i \in 0 .. n : g[i] = IF i = 0 THEN World0 ELSE After1(g[i - 1], i)
        <5> SUFFICES ASSUME NEW i \in 0 .. n
                     PROVE  g[i] = IF i = 0 THEN World0 ELSE After1(g[i - 1], i)
          OBVIOUS
        <5>1. CASE i = n
          <6>1. g[i] = After1(f[n - 1], n) /\ g[n - 1] = f[n - 1]
            BY <4>1, <4>3, <5>1
          <6> QED BY <3>2, <5>1, <6>1
        <5>2. CASE i # n
          <6>1. i \in 0 .. n - 1 /\ g[i] = f[i]
            BY <4>3, <5>2
          <6>2. f[i] = IF i = 0 THEN World0 ELSE After1(f[i - 1], i)
            BY <4>2, <6>1
          <6>3. i # 0 => g[i - 1] = f[i - 1]
            BY <4>3, <6>1
          <6> QED BY <6>1, <6>2, <6>3
        <5> QED BY <5>1, <5>2
      <4>5. Solves(g, n)
        BY <4>4
      <4> QED BY <4>5
    <3> QED BY <3>1, <3>2
  <2> HIDE DEF Unsolved
  <2>2. Unsolved \subseteq Nat
    BY DEF Unsolved
  <2> QED BY <2>1, <2>2, LeastNatural
<1>3. Solves(Course(s), Len(s))
  BY <1>1, <1>2
<1>4. /\ Course(s)[0] = World0
      /\ \A n \in 1 .. Len(s) : Course(s)[n] = After1(Course(s)[n - 1], n)
  BY <1>0, <1>3
<1> QED BY <1>4 DEF After1

---------------------------------------------------------------------------
(* Answered calls take effect in order.                                    *)

LEMMA CarriesOn ==
  ASSUME TypeOK, NEW i \in Places, Carries(i), world = After(i - 1)
  PROVE  world' = After(i)
<1>1. After(i) = CHOOSE v \in Served(After(i - 1), script[i]) : TRUE
  BY CourseDef DEF After, TypeOK, Places
<1>2. After(i) \in Served(world, script[i]) /\ world' \in Served(world, script[i])
  BY <1>1 DEF Carries
<1> QED BY <1>2, ServedOnce

\* What a caller with one answered call for each step relies on.
Orderly ==
  /\ TypeOK /\ CallerInv /\ PaymentInv
  /\ ~ silent /\ OrderInv

\* The request of a call that is awaited is the only one of its attempt.
LEMMA OneRequest ==
  ASSUME Orderly, NEW r, Awaited(r), NEW q \in wire, q.step = step, q.attempt = attempt
  PROVE  q = r
<1>1. phase = "calling" /\ r = [step |-> step, call |-> call, attempt |-> attempt]
  BY DEF Awaited, Current
<1>2. call = 1
  BY <1>1, JourneyAssumption DEF Orderly, CallerInv, OrderInv, TypeOK
<1>3. q.call = 1
  BY DEF Orderly, OrderInv, OnWire
<1>4. q = [step |-> q.step, call |-> q.call, attempt |-> q.attempt]
  BY DEF Orderly, TypeOK, Requests
<1> QED BY <1>1, <1>2, <1>3, <1>4

\* So once that request is gone, the others of a call without a key, or of a
\* first attempt, are too.
LEMMA OthersAreEarlier ==
  ASSUME Orderly, NEW r, Awaited(r), NEW q \in wire \ {r}, q.step = step
  PROVE  Keyed(Here.endpoint) /\ attempt # 1 /\ q.attempt <= attempt
<1>1. OnWire(q)
  BY DEF Orderly, OrderInv
<1>2. q.attempt # attempt
  BY OneRequest
<1>3. q.attempt >= 1 /\ q.attempt \in Int /\ attempt \in Int
  BY JourneyAssumption DEF Orderly, TypeOK, Requests
<1> QED BY <1>1, <1>2, <1>3 DEF OnWire

\* The answer of the step arrives.
LEMMA OrderAnswered ==
  ASSUME Orderly, NEW r \in wire, Awaited(r), Advance({step}), wire' = wire \ {r},
         silent' = silent, script' = script, executed' = executed \union {step},
         world'.payment # "expired" => world' = After(step)
  PROVE  OrderInv'
<1>0. step \in Places /\ step \in Int /\ step' = step + 1 /\ phase' = "ready" /\ call' = 0
  BY DEF Orderly, CallerInv, Awaited, Advance, Places
<1>1. \A n \in Int : n + 1 - 1 = n /\ n < n + 1
  OBVIOUS
<1>2. \A i \in executed' : i \in Int /\ i <= step
  BY <1>0 DEF Orderly, OrderInv, TypeOK
<1>3. step' \notin executed' /\ \A i \in executed' : i <= step'
  BY <1>0, <1>1, <1>2
<1>4. ASSUME NEW q \in wire' PROVE OnWire(q)'
  <2>1. q \in wire \ {r} /\ q.step \in Int /\ OnWire(q)
    BY DEF Orderly, OrderInv, TypeOK, Requests
  <2>2. q.step <= step
    BY <2>1 DEF OnWire
  <2>3. Keyed(script[q.step].endpoint) /\ q.step \in executed'
    <3>1. CASE q.step = step
      BY <1>0, <2>1, <3>1, OthersAreEarlier DEF Here
    <3>2. CASE q.step < step
      BY <2>1, <3>2 DEF OnWire, Stored
    <3> QED BY <1>0, <2>1, <2>2, <3>1, <3>2
  <2>4. q.step < step + 1
    BY <1>0, <2>1, <2>2
  <2>5. q.step <= step' /\ q.step # step'
    BY <1>0, <2>1, <2>4
  <2> QED BY <2>3, <2>5 DEF OnWire, Stored
<1>5. Reached' = step
  BY <1>0, <1>1, <1>3 DEF Reached
<1>6. world'.payment # "expired" => world' = After(Reached)'
  BY <1>5 DEF After
<1> QED BY <1>0, <1>3, <1>4, <1>6 DEF OrderInv

\* An answer, or a refusal, that nobody waits for any more, or nobody hears.
LEMMA OrderLost ==
  ASSUME Orderly, NEW r \in wire, Lost(r), UNCHANGED <<world, script, executed>>
  PROVE  OrderInv'
<1>1. \A q \in wire' : OnWire(q)'
  BY DEF Orderly, Lost, callerVars, OrderInv, OnWire, Stored, Refused, Here
<1> QED BY <1>1 DEF Orderly, Lost, callerVars, OrderInv, Reached, After, Refused, Here

\* The caller is refused.
LEMMA OrderStopped ==
  ASSUME Orderly, NEW r \in wire, Stop(r), UNCHANGED <<world, script, executed>>
  PROVE  OrderInv'
<1>1. Awaited(r) /\ r.step = step /\ OnWire(r) /\ phase = "calling"
  BY DEF Orderly, OrderInv, Stop, Awaited, Current
<1>2. /\ phase' = "stopped" /\ wire' = wire \ {r}
      /\ UNCHANGED <<step, call, attempt, silent, world, script, executed>>
  BY DEF Stop
<1>3. Refused' => step \notin executed
  BY <1>1, <1>2 DEF OnWire, Refused, Here
<1>4. ASSUME NEW q \in wire' PROVE OnWire(q)'
  <2>1. q \in wire \ {r} /\ OnWire(q)
    BY <1>2 DEF Orderly, OrderInv
  <2>2. q.step = step => Keyed(Here.endpoint) /\ attempt # 1
    BY <1>1, <2>1, OthersAreEarlier
  <2> QED BY <1>2, <2>1, <2>2 DEF OnWire, Stored, Refused, Here
<1> QED BY <1>2, <1>3, <1>4 DEF Orderly, OrderInv, Reached, After

\* The service carries out the step that the caller is at.
LEMMA ExecutesHere ==
  ASSUME Orderly, NEW r \in wire, Execute(r), [Next]_vars
  PROVE  /\ r.step = step /\ step \in Places /\ step \notin executed
         /\ executed' = executed \union {step} /\ script' = script
         /\ world'.payment # "expired" => world' = After(step)
<1>1. r.step \in Places /\ Carries(r.step) /\ OnWire(r) /\ r.step \in Int /\ step \in Int
  BY ExecuteCarries DEF Orderly, OrderInv, Places, TypeOK, Requests
<1>2. r.step = step
  BY <1>1 DEF OnWire, Execute
<1>3. step \notin executed
  BY <1>1, <1>2 DEF OnWire, Execute, Stored, Here
<1>4. ASSUME world'.payment # "expired" PROVE world' = After(step)
  <2>1. world.payment # "expired"
    BY <1>4, FinalStays DEF Orderly
  <2>2. world = After(step - 1)
    BY <1>3, <2>1 DEF Orderly, OrderInv, Reached
  <2> QED BY <1>1, <1>2, <2>2, CarriesOn DEF Orderly
<1> QED BY <1>1, <1>2, <1>3, <1>4 DEF Carries

\* It does so, and its answer is lost, or an earlier attempt's.
LEMMA OrderExecutedLost ==
  ASSUME Orderly, NEW r \in wire, Execute(r), Lost(r), [Next]_vars
  PROVE  OrderInv'
<1>1. /\ r.step = step /\ step \in Places /\ step \notin executed
      /\ executed' = executed \union {step} /\ script' = script
      /\ world'.payment # "expired" => world' = After(step)
  BY ExecutesHere
<1>2. /\ wire' = wire \ {r}
      /\ UNCHANGED <<step, phase, call, attempt, silent, concluded>>
  BY DEF Lost, callerVars
<1>3. OnWire(r) /\ phase # "ready" /\ ~ Refused
  BY <1>1 DEF Orderly, OrderInv, OnWire
<1>4. step \in Int /\ \A i \in executed' : i <= step
  BY <1>1 DEF Orderly, OrderInv, TypeOK
<1>5. ASSUME NEW q \in wire' PROVE OnWire(q)'
  <2>1. q \in wire /\ q # r /\ OnWire(q)
    BY <1>2 DEF Orderly, OrderInv
  <2>2. ASSUME q.step = step PROVE Keyed(Here.endpoint) /\ attempt # 1
    <3>1. q.call = r.call /\ q.step = r.step
      BY <1>1, <1>3, <2>1, <2>2 DEF OnWire
    <3>2. q.attempt # r.attempt
      <4>1. q \in Requests /\ r \in Requests
        BY <2>1 DEF Orderly, TypeOK
      <4> QED BY <2>1, <3>1, <4>1 DEF Requests
    <3>3. Keyed(Here.endpoint)
      BY <1>1, <1>3, <2>1, <2>2, <3>2 DEF OnWire
    <3>4. attempt # 1
      <4>1. q.attempt \in Nat /\ r.attempt \in Nat /\ q.attempt >= 1 /\ r.attempt >= 1
        BY <2>1, JourneyAssumption DEF Orderly, TypeOK, Requests
      <4> QED BY <1>1, <1>3, <2>1, <2>2, <3>2, <4>1 DEF OnWire
    <3> QED BY <3>3, <3>4
  <2> QED BY <1>1, <1>2, <2>1, <2>2 DEF OnWire, Stored, Refused, Here
<1>6. Reached' = step
  BY <1>1, <1>2 DEF Reached
<1>7. world'.payment # "expired" => world' = After(Reached)'
  BY <1>1, <1>6 DEF After
<1>8. phase' # "ready" /\ ~ Refused'
  BY <1>1, <1>2, <1>3 DEF Refused, Here
<1>9. ~ silent /\ phase # "unknown" /\ call <= 1
  BY DEF Orderly, OrderInv
<1>10. \A q \in wire' : OnWire(q)'
  BY <1>5
<1> QED BY <1>2, <1>4, <1>7, <1>8, <1>9, <1>10 DEF OrderInv

\* A 429 is followed by another attempt.
LEMMA OrderThrottled ==
  ASSUME Orderly, NEW r \in wire, Throttled(r), UNCHANGED <<world, script, executed>>
  PROVE  OrderInv'
<1>1. /\ Awaited(r) /\ phase = "calling" /\ r.step = step /\ OnWire(r)
      /\ attempt \in Nat /\ attempt >= 1
  BY JourneyAssumption DEF Orderly, OrderInv, CallerInv, TypeOK, Throttled, Awaited, Current
<1>2. /\ attempt' = attempt + 1
      /\ wire' = (wire \ {r}) \union {[r EXCEPT !.attempt = attempt + 1]}
      /\ UNCHANGED <<step, phase, call, silent, world, script, executed>>
  BY DEF Throttled
<1>3. attempt' # 1 /\ attempt <= attempt' /\ attempt' \in Nat /\ attempt' <= attempt'
  BY <1>1, <1>2
<1>4. ~ Refused' /\ phase' = "calling"
  BY <1>1, <1>2 DEF Refused
<1>5. ASSUME NEW q \in wire \ {r} PROVE OnWire(q)'
  <2>1. OnWire(q)
    BY DEF Orderly, OrderInv
  <2>2. q.step = step => Keyed(Here.endpoint) /\ q.attempt <= attempt
    BY <1>1, OthersAreEarlier
  <2>3. q.attempt \in Nat
    BY DEF Orderly, TypeOK, Requests
  <2>4. q.step = step => q.attempt <= attempt'
    BY <1>1, <1>3, <2>2, <2>3
  <2> QED BY <1>2, <1>3, <1>4, <2>1, <2>2, <2>4 DEF OnWire, Stored, Here
<1>6. ASSUME NEW q, q = [r EXCEPT !.attempt = attempt + 1] PROVE OnWire(q)'
  <2>1. q.step = step /\ q.call = r.call /\ q.attempt = attempt'
    BY <1>1, <1>2, <1>6 DEF Orderly, TypeOK, Requests
  <2>2. step \in Int
    BY DEF Orderly, TypeOK
  <2> QED BY <1>1, <1>2, <1>3, <1>4, <2>1, <2>2 DEF OnWire, Here
<1>7. \A q \in wire' : OnWire(q)'
  BY <1>2, <1>5, <1>6
<1> QED BY <1>1, <1>2, <1>4, <1>7 DEF Orderly, OrderInv, Reached, After

\* An attempt fails and the call has a key: the next one is sent.
LEMMA OrderResent ==
  ASSUME Orderly, phase = "calling", Keyed(Here.endpoint), Resend,
         UNCHANGED <<world, script, executed>>
  PROVE  OrderInv'
<1>1. /\ attempt \in Nat /\ attempt >= 1 /\ call = 1 /\ step \in Int
  BY JourneyAssumption DEF Orderly, OrderInv, CallerInv, TypeOK
<1>2. /\ attempt' = attempt + 1
      /\ wire' = wire \union {[Current EXCEPT !.attempt = attempt + 1]}
      /\ UNCHANGED <<step, phase, call, silent, world, script, executed>>
  BY DEF Resend
<1>3. attempt' # 1 /\ attempt' \in Nat /\ attempt' <= attempt'
  BY <1>1, <1>2
<1>4. ~ Refused' /\ phase' = "calling"
  BY <1>2 DEF Refused
<1>5. ASSUME NEW q \in wire PROVE OnWire(q)'
  <2>1. OnWire(q) /\ q.attempt \in Nat
    BY DEF Orderly, OrderInv, TypeOK, Requests
  <2>2. q.step = step => q.attempt <= attempt'
    BY <1>1, <1>2, <2>1 DEF OnWire
  <2> QED BY <1>2, <1>3, <1>4, <2>1, <2>2 DEF OnWire, Stored, Here
<1>6. ASSUME NEW q, q = [Current EXCEPT !.attempt = attempt + 1] PROVE OnWire(q)'
  <2>1. q.step = step /\ q.call = 1 /\ q.attempt = attempt'
    BY <1>1, <1>2, <1>6 DEF Current
  <2> QED BY <1>1, <1>2, <1>3, <1>4, <2>1 DEF OnWire, Here
<1>7. \A q \in wire' : OnWire(q)'
  BY <1>2, <1>5, <1>6
<1> QED BY <1>2, <1>4, <1>7 DEF Orderly, OrderInv, Reached, After

\* The caller makes the call of the next step.
LEMMA OrderCall ==
  ASSUME Orderly, Call
  PROVE  OrderInv'
<1>1. phase = "ready" /\ call = 0 /\ step \in Int /\ step \notin executed
  BY DEF Orderly, OrderInv, CallerInv, TypeOK, Call
<1>2. /\ phase' = "calling" /\ call' = 1 /\ attempt' = 1
      /\ wire' = wire \union {[step |-> step, call |-> 1, attempt |-> 1]}
      /\ UNCHANGED <<world, script, step, executed, silent>>
  BY <1>1 DEF Call
<1>3. ~ Refused'
  BY <1>2 DEF Refused
<1>4. ASSUME NEW q \in wire PROVE OnWire(q)'
  <2>1. OnWire(q) /\ q.step # step
    BY <1>1 DEF Orderly, OrderInv, OnWire
  <2> QED BY <1>2, <2>1 DEF OnWire, Stored
<1>5. ASSUME NEW q, q = [step |-> step, call |-> 1, attempt |-> 1] PROVE OnWire(q)'
  <2>1. q.step = step /\ q.call = 1 /\ q.attempt = 1
    BY <1>5
  <2> QED BY <1>1, <1>2, <1>3, <2>1 DEF OnWire
<1>6. \A q \in wire' : OnWire(q)'
  BY <1>2, <1>4, <1>5
<1> QED BY <1>2, <1>3, <1>6 DEF Orderly, OrderInv, Reached, After

LEMMA OrderExpires ==
  ASSUME Orderly, HoldExpires
  PROVE  OrderInv'
<1>1. world' = [world EXCEPT !.payment = "expired", !.held = 0]
      /\ UNCHANGED <<script, step, phase, call, attempt, silent, wire, executed>>
  BY DEF HoldExpires, callerVars
<1>2. world'.payment = "expired"
  BY <1>1 DEF Orderly, TypeOK, Worlds
<1>3. \A q \in wire' : OnWire(q)'
  BY <1>1 DEF Orderly, OrderInv, OnWire, Stored, Refused, Here
<1> QED BY <1>1, <1>2, <1>3 DEF Orderly, OrderInv, Refused, Here

LEMMA OrderNext ==
  ASSUME TypeOK, CallerInv, PaymentInv, OrderInv, [Next]_vars
  PROVE  OrderInv'
<1>1. CASE silent'
  BY <1>1 DEF OrderInv
<1>2. CASE ~ silent' /\ UNCHANGED vars
  BY <1>2 DEF vars, callerVars, OrderInv, OnWire, Stored, Refused, Reached, After, Here
<1>3. CASE ~ silent' /\ Next
  <2>0. ~ silent
    BY <1>3, CallerSteps DEF Next, Call, NoAnswer, Resend, ReadBack, callerVars, Succeed,
       Stop, Lost, Throttled
  <2>1. Orderly
    BY <2>0 DEF Orderly
  <2>2. CASE Call
    BY <2>1, <2>2, OrderCall
  <2>3. CASE NoAnswer
    <3>1. phase = "calling" /\ Keyed(Here.endpoint) /\ Resend
          /\ UNCHANGED <<world, script, executed>>
      BY <1>3, <2>3 DEF NoAnswer
    <3> QED BY <2>1, <3>1, OrderResent
  <2>4. ~ ReadBack
    BY <2>1 DEF ReadBack, Orderly, OrderInv
  <2>5. CASE HoldExpires
    BY <2>1, <2>5, OrderExpires
  <2>6. ASSUME NEW r \in wire, Replay(r) PROVE OrderInv'
    <3>1. UNCHANGED <<world, script, executed>> /\ Stored(r)
      BY <2>6 DEF Replay
    <3>2. CASE Lost(r)
      BY <2>1, <3>1, <3>2, OrderLost
    <3>3. CASE Awaited(r) /\ Advance({step}) /\ wire' = wire \ {r} /\ UNCHANGED silent
      <4>1. step \in executed
        BY <3>1, <3>3 DEF Awaited, Current, Stored
      <4>2. executed' = executed \union {step}
        BY <3>1, <4>1
      <4>3. world'.payment # "expired" => world' = After(step)
        BY <2>1, <3>1, <4>1 DEF Orderly, OrderInv, Reached
      <4> QED BY <2>1, <3>1, <3>3, <4>2, <4>3, OrderAnswered
    <3> QED BY <2>6, <3>2, <3>3 DEF Replay, Succeed
  <2>7. ASSUME NEW r \in wire, Execute(r) PROVE OrderInv'
    <3>1. /\ executed' = executed \union {step} /\ script' = script
          /\ world'.payment # "expired" => world' = After(step)
      BY <2>1, <2>7, ExecutesHere
    <3>2. CASE Lost(r)
      BY <2>1, <2>7, <3>2, OrderExecutedLost
    <3>3. CASE Awaited(r) /\ Advance({step}) /\ wire' = wire \ {r} /\ UNCHANGED silent
      BY <2>1, <3>1, <3>3, OrderAnswered
    <3> QED BY <2>7, <3>2, <3>3 DEF Execute, Succeed
  <2>8. ASSUME NEW r \in wire, Refuse(r) PROVE OrderInv'
    BY <2>1, <2>8, OrderStopped, OrderLost DEF Refuse
  <2>9. ASSUME NEW r \in wire, Throttle(r) PROVE OrderInv'
    <3>1. UNCHANGED <<world, script, executed>> /\ (Throttled(r) \/ Stop(r) \/ Lost(r))
      BY <2>9 DEF Throttle, Throttled
    <3> QED BY <2>1, <3>1, OrderThrottled, OrderStopped, OrderLost
  <2> QED BY <1>3, <2>2, <2>3, <2>4, <2>5, <2>6, <2>7, <2>8, <2>9 DEF Next
<1> QED BY <1>1, <1>2, <1>3

LEMMA OrderInit == Init => OrderInv
<1> SUFFICES ASSUME Init PROVE OrderInv
  OBVIOUS
<1>1. After(0) = World0
  BY CourseDef DEF Init, After
<1>2. Reached = 0
  BY DEF Init, Reached
<1> QED BY <1>1, <1>2 DEF Init, OrderInv, Refused

\* As long as every call was answered, the service is where the steps lead
\* when each is carried out once and in order (client.go:266, money.go:85-88,
\* 179-181): no answered call leaves anything behind that acts later.
THEOREM AnswersInOrder == Spec => []AnsweredInOrder
<1>1. JInv /\ OrderInv => AnsweredInOrder
  BY DEF JInv, TypeOK, OrderInv, AnsweredInOrder, Reached, After
<1>2. JInv /\ OrderInv /\ [Next]_vars => OrderInv'
  BY OrderNext DEF JInv
<1> QED BY <1>1, <1>2, OrderInit, Invariance, PTL DEF Spec
==============================================================================
