-------------------------------- MODULE Journey --------------------------------
(***************************************************************************)
(* A caller that works through a script of calls, one after another, as an *)
(* order process does: it authorizes, then captures or voids, then refunds *)
(* (money.go, acceptance/journey_test.go).  A call may end without an      *)
(* answer, by an error or a crash; the caller then makes it again, with    *)
(* the same key if it has one, or reads the object back and decides.       *)
(*                                                                         *)
(* One call is what module Client makes of it: a keyed write may be sent   *)
(* several times and is deduplicated, a write without a key is sent once,  *)
(* and what was sent may reach the service at any later time, after later  *)
(* calls too.                                                              *)
(***************************************************************************)
EXTENDS Endpoints, Sequences, Integers

CONSTANTS
  Scripts,        \* the scripts a caller may follow: sequences of Steps
  MaxAttempts,    \* Client.retry.MaxAttempts
  MaxCalls        \* bound on the calls the caller makes for one step

---------------------------------------------------------------------------
(* What the calls ask for and what they act on.                            *)

Modes == {"authorize", "instant"}
PaymentStatus == {"captured", "expired", "requires_capture", "voided"}
SubscriptionStatus == {"active", "canceled", "past_due", "paused"}
TopupStatus == {"amount_mismatch", "created", "expired", "failed", "processing", "succeeded"}

\* An amount of zero in a capture is the absent amount.
Steps ==
  [endpoint : KeyedWrites \union UnkeyedWrites, amount : Nat, mode : Modes \union {"none"}]

ASSUME JourneyAssumption ==
  /\ \A s \in Scripts : s \in Seq(Steps)
  /\ MaxAttempts \in Nat \ {0} /\ MaxCalls \in Nat \ {0}

\* A script is about one payment.  The contract's amounts are at least 1, but
\* that of a capture, which may be absent.
ASSUME ScriptsAssumption ==
  \A s \in Scripts : \A i, j \in 1 .. Len(s) :
    /\ Keyed(s[i].endpoint) /\ s[i].endpoint # "CapturePayment" => s[i].amount > 0
    /\ s[i].endpoint = "CreatePayment" /\ s[j].endpoint = "CreatePayment" => i = j

\* One payment, a top-up, a subscription, a user and a credit limit; `sent`
\* is what the other keyed calls add up to, `hooks` what the webhook calls do.
World0 ==
  [payment |-> "none", held |-> 0, taken |-> 0, refunded |-> 0, sent |-> 0,
   topup |-> "created", credited |-> 0, subscription |-> "active",
   limit |-> 0, user |-> FALSE, hooks |-> 0]

Money(w) == <<w.held, w.taken, w.refunded, w.sent, w.credited>>

\* What the service makes of a payment; {} is a problem that says the call
\* was refused.
CreatePayment(w, s) ==
  IF s.mode = "instant"
  THEN {[w EXCEPT !.payment = "captured", !.taken = @ + s.amount]}
  ELSE {[w EXCEPT !.payment = "requires_capture", !.held = @ + s.amount]}

\* "A nil amount captures the full authorization; a smaller one captures part
\* and releases the rest."
CapturePayment(w, s) ==
  {v \in {[w EXCEPT !.payment = "captured", !.held = 0,
                    !.taken = @ + (IF s.amount = 0 THEN w.held ELSE s.amount)]} :
     w.payment = "requires_capture" /\ s.amount <= w.held}

\* Faulty variant: a void that does not look at the status.
VoidPaymentUnchecked(w, s) ==
  {[w EXCEPT !.payment = "voided", !.held = @ - 1]}

\* "voiding twice is the same void"
VoidPayment(w, s) ==
  {v \in {[w EXCEPT !.payment = "voided", !.held = 0]} :
     w.payment \in {"requires_capture", "voided"}}

CreateRefund(w, s) ==
  {v \in {[w EXCEPT !.refunded = @ + s.amount]} :
     w.payment = "captured" /\ v.refunded <= w.taken}

\* The lifecycle actions: "a state transition that repeats to the same state",
\* except that a canceled subscription stays so.
SubscriptionAction(w, status) ==
  {v \in {[w EXCEPT !.subscription = status]} :
     w.subscription # "canceled" \/ status = "canceled"}

\* The gateway has confirmed; a settled top-up is returned unchanged.
RefreshTopup(w) ==
  {[w EXCEPT !.topup = "succeeded", !.credited = IF w.topup = "created" THEN @ + 1 ELSE @]}

SetUserCreditLimit(w, s) == {[w EXCEPT !.limit = s.amount]}

CreateUser(w) == {v \in {[w EXCEPT !.user = TRUE]} : ~ w.user}

ChangeWebhooks(w) == {[w EXCEPT !.hooks = @ + 1]}

\* The other keyed calls: top-ups, transfers, conversions, subscriptions.
MoveMoney(w, s) == {[w EXCEPT !.sent = @ + s.amount]}

Served(w, s) ==
  CASE s.endpoint = "CreatePayment"      -> CreatePayment(w, s)
    [] s.endpoint = "CapturePayment"     -> CapturePayment(w, s)
    [] s.endpoint = "VoidPayment"        -> VoidPayment(w, s)
    [] s.endpoint = "CreateRefund"       -> CreateRefund(w, s)
    [] s.endpoint = "PauseSubscription"  -> SubscriptionAction(w, "paused")
    [] s.endpoint = "ResumeSubscription" -> SubscriptionAction(w, "active")
    [] s.endpoint = "CancelSubscription" -> SubscriptionAction(w, "canceled")
    [] s.endpoint = "SetUserCreditLimit" -> SetUserCreditLimit(w, s)
    [] s.endpoint = "RefreshTopup"       -> RefreshTopup(w)
    [] s.endpoint = "CreateUser"         -> CreateUser(w)
    [] s.endpoint \in WebhookCalls.unkeyed -> ChangeWebhooks(w)
    [] OTHER                             -> MoveMoney(w, s)

\* What a read of the object must show for a step to have been done.
Shows(w, s) ==
  CASE s.endpoint = "VoidPayment"        -> w.payment = "voided"
    [] s.endpoint = "PauseSubscription"  -> w.subscription = "paused"
    [] s.endpoint = "ResumeSubscription" -> w.subscription = "active"
    [] s.endpoint = "CancelSubscription" -> w.subscription = "canceled"
    [] s.endpoint = "RefreshTopup"       -> w.topup = "succeeded"
    [] OTHER                             -> FALSE

---------------------------------------------------------------------------
VARIABLES
  world,          \* what the service keeps
  script,         \* what the caller is after
  step,           \* the step it is at
  phase,          \* ready, calling, unknown (no answer) or stopped (refused)
  call,           \* calls made for this step
  attempt,        \* attempts of this call
  wire,           \* requests on their way
  executed,       \* steps whose key the service has stored
  silent,         \* some call ended without an answer
  concluded,      \* steps the caller knows to be done
  moved           \* for each step, how often it moved or released money

callerVars == <<step, phase, call, attempt, silent, concluded>>
vars == <<world, script, callerVars, wire, executed, moved>>

Requests == [step : 1 .. Len(script), call : 1 .. MaxCalls, attempt : 1 .. MaxAttempts]
Current == [step |-> step, call |-> call, attempt |-> attempt]
Here == script[step]

Init ==
  /\ world = World0
  /\ script \in Scripts
  /\ step = 1 /\ phase = "ready" /\ call = 0 /\ attempt = 0
  /\ wire = {} /\ executed = {} /\ silent = FALSE /\ concluded = {}
  /\ moved = [i \in 1 .. Len(script) |-> 0]

---------------------------------------------------------------------------
(* The caller.                                                             *)

Call ==
  /\ \/ phase = "ready" /\ step <= Len(script)
     \/ phase = "unknown"
  /\ call < MaxCalls
  /\ phase' = "calling"
  /\ call' = call + 1
  /\ attempt' = 1
  /\ wire' = wire \union {[step |-> step, call |-> call + 1, attempt |-> 1]}
  /\ UNCHANGED <<world, script, step, executed, silent, concluded, moved>>

Advance(done) ==
  /\ phase' = "ready"
  /\ step' = step + 1
  /\ call' = 0
  /\ attempt' = 0
  /\ concluded' = concluded \union done

Resend ==
  /\ attempt < MaxAttempts
  /\ attempt' = attempt + 1
  /\ wire' = wire \union {[Current EXCEPT !.attempt = attempt + 1]}
  /\ UNCHANGED <<step, phase, call, silent, concluded>>

\* Faulty variant: a write without a key is sent again.
NoAnswerResentAlways ==
  /\ phase = "calling"
  /\ \/ Resend
     \/ /\ phase' = "unknown"
        /\ silent' = TRUE
        /\ UNCHANGED <<step, call, attempt, concluded, wire>>
  /\ UNCHANGED <<world, script, executed, moved>>

\* No complete answer, or a 5xx: a keyed call is sent again while attempts
\* are left.  Otherwise, or when it is cancelled or the process dies, the
\* caller knows nothing.
NoAnswer ==
  /\ phase = "calling"
  /\ \/ Keyed(Here.endpoint) /\ Resend
     \/ /\ phase' = "unknown"
        /\ silent' = TRUE
        /\ UNCHANGED <<step, call, attempt, concluded, wire>>
  /\ UNCHANGED <<world, script, executed, moved>>

\* Faulty variant: a call that is not repeated is taken for done.
ReadBackNot ==
  /\ phase = "unknown"
  /\ ~ Keyed(Here.endpoint)
  /\ Advance({step})
  /\ UNCHANGED <<world, script, wire, executed, silent, moved>>

\* "read the payment back and decide": it is done, or the caller goes on
\* without it.  (Or makes the call again, which is Call.)
ReadBack ==
  /\ phase = "unknown"
  /\ ~ Keyed(Here.endpoint)
  /\ Advance(IF Shows(world, Here) THEN {step} ELSE {})
  /\ UNCHANGED <<world, script, wire, executed, silent, moved>>

---------------------------------------------------------------------------
(* The service.                                                            *)

Awaited(r) == phase = "calling" /\ r = Current

\* The answer does not reach the attempt that waits for it, if one does.
Lost(r) == wire' = wire \ {r} /\ UNCHANGED callerVars

Succeed(r) ==
  \/ Awaited(r) /\ Advance({step}) /\ wire' = wire \ {r} /\ UNCHANGED silent
  \/ Lost(r)

Stop(r) ==
  /\ Awaited(r)
  /\ phase' = "stopped"
  /\ wire' = wire \ {r}
  /\ UNCHANGED <<step, call, attempt, silent, concluded>>

Stored(r) == Keyed(script[r.step].endpoint) /\ r.step \in executed

Replay(r) ==
  /\ Stored(r)
  /\ Succeed(r)
  /\ UNCHANGED <<world, script, executed, moved>>

Execute(r) ==
  /\ ~ Stored(r)
  /\ \E w \in Served(world, script[r.step]) :
       /\ world' = w
       /\ moved' = IF Money(w) = Money(world) THEN moved ELSE [moved EXCEPT ![r.step] = @ + 1]
  /\ executed' = executed \union {r.step}
  /\ Succeed(r)
  /\ UNCHANGED script

Refuse(r) ==
  /\ ~ Stored(r)
  /\ Served(world, script[r.step]) = {}
  /\ Stop(r) \/ Lost(r)
  /\ UNCHANGED <<world, script, executed, moved>>

\* 429, "refused before it was acted on", is followed by another attempt,
\* whatever the method, or handed to the caller: after the last attempt, and
\* after any if it names a time beyond MaxDelay.
Throttle(r) ==
  /\ \/ /\ Awaited(r) /\ attempt < MaxAttempts
        /\ attempt' = attempt + 1
        /\ wire' = (wire \ {r}) \union {[r EXCEPT !.attempt = attempt + 1]}
        /\ UNCHANGED <<step, phase, call, silent, concluded>>
     \/ Stop(r)
     \/ Lost(r)
  /\ UNCHANGED <<world, script, executed, moved>>

\* "or until the hold expires on its own"
HoldExpires ==
  /\ world.payment = "requires_capture"
  /\ world' = [world EXCEPT !.payment = "expired", !.held = 0]
  /\ UNCHANGED <<script, callerVars, wire, executed, moved>>

---------------------------------------------------------------------------
Next ==
  \/ Call \/ NoAnswer \/ ReadBack \/ HoldExpires
  \/ \E r \in wire : Replay(r) \/ Execute(r) \/ Refuse(r) \/ Throttle(r)

Spec == Init /\ [][Next]_vars

---------------------------------------------------------------------------
(* Properties.                                                             *)

Worlds ==
  [payment : PaymentStatus \union {"none"}, held : Nat, taken : Nat, refunded : Nat,
   sent : Nat, topup : TopupStatus, credited : Nat,
   subscription : SubscriptionStatus, limit : Nat, user : BOOLEAN, hooks : Nat]

TypeOK ==
  /\ world \in Worlds
  /\ script \in Scripts
  /\ step \in 1 .. Len(script) + 1
  /\ phase \in {"ready", "calling", "unknown", "stopped"}
  /\ call \in 0 .. MaxCalls /\ attempt \in 0 .. MaxAttempts
  /\ wire \subseteq Requests
  /\ executed \subseteq 1 .. Len(script) /\ concluded \subseteq 1 .. Len(script)
  /\ silent \in BOOLEAN
  /\ moved \in [1 .. Len(script) -> Nat]

\* However often calls are repeated and however late what they sent arrives,
\* every step moves, holds or releases money at most once, a keyed one that
\* was answered exactly once (money.go:12-16: which calls take a key; 85-88,
\* 179-181: why the others need none).
MovedOnce ==
  \A i \in 1 .. Len(script) :
    /\ moved[i] <= 1
    /\ i \in concluded /\ Keyed(script[i].endpoint) => moved[i] = 1

\* The worlds the steps lead through, each carried out once.
Course(steps) ==
  LET w[n \in 0 .. Len(steps)] ==
        IF n = 0 THEN World0 ELSE CHOOSE v \in Served(w[n - 1], steps[n]) : TRUE
  IN  w

After(n) == Course(script)[n]

\* A refusal is conclusive for what was sent once.
Refused ==
  phase = "stopped" /\ (Keyed(Here.endpoint) => attempt = 1)

\* As long as every call was answered, the service is where the steps lead
\* when each is carried out once and in order: no answered call leaves
\* anything behind that acts later (client.go:266, money.go:85-88, 179-181).
\* A hold may expire meanwhile; and a keyed call refused on a later attempt
\* may have been carried out on an earlier one.
AnsweredInOrder ==
  ~ silent /\ (phase = "ready" \/ Refused) /\ world.payment # "expired"
    => world = After(step - 1)

\* What a caller has concluded of a final status stands, by whichever way it
\* came to know and whatever arrives late: a voided payment is never charged,
\* a captured one never voided, a canceled subscription never active
\* (money.go:58-60, 74-92, 174-177).
FinalStands ==
  \A i \in concluded :
    CASE script[i].endpoint = "VoidPayment"        -> world.payment = "voided" /\ world.taken = 0
      [] script[i].endpoint = "CapturePayment"     -> world.payment = "captured" /\ world.held = 0
      [] script[i].endpoint = "CancelSubscription" -> world.subscription = "canceled"
      [] OTHER                                     -> TRUE
===============================================================================
