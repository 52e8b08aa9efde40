------------------------------- MODULE Receiver -------------------------------
(***************************************************************************)
(* The webhook receiver: threads that verify deliveries and commit them to *)
(* a durable inbox before they answer, and a worker that takes rows of the *)
(* inbox, applies them and marks them (acceptance/receiver.py, the handler *)
(* README.md documents).  The wallet sends an event until it is answered,  *)
(* and again when it is asked to; what was sent may arrive at any later    *)
(* time, any number of times, in any order.                                *)
(*                                                                         *)
(* Each statement that commits is a step of its own, so the process may    *)
(* stop, and other threads may act, between any two of them.               *)
(***************************************************************************)
EXTENDS Webhook, FiniteSets

CONSTANTS
  Threads,        \* handler threads of the HTTP server
  Secret,         \* the endpoint's secret
  Tenant,         \* the configured tenant
  Tolerance,      \* what the receiver passes to VerifySignature
  Forged,         \* deliveries not signed with Secret, or changed since
  Misaddressed,   \* deliveries signed with Secret that are no event of Tenant
  MaxNow,         \* bound on the clock
  MaxSends,       \* bound on the deliveries the wallet sends
  MaxFaults       \* bound on restarts and injected worker failures

Deliveries == [header : HeaderTexts, body : Bodies]

\* The body the wallet sends for an event.
BodyOf(e) == [json |-> TRUE, type |-> TRUE, id |-> e, tenant |-> Tenant]

ASSUME ReceiverAssumption ==
  /\ Secret \in Secrets
  /\ Tenant \in Tenants
  /\ Tolerance \in Spans
  /\ MaxNow \in Nat /\ MaxSends \in Nat /\ MaxFaults \in Nat
  /\ Forged \union Misaddressed \subseteq Deliveries
  /\ \A d \in Forged : d.header # Sign(Secret, d.header.t, d.body)
  /\ \A d \in Misaddressed :
       /\ d.header = Sign(Secret, d.header.t, d.body)
       /\ \A e \in Events : d.body # BodyOf(e)

VARIABLES
  now,            \* the receiver's clock, in ticks
  happened,       \* events of this tenant
  sent,           \* deliveries the wallet has sent for them
  acknowledged,   \* events for which the wallet got a 200
  configured,     \* config.json has been written
  workerFail,     \* the file `worker-fail` exists
  thread,         \* what each handler thread is doing
  inbox,          \* table inbox: absent, pending or processed
  effects,        \* table effects
  worker,         \* the worker thread and the row its transaction holds
  faults          \* restarts and injected failures so far

walletVars == <<happened, sent, acknowledged>>
fileVars == <<configured, workerFail>>
tableVars == <<inbox, effects>>
vars == <<now, walletVars, fileVars, thread, tableVars, worker, faults>>

---------------------------------------------------------------------------
(* Derived notions.                                                        *)

Idle == [stage |-> "idle", event |-> Nil, status |-> 0]
Storing(e) == [stage |-> "storing", event |-> e, status |-> 0]
Answering(e, status) == [stage |-> "answering", event |-> e, status |-> status]

ThreadStates ==
  [stage : {"idle", "storing", "answering"}, event : Events \union {Nil}, status : {0, 200, 401, 503}]

Resting == [stage |-> "resting", event |-> Nil]
Dead == [stage |-> "dead", event |-> Nil]
WorkerStates == [stage : {"resting", "open", "applied", "dead"}, event : Events \union {Nil}]

\* The worker's transaction holds the write lock of the database.
Locked == worker.stage \in {"open", "applied"}

Pending == {e \in Events : inbox[e] = "pending"}
Accepted == {e \in Events : inbox[e] # "absent"}

\* An attempt is signed when it is made.
DeliveryOf(e) ==
  LET t == now \div TicksPerSecond
  IN  [header |-> Sign(Secret, t, BodyOf(e)), body |-> BodyOf(e)]

Wire == sent \union Forged \union Misaddressed

\* Faulty variant: the event is the one the unsigned header names.
IdentityByHeader(body, advisory) == advisory

\* The signed identity, for which the advisory header is no substitute.
Identity(body, advisory) == body.id

Verified(d) ==
  /\ VerifySignature(d.header, d.body, Secret, Tolerance, now) = "nil"
  /\ Parses(d.body)
  /\ d.body.tenant = Tenant

Init ==
  /\ now = 0
  /\ happened = {} /\ sent = {} /\ acknowledged = {}
  /\ configured = FALSE /\ workerFail = FALSE
  /\ thread = [h \in Threads |-> Idle]
  /\ inbox = [e \in Events |-> "absent"]
  /\ effects = {}
  /\ worker = Resting
  /\ faults = 0

---------------------------------------------------------------------------
(* The wallet, the operator and time.                                      *)

Tick ==
  /\ now < MaxNow
  /\ now' = now + 1
  /\ UNCHANGED <<walletVars, fileVars, thread, tableVars, worker, faults>>

Happen(e) ==
  /\ e \notin happened
  /\ happened' = happened \union {e}
  /\ UNCHANGED <<now, sent, acknowledged, fileVars, thread, tableVars, worker, faults>>

Transmit(e) ==
  /\ Cardinality(sent) < MaxSends
  /\ sent' = sent \union {DeliveryOf(e)}
  /\ UNCHANGED <<now, happened, acknowledged, fileVars, thread, tableVars, worker, faults>>

\* The first attempt, or another one while none has been answered with 200.
Send(e) == e \in happened \ acknowledged /\ Transmit(e)

\* RedeliverWebhookEvent: also an event that was acknowledged.  The call has
\* no key, so a caller that lost its answer makes it again.
Redeliver(e) == e \in happened /\ Transmit(e)

\* The signing secret, known since CreateWebhookEndpoint, is deployed.
Configure ==
  /\ ~ configured
  /\ configured' = TRUE
  /\ UNCHANGED <<now, walletVars, workerFail, thread, tableVars, worker, faults>>

BreakWorker ==
  /\ ~ workerFail
  /\ faults < MaxFaults
  /\ workerFail' = TRUE
  /\ faults' = faults + 1
  /\ UNCHANGED <<now, walletVars, configured, thread, tableVars, worker>>

MendWorker ==
  /\ workerFail
  /\ workerFail' = FALSE
  /\ UNCHANGED <<now, walletVars, configured, thread, tableVars, worker, faults>>

\* The process ends, at any point, and starts again: open transactions are
\* rolled back, requests go unanswered, the tables are as committed.
Restart ==
  /\ faults < MaxFaults
  /\ faults' = faults + 1
  /\ thread' = [h \in Threads |-> Idle]
  /\ worker' = Resting
  /\ UNCHANGED <<now, walletVars, fileVars, tableVars>>

---------------------------------------------------------------------------
(* do_POST.  (A body that is empty or larger than 1 MiB is turned away     *)
(* with 400 before any of this.)                                           *)

SetThread(h, t) == thread' = [thread EXCEPT ![h] = t]

\* Faulty variant: the answer does not wait for the inbox.
ReceiveAnsweringFirst(h, d) ==
  /\ thread[h] = Idle
  /\ \E advisory \in Events :
       LET e == Identity(d.body, advisory)
       IN  SetThread(h, CASE ~ configured -> Answering(Nil, 503)
                          [] configured /\ ~ Verified(d) -> Answering(Nil, 401)
                          [] OTHER -> Answering(e, 200))
  /\ UNCHANGED <<now, walletVars, fileVars, tableVars, worker, faults>>

\* A delivery is verified, parsed and checked against the tenant; only one
\* that passes goes on to the inbox, unless storage is refused, which a file
\* the operator may create and remove at any time decides.
Receive(h, d) ==
  /\ thread[h] = Idle
  /\ \E advisory \in Events, reject \in BOOLEAN :
       LET e == Identity(d.body, advisory)
       IN  SetThread(h, CASE ~ configured -> Answering(Nil, 503)
                          [] configured /\ ~ Verified(d) -> Answering(Nil, 401)
                          [] OTHER -> IF reject THEN Answering(e, 503) ELSE Storing(e))
  /\ UNCHANGED <<now, walletVars, fileVars, tableVars, worker, faults>>

\* INSERT ... ON CONFLICT DO NOTHING, committed.
Store(h) ==
  /\ thread[h].stage = "storing"
  /\ ~ Locked
  /\ LET e == thread[h].event
     IN  /\ inbox' = [inbox EXCEPT ![e] = IF @ = "absent" THEN "pending" ELSE @]
         /\ SetThread(h, Answering(e, 200))
  /\ UNCHANGED <<now, walletVars, fileVars, effects, worker, faults>>

\* The disk, or the lock held past the timeout: sqlite3.Error.
StoreFails(h) ==
  /\ thread[h].stage = "storing"
  /\ SetThread(h, Answering(thread[h].event, 503))
  /\ UNCHANGED <<now, walletVars, fileVars, tableVars, worker, faults>>

\* The attempt is recorded and answered.
Answer(h) ==
  /\ thread[h].stage = "answering"
  /\ ~ Locked
  /\ acknowledged' = IF thread[h].status = 200
                     THEN acknowledged \union {thread[h].event} ELSE acknowledged
  /\ SetThread(h, Idle)
  /\ UNCHANGED <<now, happened, sent, fileVars, tableVars, worker, faults>>

\* The attempt could not be recorded, which nothing catches, or the answer
\* is lost: the delivery may be stored, and the wallet sends it again.
GoUnanswered(h) ==
  /\ thread[h].stage = "answering"
  /\ SetThread(h, Idle)
  /\ UNCHANGED <<now, walletVars, fileVars, tableVars, worker, faults>>

---------------------------------------------------------------------------
(* worker.  Its transaction begins, selects a pending row, inserts the     *)
(* effect and sets the marker; nothing of it is visible before it commits. *)

Begin ==
  /\ worker = Resting
  /\ \E e \in Pending : worker' = [stage |-> "open", event |-> e]
  /\ UNCHANGED <<now, walletVars, fileVars, thread, tableVars, faults>>

\* Faulty variant: the effect is committed by itself, before the marker.
ApplyAndCommit ==
  /\ worker.stage = "open"
  /\ worker.event \notin effects
  /\ effects' = effects \union {worker.event}
  /\ worker' = [worker EXCEPT !.stage = "applied"]
  /\ UNCHANGED <<now, walletVars, fileVars, thread, inbox, faults>>

\* INSERT INTO effects; the key must be new.
Apply ==
  /\ worker.stage = "open"
  /\ worker.event \notin effects
  /\ worker' = [worker EXCEPT !.stage = "applied"]
  /\ UNCHANGED <<now, walletVars, fileVars, thread, tableVars, faults>>

\* RuntimeError: the transaction is rolled back and the loop goes on.
RollBack ==
  /\ worker.stage = "applied"
  /\ workerFail
  /\ worker' = Resting
  /\ UNCHANGED <<now, walletVars, fileVars, thread, tableVars, faults>>

\* Faulty variant: the marker is forgotten.
CommitWithoutMarker ==
  /\ worker.stage = "applied"
  /\ ~ workerFail
  /\ effects' = effects \union {worker.event}
  /\ worker' = Resting
  /\ UNCHANGED <<now, walletVars, fileVars, thread, inbox, faults>>

\* Effect and marker are committed together.
Commit ==
  /\ worker.stage = "applied"
  /\ ~ workerFail
  /\ inbox' = [inbox EXCEPT ![worker.event] = "processed"]
  /\ effects' = effects \union {worker.event}
  /\ worker' = Resting
  /\ UNCHANGED <<now, walletVars, fileVars, thread, faults>>

\* sqlite3.Error at any statement, a key conflict included, is not caught:
\* the transaction is rolled back and the thread ends, alone.
WorkerDies ==
  /\ worker # Dead
  /\ worker' = Dead
  /\ UNCHANGED <<now, walletVars, fileVars, thread, tableVars, faults>>

---------------------------------------------------------------------------
Handler(h) ==
  \/ \E d \in Wire : Receive(h, d)
  \/ Store(h) \/ StoreFails(h) \/ Answer(h) \/ GoUnanswered(h)

WorkerStep == Begin \/ Apply \/ RollBack \/ Commit

Next ==
  \/ Tick \/ Configure \/ BreakWorker \/ MendWorker \/ Restart
  \/ \E e \in Events : Happen(e) \/ Send(e) \/ Redeliver(e)
  \/ \E h \in Threads : Handler(h)
  \/ WorkerStep \/ WorkerDies

Spec == Init /\ [][Next]_vars

\* The worker thread is scheduled and its statements end; an injected
\* failure is taken away again.  Nothing is assumed of the handlers or of the
\* wallet, nor that a dead worker is ever noticed.
FairSpec == Spec /\ WF_vars(WorkerStep) /\ WF_vars(MendWorker)

---------------------------------------------------------------------------
(* Properties.                                                             *)

TypeOK ==
  /\ now \in 0 .. MaxNow
  /\ happened \subseteq Events /\ acknowledged \subseteq Events /\ effects \subseteq Events
  /\ sent \subseteq Deliveries
  /\ configured \in BOOLEAN /\ workerFail \in BOOLEAN
  /\ thread \in [Threads -> ThreadStates]
  /\ inbox \in [Events -> {"absent", "pending", "processed"}]
  /\ worker \in WorkerStates
  /\ faults \in 0 .. MaxFaults

\* The window in unbounded integers, both edges included.
Within(d, tolerance) ==
  LET skew == now - d.header.t * TicksPerSecond
      span == IF tolerance < 0 THEN -tolerance ELSE tolerance
  IN  -span <= skew /\ skew <= span

\* Whatever tolerance a receiver passes, and at every moment: what the
\* wallet sent verifies exactly within the window, and a delivery signed
\* with another secret or changed after signing never does, its timestamp
\* moved into the window included.  The most negative tolerance, whose
\* magnitude does not fit, may refuse more but admits nothing else
\* (webhook.go:72-112).
VerifiesWhatWasSigned ==
  \A d \in Wire, tolerance \in Spans :
    LET verifies == VerifySignature(d.header, d.body, Secret, tolerance, now) = "nil"
        genuine == d \notin Forged /\ Within(d, tolerance)
    IN  /\ verifies => genuine
        /\ genuine /\ tolerance # -HalfSpan => verifies

\* At every moment, and so after a crash at any point, the effects are those
\* of the marked rows: "a worker failure rolls back the local effect and
\* marker together" (acceptance/README.md:59; receiver.py:15-24).
EffectIffMarker == effects = {e \in Events : inbox[e] = "processed"}

\* An accepted event takes effect, in spite of failures and restarts, unless
\* the worker thread has died of an error it does not catch and stays dead: a
\* restart takes up what the dead worker left (receiver.py:14-27).
EventuallyProcessed ==
  \A e \in Events :
    inbox[e] = "pending" ~> inbox[e] = "processed" \/ [](worker = Dead)

\* Receiver implements Delivery: only events that happened are accepted, once,
\* whatever arrives, how often, and with which advisory header; a 200 is said
\* only of a durable row; effects are applied once and never lost
\* (README.md:267-274, webhook.go:65-67).
D == INSTANCE Delivery WITH accepted <- Accepted, applied <- effects

DeliverySpec == D!Spec
===============================================================================
