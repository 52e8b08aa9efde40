-------------------------------- MODULE Client --------------------------------
(***************************************************************************)
(* Calls in flight through one client: doKeyed and the retry loop of `do`  *)
(* (client.go), the requests they leave on the wire, and the service that  *)
(* answers them.  A request outlives the attempt that sent it: it may      *)
(* reach the service after the client gave up on it, timed out, or died.   *)
(*                                                                         *)
(* Several calls may ask for one operation, by carrying the same           *)
(* idempotency key: concurrent callers, or one caller that repeats its     *)
(* call after a crash.                                                     *)
(***************************************************************************)
EXTENDS RetryDelay, Endpoints

CONSTANTS
  Calls,        \* calls of exported methods
  CallOf,       \* what each asks for, see CallRecords
  Policy,       \* Client.retry
  Keys,         \* non-empty idempotency keys
  ValidKeys,    \* those IdempotencyKey.validate accepts
  NoKey,        \* the empty key
  Carried,      \* what net/http delivers of each key: it strips outer blanks
  Payloads,     \* request bodies
  Statuses,     \* HTTP statuses the service and what is before it answer with
  Headers       \* Retry-After headers they send

\* A keyed call goes through doKeyed; the other calls pass the empty key to
\* `do`.  "marshals" says whether json.Marshal accepts the request value.
CallRecords ==
  [endpoint : Endpoints, key : Keys \union {NoKey}, payload : Payloads, marshals : BOOLEAN]

ASSUME CallsAssumption ==
  /\ CallOf \in [Calls -> CallRecords]
  /\ \A c \in Calls : ~ Keyed(CallOf[c].endpoint) => CallOf[c].key = NoKey
  /\ ValidKeys \subseteq Keys
  /\ NoKey \notin Keys
  /\ Carried \in [Keys \union {NoKey} -> Keys \union {NoKey}]
  /\ Carried[NoKey] = NoKey
  /\ Calls \intersect Keys = {}

\* A usable key reaches the service as its caller wrote it.
KeysSurvive == \A k \in ValidKeys : Carried[k] = k

ASSUME PolicyAssumption == Policy \in RetryPolicies

ASSUME ServiceAssumption ==
  Statuses \subseteq 100 .. 599 /\ Headers \subseteq HeaderRecords

VARIABLES
  pc,           \* where each call is in `do`
  attempt,      \* its loop variable
  delay,        \* the wait it is in
  cancelled,    \* calls whose context is done
  response,     \* what http.Client.Do returned for the current attempt
  result,       \* what the method returned
  out,          \* the caller's result value, {} while untouched
  inflight,     \* requests on their way to the service
  effects       \* requests that moved money

clientVars == <<pc, attempt, delay, result, out>>
serviceVars == <<inflight, effects>>
vars == <<pc, attempt, delay, cancelled, response, result, out, inflight, effects>>

---------------------------------------------------------------------------
(* Derived notions.                                                        *)

Running == {"build", "sent", "reading", "waiting"}
Success == 200 .. 299
ProblemRange == 400 .. 599

Requests ==
  [call : Calls, attempt : 1 .. Policy.MaxAttempts,
   key : Keys \union {NoKey}, payload : Payloads]

Responses ==
  [status : Statuses \union {0}, header : Headers \union {NoHeader}, body : SUBSET Requests]

NoResponse == [status |-> 0, header |-> NoHeader, body |-> {}]

Kinds == {"none", "ok", "invalid", "local", "cancelled", "transport",
          "problem", "unexpected", "decode"}
Results == [kind : Kinds, status : Statuses \union {0}]
Outcome(kind) == [kind |-> kind, status |-> 0]

Writes(c) == Method(CallOf[c].endpoint) = "POST"

\* "a read, or a write the server deduplicates by key"
ReplaySafe(c) == Method(CallOf[c].endpoint) = "GET" \/ CallOf[c].key # NoKey

\* The operation a call asks for: what its key names, or the call itself.
Op(c) == IF CallOf[c].key \in ValidKeys THEN CallOf[c].key ELSE c

\* Faulty variants: a key minted for every further attempt; a key only on
\* the first one; a payload encoded again from a value that has changed.
RequestWithFreshKey(c) ==
  [call |-> c, attempt |-> attempt[c],
   key |-> IF attempt[c] = 1 THEN Carried[CallOf[c].key] ELSE CHOOSE k \in Keys : k # CallOf[c].key,
   payload |-> CallOf[c].payload]

RequestKeyedOnce(c) ==
  [call |-> c, attempt |-> attempt[c],
   key |-> IF attempt[c] = 1 THEN Carried[CallOf[c].key] ELSE NoKey,
   payload |-> CallOf[c].payload]

RequestEncodedAgain(c) ==
  [call |-> c, attempt |-> attempt[c], key |-> Carried[CallOf[c].key],
   payload |-> IF attempt[c] = 1 THEN CallOf[c].payload
               ELSE CHOOSE p \in Payloads : p # CallOf[c].payload]

\* The request of the current attempt: the key comes from the call and the
\* payload was encoded once, before the loop.
Request(c) ==
  [call |-> c, attempt |-> attempt[c], key |-> Carried[CallOf[c].key],
   payload |-> CallOf[c].payload]

---------------------------------------------------------------------------
(* The caller, its context and its process.                                *)

Init ==
  /\ pc = [c \in Calls |-> "idle"]
  /\ attempt = [c \in Calls |-> 0]
  /\ delay = [c \in Calls |-> 0]
  /\ cancelled = {}
  /\ response = [c \in Calls |-> NoResponse]
  /\ result = [c \in Calls |-> Outcome("none")]
  /\ out = [c \in Calls |-> {}]
  /\ inflight = {}
  /\ effects = {}

Finish(c, r) ==
  /\ pc' = [pc EXCEPT ![c] = "done"]
  /\ result' = [result EXCEPT ![c] = r]
  /\ response' = [response EXCEPT ![c] = NoResponse]
  /\ delay' = [delay EXCEPT ![c] = 0]

\* doKeyed and the head of `do`: a money-moving call without a usable key,
\* and a value that does not encode, never reach the network.
Sendable(c) ==
  /\ Keyed(CallOf[c].endpoint) => CallOf[c].key \in ValidKeys
  /\ CallOf[c].marshals

Start(c) ==
  /\ pc[c] = "idle"
  /\ Sendable(c)
  /\ pc' = [pc EXCEPT ![c] = "build"]
  /\ attempt' = [attempt EXCEPT ![c] = 1]
  /\ UNCHANGED <<delay, cancelled, response, result, out, serviceVars>>

RefuseLocally(c) ==
  /\ pc[c] = "idle"
  /\ ~ Sendable(c)
  /\ Finish(c, Outcome("invalid"))
  /\ UNCHANGED <<attempt, cancelled, out, serviceVars>>

Cancel(c) ==
  /\ pc[c] \in Running
  /\ c \notin cancelled
  /\ cancelled' = cancelled \union {c}
  /\ UNCHANGED <<clientVars, response, serviceVars>>

\* The process dies.  What its calls were doing is lost, what they sent is
\* not.  The calls still idle are those of the next process.
Crash ==
  /\ \E c \in Calls : pc[c] \in Running
  /\ pc' = [c \in Calls |-> IF pc[c] \in Running THEN "crashed" ELSE pc[c]]
  /\ response' = [c \in Calls |-> NoResponse]
  /\ delay' = [c \in Calls |-> 0]
  /\ UNCHANGED <<attempt, cancelled, result, out, serviceVars>>

---------------------------------------------------------------------------
(* One attempt.                                                            *)

\* The request cannot be built or the credential source fails.
FailLocally(c) ==
  /\ pc[c] = "build"
  /\ Finish(c, Outcome("local"))
  /\ UNCHANGED <<attempt, cancelled, out, serviceVars>>

\* net/http sends nothing for a context that is already done.
SendCancelled(c) ==
  /\ pc[c] = "build"
  /\ c \in cancelled
  /\ Finish(c, Outcome("cancelled"))
  /\ UNCHANGED <<attempt, cancelled, out, serviceVars>>

Send(c) ==
  /\ pc[c] = "build"
  /\ c \notin cancelled
  /\ pc' = [pc EXCEPT ![c] = "sent"]
  /\ inflight' = inflight \union {Request(c)}
  /\ UNCHANGED <<attempt, delay, cancelled, response, result, out, effects>>

EnterWait(c, d) ==
  /\ pc' = [pc EXCEPT ![c] = "waiting"]
  /\ delay' = [delay EXCEPT ![c] = d]
  /\ response' = [response EXCEPT ![c] = NoResponse]
  /\ UNCHANGED result

\* Faulty variants: an attempt too many; a write without a key sent again.
NoCompleteAnswerOnceMore(c) ==
  LET again == ReplaySafe(c) /\ attempt[c] <= Policy.MaxAttempts
  IN  \/ c \in cancelled /\ Finish(c, Outcome("cancelled"))
      \/ /\ c \notin cancelled /\ again
         /\ \E d \in Backoff(Policy, attempt[c]) : EnterWait(c, d)
      \/ c \notin cancelled /\ ~ again /\ Finish(c, Outcome("transport"))

NoCompleteAnswerAnyMethod(c) ==
  LET again == attempt[c] < Policy.MaxAttempts
  IN  \/ c \in cancelled /\ Finish(c, Outcome("cancelled"))
      \/ /\ c \notin cancelled /\ again
         /\ \E d \in Backoff(Policy, attempt[c]) : EnterWait(c, d)
      \/ c \notin cancelled /\ ~ again /\ Finish(c, Outcome("transport"))

\* An attempt that got no complete answer: the caller's context is asked
\* first, then a replay-safe call with attempts left backs off.
NoCompleteAnswer(c) ==
  LET again == ReplaySafe(c) /\ attempt[c] < Policy.MaxAttempts
  IN  \/ c \in cancelled /\ Finish(c, Outcome("cancelled"))
      \/ /\ c \notin cancelled /\ again
         /\ \E d \in Backoff(Policy, attempt[c]) : EnterWait(c, d)
      \/ c \notin cancelled /\ ~ again /\ Finish(c, Outcome("transport"))

\* http.Client.Do fails: the connection, its timeout or the context.  The
\* request may have been served, be on its way, or go nowhere.
TransportFail(c) ==
  /\ pc[c] = "sent"
  /\ response[c] = NoResponse
  /\ NoCompleteAnswer(c)
  /\ UNCHANGED <<attempt, cancelled, out, serviceVars>>

\* A problem: the waits the policy grants it, none if it is not to be retried.
Waits(c) ==
  IF Retryable(Policy, response[c].status, ReplaySafe(c), attempt[c])
  THEN WaitsAfterProblem(Policy, attempt[c], response[c].header)
  ELSE {}

RetryProblem(c) ==
  /\ pc[c] = "sent"
  /\ response[c].status \in ProblemRange
  /\ \E d \in Waits(c) : EnterWait(c, d)
  /\ UNCHANGED <<attempt, cancelled, out, serviceVars>>

ReturnProblem(c) ==
  /\ pc[c] = "sent"
  /\ response[c].status \in ProblemRange
  /\ Waits(c) = {}
  /\ Finish(c, [kind |-> "problem", status |-> response[c].status])
  /\ UNCHANGED <<attempt, cancelled, out, serviceVars>>

\* A redirect, which is never followed, or any other stray status.
ReturnUnexpected(c) ==
  /\ pc[c] = "sent"
  /\ response[c] # NoResponse
  /\ response[c].status \notin Success \union ProblemRange
  /\ Finish(c, [kind |-> "unexpected", status |-> response[c].status])
  /\ UNCHANGED <<attempt, cancelled, out, serviceVars>>

BeginRead(c) ==
  /\ pc[c] = "sent"
  /\ response[c].status \in Success
  /\ pc' = [pc EXCEPT ![c] = "reading"]
  /\ UNCHANGED <<attempt, delay, cancelled, response, result, out, serviceVars>>

\* Faulty variants: an empty body taken for an answer; what was decoded of
\* the body left in the caller's value.
ReadEmptyAsAnswer(c) ==
  /\ pc[c] = "reading"
  /\ Finish(c, Outcome("ok"))
  /\ UNCHANGED <<attempt, cancelled, out, serviceVars>>

ReadIntoCallersValue(c) ==
  /\ pc[c] = "reading"
  /\ NoCompleteAnswer(c)
  /\ out' = [out EXCEPT ![c] = response[c].body]
  /\ UNCHANGED <<attempt, cancelled, serviceVars>>

\* The body breaks off, or holds the beginning of a JSON value.
ReadTruncated(c) ==
  /\ pc[c] = "reading"
  /\ NoCompleteAnswer(c)
  /\ UNCHANGED <<attempt, cancelled, out, serviceVars>>

\* A complete body that is not the answer's type.
ReadIncompatible(c) ==
  /\ pc[c] = "reading"
  /\ Finish(c, Outcome("decode"))
  /\ UNCHANGED <<attempt, cancelled, out, serviceVars>>

ReadBody(c) ==
  /\ pc[c] = "reading"
  /\ out' = [out EXCEPT ![c] = response[c].body]
  /\ Finish(c, Outcome("ok"))
  /\ UNCHANGED <<attempt, cancelled, serviceVars>>

\* Faulty variant: the loop variable does not advance.
WaitElapsedSameAttempt(c) ==
  /\ pc[c] = "waiting"
  /\ delay[c] > 0 \/ c \notin cancelled
  /\ pc' = [pc EXCEPT ![c] = "build"]
  /\ delay' = [delay EXCEPT ![c] = 0]
  /\ UNCHANGED <<attempt, cancelled, response, result, out, serviceVars>>

\* wait: a delay of zero only looks at the context, a longer one races it.
WaitElapsed(c) ==
  /\ pc[c] = "waiting"
  /\ delay[c] > 0 \/ c \notin cancelled
  /\ pc' = [pc EXCEPT ![c] = "build"]
  /\ attempt' = [attempt EXCEPT ![c] = @ + 1]
  /\ delay' = [delay EXCEPT ![c] = 0]
  /\ UNCHANGED <<cancelled, response, result, out, serviceVars>>

WaitCancelled(c) ==
  /\ pc[c] = "waiting"
  /\ c \in cancelled
  /\ Finish(c, Outcome("cancelled"))
  /\ UNCHANGED <<attempt, cancelled, out, serviceVars>>

---------------------------------------------------------------------------
(* The service, as the client relies on it: money-moving calls are         *)
(* deduplicated by key, a key reused with other parameters is a conflict,  *)
(* 4xx is said before anything was done.  A 5xx may be said after it.      *)

Stored(m) == {e \in effects : m.key # NoKey /\ e.key = m.key}

\* Only on a problem does `do` look at Retry-After.
HeadersOn(s) == IF s \in ProblemRange THEN Headers ELSE {NoHeader}

\* An answer reaches the attempt that waits for it, or is lost.
Answer(m, s, body) ==
  \/ /\ pc[m.call] = "sent"
     /\ attempt[m.call] = m.attempt
     /\ response[m.call] = NoResponse
     /\ \E h \in HeadersOn(s) :
          response' = [response EXCEPT ![m.call] = [status |-> s, header |-> h, body |-> body]]
  \/ UNCHANGED response

\* net/http may send a replay-safe request again on a fresh connection.
Receive(m) ==
  \/ inflight' = inflight \ {m}
  \/ ReplaySafe(m.call) /\ inflight' = inflight

ServiceExecutes(m) ==
  /\ Writes(m.call)
  /\ Stored(m) = {}
  /\ effects' = effects \union {m}
  /\ Receive(m)
  /\ \E s \in Statuses \intersect (Success \union 500 .. 599) : Answer(m, s, {m})
  /\ UNCHANGED <<clientVars, cancelled>>

ServiceReplays(m) ==
  /\ \E e \in Stored(m), s \in Statuses \intersect Success :
       e.payload = m.payload /\ Answer(m, s, {e})
  /\ Receive(m)
  /\ UNCHANGED <<clientVars, cancelled, effects>>

ServiceReads(m) ==
  /\ ~ Writes(m.call)
  /\ \E s \in Statuses \intersect Success : Answer(m, s, {m})
  /\ Receive(m)
  /\ UNCHANGED <<clientVars, cancelled, effects>>

\* Also the conflict of a key stored with other parameters.
ServiceDeclines(m) ==
  /\ \E s \in Statuses \ Success : Answer(m, s, {})
  /\ Receive(m)
  /\ UNCHANGED <<clientVars, cancelled, effects>>

---------------------------------------------------------------------------
CallStep(c) ==
  \/ FailLocally(c) \/ SendCancelled(c) \/ Send(c)
  \/ TransportFail(c) \/ RetryProblem(c) \/ ReturnProblem(c) \/ ReturnUnexpected(c)
  \/ BeginRead(c) \/ ReadTruncated(c) \/ ReadIncompatible(c) \/ ReadBody(c)
  \/ WaitElapsed(c) \/ WaitCancelled(c)

Service(m) ==
  ServiceExecutes(m) \/ ServiceReplays(m) \/ ServiceReads(m) \/ ServiceDeclines(m)

Next ==
  \/ \E c \in Calls : Start(c) \/ RefuseLocally(c) \/ Cancel(c) \/ CallStep(c)
  \/ Crash
  \/ \E m \in inflight : Service(m)

Spec == Init /\ [][Next]_vars

\* A goroutine inside `do` is scheduled, a timer fires, and http.Client.Do
\* returns within the client's timeout (30 s unless the caller's own client
\* has none).  Nothing is assumed of the service.
FairSpec == Spec /\ \A c \in Calls : WF_vars(CallStep(c))

---------------------------------------------------------------------------
(* Properties.                                                             *)

\* Every variable keeps its type; in particular no call makes more than
\* MaxAttempts attempts (client.go:266, 320, 340).
TypeOK ==
  /\ pc \in [Calls -> {"idle", "done", "crashed"} \union Running]
  /\ attempt \in [Calls -> 0 .. Policy.MaxAttempts]
  /\ delay \in [Calls -> Durations]
  /\ cancelled \subseteq Calls
  /\ response \in [Calls -> Responses]
  /\ result \in [Calls -> Results]
  /\ out \in [Calls -> SUBSET Requests]
  /\ inflight \subseteq Requests
  /\ effects \subseteq Requests

\* The reason a POST may be retried at all (client.go:195-204): however many
\* attempts, calls, crashes and late or repeated deliveries there are, one
\* operation moves money at most once.  An unkeyed write is an operation of
\* its own, so its own retries must never reach the service twice.
AtMostOnce ==
  \A e, f \in effects : Op(e.call) = Op(f.call) => e = f

\* value is the movement made for c's operation with c's parameters.
IsMovementFor(c, value) ==
  \E e \in effects :
    value = {e} /\ Op(e.call) = Op(c) /\ e.payload = CallOf[c].payload

\* A write that reports success hands its caller the movement the service
\* made for that operation with those parameters, whichever attempt or call
\* made it (client.go:308-335).
AnswerIsTheMovement ==
  \A c \in Calls :
    Writes(c) /\ result[c].kind = "ok" => IsMovementFor(c, out[c])

\* A failed call leaves the caller's value untouched: an answer that broke
\* off is never visible, not even when the next attempt is cancelled
\* (client.go:308 "never expose a partial answer").
OutOnlyOnSuccess ==
  \A c \in Calls : out[c] # {} => result[c].kind = "ok"

\* The errors by which a caller may conclude that its own requests moved
\* nothing: the call was refused locally, or it carries no key and failed
\* before sending or with a 4xx.  (A keyed call may get a 4xx on a later
\* attempt than the one that moved the money.)
Refused(c) ==
  \/ result[c].kind = "invalid"
  \/ /\ ~ ReplaySafe(c)
     /\ \/ result[c].kind = "local"
        \/ result[c].kind = "problem" /\ result[c].status < 500

\* After such an error nothing the call sent has moved money, and nothing it
\* sent is still under way that could (client.go:266, 279, 347-349).
RefusalIsFinal ==
  \A c \in Calls : Refused(c) => \A m \in inflight \union effects : m.call # c

\* Every request of a money-moving call arrives with the usable key its
\* caller gave, the same on every attempt (client.go:185-193, 252-253;
\* idempotency.go:52 "must survive an HTTP round trip unmangled").
KeyedOnTheWire ==
  \A m \in inflight \union effects :
    Keyed(CallOf[m.call].endpoint) => m.key \in ValidKeys /\ m.key = CallOf[m.call].key

\* A call that was started returns, whatever the service does: attempts are
\* bounded and each of them ends (client.go:231-336).
Terminates ==
  \A c \in Calls : pc[c] = "build" ~> pc[c] \in {"done", "crashed"}

---------------------------------------------------------------------------
(* The inductive invariant behind the safety properties.                   *)

\* The response, the result and the loop variable fit the place in `do`.
ControlInv ==
  \A c \in Calls :
    /\ pc[c] = "idle" => attempt[c] = 0
    /\ pc[c] \in Running => attempt[c] >= 1 /\ Sendable(c)
    /\ pc[c] = "waiting" => attempt[c] < Policy.MaxAttempts
    /\ pc[c] # "done" => result[c].kind = "none"
    /\ pc[c] \notin {"sent", "reading"} => response[c] = NoResponse
    /\ pc[c] = "reading" => response[c].status \in Success
    /\ result[c].kind = "invalid" => attempt[c] = 0
    /\ out[c] # {} => result[c].kind = "ok"

\* A request is what its call sent on an attempt it has begun.
RequestInv ==
  \A m \in inflight \union effects :
    /\ m.key = Carried[CallOf[m.call].key]
    /\ m.payload = CallOf[m.call].payload
    /\ m.attempt <= attempt[m.call]
    /\ Sendable(m.call)

\* The service's half: one movement for each key, reads move nothing.
EffectInv ==
  /\ \A e \in effects : Writes(e.call)
  /\ \A e, f \in effects : e.key # NoKey /\ e.key = f.key => e = f

\* A status that is neither a success nor a server's failure; 0 is none.
Refusal(s) == 0 < s /\ s < 500 /\ s \notin Success

SentBy(c) == {m \in inflight : m.call = c}
DoneBy(c) == {m \in effects : m.call = c}

\* A write without a key has at most one request, which is nowhere once an
\* answer has come unless that answer says it may have been executed: so
\* another attempt, or an error that says refused, finds none left.
UnkeyedInv ==
  \A c \in Calls : ~ ReplaySafe(c) =>
    /\ \A m, n \in SentBy(c) \union DoneBy(c) : m = n
    /\ SentBy(c) = {} \/ DoneBy(c) = {}
    /\ pc[c] \in {"build", "waiting"} \/ Refused(c) => SentBy(c) \union DoneBy(c) = {}
    /\ response[c] # NoResponse => SentBy(c) = {}
    /\ Refusal(response[c].status) => DoneBy(c) = {}

\* A success on its way to a writing caller carries a recorded movement of
\* its operation, and so does the value the caller was given.
AnswerInv ==
  \A c \in Calls : Writes(c) =>
    /\ response[c].status \in Success => IsMovementFor(c, response[c].body)
    /\ result[c].kind = "ok" => IsMovementFor(c, out[c])

\* Where usable keys survive the wire it holds in every reachable state, and
\* every step preserves it from any state that satisfies it (ClientProofs).
IInv == TypeOK /\ ControlInv /\ RequestInv /\ EffectInv /\ UnkeyedInv /\ AnswerInv

---------------------------------------------------------------------------
(* Client implements WalletOperation.                                      *)

WriteCalls == {c \in Calls : Writes(c)}
Operations == Calls \union ValidKeys
OpOfWrites == [c \in WriteCalls |-> Op(c)]

Ledger(o) == {e \in effects : Op(e.call) = o}

Phase(c) ==
  CASE pc[c] = "idle"            -> "idle"
    [] pc[c] \in Running         -> "pending"
    [] pc[c] = "crashed"         -> "unknown"
    [] result[c].kind = "ok"     -> "ok"
    [] Refused(c)                -> "refused"
    [] OTHER                     -> "unknown"

W == INSTANCE WalletOperation WITH
       Calls <- WriteCalls,
       Ops <- Operations,
       OpOf <- OpOfWrites,
       Movements <- Requests,
       ledger <- [o \in Operations |-> Ledger(o)],
       phase <- [c \in WriteCalls |-> Phase(c)],
       answer <- [c \in WriteCalls |-> out[c]]

\* Every behaviour of the retry loop, the wire and the service is one of the
\* abstract operation: money moves once, success shows the movement, refusal
\* is final (README.md "Money-moving calls take an idempotency key").
WalletSpec == W!Spec

===============================================================================
