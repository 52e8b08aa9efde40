----------------------------- MODULE ClientProofs -----------------------------
(***************************************************************************)
(* Proofs about Client for any set of calls, keys, payloads and statuses,  *)
(* any retry policy and any headers.  IInv is shown inductive, one lemma   *)
(* for each of its parts, and the safety properties follow from it.        *)
(***************************************************************************)
EXTENDS Client, Idempotency, RetryDelayProofs

---------------------------------------------------------------------------
(* Constants.                                                              *)

\* No endpoint is both a read and keyed.
LEMMA KeyedCallsWrite ==
  ASSUME NEW e, Keyed(e)
  PROVE  Method(e) = "POST"
BY DEF Keyed, Method, KeyedWrites, Reads, UserCalls, MoneyCalls, CommerceCalls, WebhookCalls

LEMMA CallFacts ==
  ASSUME NEW c \in Calls
  PROVE  /\ CallOf[c] \in CallRecords
         /\ Method(CallOf[c].endpoint) \in {"GET", "POST"}
         /\ CallOf[c].key \in Keys \union {NoKey}
         /\ Carried[CallOf[c].key] \in Keys \union {NoKey}
         /\ CallOf[c].payload \in Payloads
         /\ ~ Keyed(CallOf[c].endpoint) => CallOf[c].key = NoKey
         /\ Keyed(CallOf[c].endpoint) => Method(CallOf[c].endpoint) = "POST"
BY CallsAssumption, KeyedCallsWrite DEF CallRecords, Method

LEMMA PolicyFacts ==
  /\ Policy.MaxAttempts \in Nat \ {0}
  /\ Policy.MaxDelay \in Durations
BY PolicyAssumption DEF RetryPolicies

LEMMA ZeroIsDuration == 0 \in Durations
BY WordAssumption DEF Durations

LEMMA NoResponseType == NoResponse \in Responses /\ NoResponse.status = 0
  BY DEF NoResponse, Responses

LEMMA RefusalFacts ==
  /\ Refusal(429) /\ ~ Refusal(0)
  /\ \A s \in 400 .. 599 : s < 500 => Refusal(s)
  /\ \A s \in Success \union 500 .. 599 : ~ Refusal(s)
<1>1. \A s \in Success : s < 300
  BY DEF Success
<1>2. \A s \in 500 .. 599 : ~ (s < 500)
  OBVIOUS
<1>3. \A s \in 400 .. 599 : s >= 400
  OBVIOUS
<1> QED BY <1>1, <1>2, <1>3 DEF Refusal

LEMMA StatusFacts ==
  ASSUME NEW s \in Statuses \union {0}
  PROVE  s \in Int /\ s <= 599 /\ (s \in Statuses => s >= 100)
BY ServiceAssumption

---------------------------------------------------------------------------
(* Every step of a call is one of six forms.                               *)

Frame == UNCHANGED <<attempt, cancelled, out, serviceVars>>

\* The call hands an error back.  A write without a key says refused only
\* from before a request, or on the word of a problem.
Fails(c, r) ==
  /\ pc[c] \in Running
  /\ r \in Results
  /\ r.kind \notin {"none", "ok", "invalid"}
  /\ r.kind = "local" => pc[c] = "build"
  /\ r.kind = "problem" => /\ pc[c] = "sent"
                           /\ r.status = response[c].status
                           /\ r.status \in ProblemRange
  /\ Finish(c, r)
  /\ Frame

\* The call backs off.  Without a key, only for 429.
Retries(c, d) ==
  /\ pc[c] \in {"sent", "reading"}
  /\ d \in Durations
  /\ attempt[c] < Policy.MaxAttempts
  /\ ReplaySafe(c) \/ response[c].status = 429
  /\ EnterWait(c, d)
  /\ Frame

LEMMA NoCompleteAnswerForms ==
  ASSUME TypeOK, ControlInv, NEW c \in Calls, pc[c] \in {"sent", "reading"},
         NoCompleteAnswer(c), Frame
  PROVE  (\E r \in Results : Fails(c, r)) \/ (\E d \in Durations : Retries(c, d))
<1>1. attempt[c] \in Nat \ {0}
  BY PolicyFacts DEF TypeOK, ControlInv, Running
<1>2. CASE c \in cancelled /\ Finish(c, Outcome("cancelled"))
  <2>1. Outcome("cancelled") \in Results
    BY DEF Outcome, Results, Kinds
  <2>2. Fails(c, Outcome("cancelled"))
    BY <1>2, <2>1 DEF Fails, Outcome, Running
  <2> QED BY <2>1, <2>2
<1>3. CASE ~ (ReplaySafe(c) /\ attempt[c] < Policy.MaxAttempts) /\ Finish(c, Outcome("transport"))
  <2>1. Outcome("transport") \in Results
    BY DEF Outcome, Results, Kinds
  <2>2. Fails(c, Outcome("transport"))
    BY <1>3, <2>1 DEF Fails, Outcome, Running
  <2> QED BY <2>1, <2>2
<1>4. CASE /\ ReplaySafe(c) /\ attempt[c] < Policy.MaxAttempts
           /\ \E d \in Backoff(Policy, attempt[c]) : EnterWait(c, d)
  <2>1. PICK d \in Backoff(Policy, attempt[c]) : EnterWait(c, d)
    BY <1>4
  <2>2. d \in Durations
    BY <1>1, PolicyAssumption, BackoffBound
  <2>3. Retries(c, d)
    BY <1>4, <2>1, <2>2 DEF Retries
  <2> QED BY <2>2, <2>3
<1> QED BY <1>2, <1>3, <1>4 DEF NoCompleteAnswer

LEMMA CallStepForms ==
  ASSUME TypeOK, ControlInv, NEW c \in Calls, CallStep(c)
  PROVE  \/ Send(c) \/ BeginRead(c) \/ ReadBody(c) \/ WaitElapsed(c)
         \/ \E r \in Results : Fails(c, r)
         \/ \E d \in Durations : Retries(c, d)
<1>1. CASE FailLocally(c)
  <2>1. Outcome("local") \in Results
    BY DEF Outcome, Results, Kinds
  <2>2. Fails(c, Outcome("local"))
    BY <1>1, <2>1 DEF FailLocally, Fails, Outcome, Running, Frame
  <2> QED BY <2>1, <2>2
<1>2. CASE SendCancelled(c) \/ WaitCancelled(c)
  <2>1. Outcome("cancelled") \in Results
    BY DEF Outcome, Results, Kinds
  <2>2. Fails(c, Outcome("cancelled"))
    BY <1>2, <2>1 DEF SendCancelled, WaitCancelled, Fails, Outcome, Running, Frame
  <2> QED BY <2>1, <2>2
<1>3. CASE ReadIncompatible(c)
  <2>1. Outcome("decode") \in Results
    BY DEF Outcome, Results, Kinds
  <2>2. Fails(c, Outcome("decode"))
    BY <1>3, <2>1 DEF ReadIncompatible, Fails, Outcome, Running, Frame
  <2> QED BY <2>1, <2>2
<1>4. CASE TransportFail(c) \/ ReadTruncated(c)
  BY <1>4, NoCompleteAnswerForms DEF TransportFail, ReadTruncated, Frame
<1>5. CASE RetryProblem(c)
  <2>1. PICK d \in Waits(c) : EnterWait(c, d)
    BY <1>5 DEF RetryProblem
  <2>2. /\ Retryable(Policy, response[c].status, ReplaySafe(c), attempt[c])
        /\ d \in WaitsAfterProblem(Policy, attempt[c], response[c].header)
    BY <2>1 DEF Waits
  <2>3. attempt[c] \in Nat \ {0}
    BY <1>5, PolicyFacts DEF RetryProblem, TypeOK, ControlInv, Running
  <2>4. response[c].header \in HeaderRecords
    <3>1. response[c] \in Responses
      BY DEF TypeOK
    <3>2. NoHeader \in HeaderRecords
      BY DEF NoHeader, HeaderRecords
    <3> QED BY <3>1, <3>2, ServiceAssumption DEF Responses
  <2>5. d \in Durations
    BY <2>2, <2>3, <2>4, PolicyAssumption, WaitsAfterProblemBound
  <2>6. Retries(c, d)
    BY <1>5, <2>1, <2>2, <2>5 DEF RetryProblem, Retries, Retryable, Frame
  <2> QED BY <2>5, <2>6
<1>6. CASE ReturnProblem(c) \/ ReturnUnexpected(c)
  <2>1. PICK k \in {"problem", "unexpected"} :
          /\ Finish(c, [kind |-> k, status |-> response[c].status])
          /\ k = "problem" => response[c].status \in ProblemRange
    BY <1>6 DEF ReturnProblem, ReturnUnexpected
  <2> DEFINE r == [kind |-> k, status |-> response[c].status]
  <2>2. response[c].status \in Statuses \union {0}
    BY DEF TypeOK, Responses
  <2>3. r \in Results
    BY <2>2 DEF Results, Kinds
  <2>4. Fails(c, r)
    BY <1>6, <2>1, <2>3 DEF ReturnProblem, ReturnUnexpected, Fails, Running, Frame
  <2> QED BY <2>3, <2>4
<1> QED BY <1>1, <1>2, <1>3, <1>4, <1>5, <1>6 DEF CallStep

---------------------------------------------------------------------------
(* Type correctness.                                                       *)

LEMMA RequestType ==
  ASSUME TypeOK, NEW c \in Calls, attempt[c] >= 1
  PROVE  Request(c) \in Requests
<1>1. attempt[c] \in 1 .. Policy.MaxAttempts
  BY PolicyFacts DEF TypeOK
<1> QED BY <1>1, CallFacts DEF Request, Requests

LEMMA AnswerType ==
  ASSUME TypeOK, NEW m \in Requests, NEW s \in Statuses, NEW body \in SUBSET Requests,
         Answer(m, s, body)
  PROVE  response' \in [Calls -> Responses]
<1>1. CASE UNCHANGED response
  BY <1>1 DEF TypeOK
<1>2. CASE \E h \in HeadersOn(s) :
        response' = [response EXCEPT ![m.call] = [status |-> s, header |-> h, body |-> body]]
  <2>1. PICK h \in HeadersOn(s) :
          response' = [response EXCEPT ![m.call] = [status |-> s, header |-> h, body |-> body]]
    BY <1>2
  <2>2. [status |-> s, header |-> h, body |-> body] \in Responses
    BY DEF Responses, HeadersOn
  <2> QED BY <2>1, <2>2 DEF TypeOK
<1> QED BY <1>1, <1>2 DEF Answer

LEMMA InitType == Init => TypeOK
<1> SUFFICES ASSUME Init PROVE TypeOK
  OBVIOUS
<1>1. 0 \in 0 .. Policy.MaxAttempts
  BY PolicyFacts
<1>2. Outcome("none") \in Results
  BY DEF Outcome, Results, Kinds
<1> QED BY <1>1, <1>2, ZeroIsDuration, NoResponseType DEF Init, TypeOK

LEMMA CallStepType ==
  ASSUME TypeOK, ControlInv, NEW c \in Calls, CallStep(c)
  PROVE  TypeOK'
<1>1. CASE Send(c)
  <2>1. Request(c) \in Requests
    BY <1>1, RequestType DEF Send, ControlInv, Running
  <2> QED BY <1>1, <2>1 DEF Send, TypeOK, Running
<1>2. CASE BeginRead(c)
  BY <1>2 DEF BeginRead, TypeOK, serviceVars, Running
<1>3. CASE ReadBody(c)
  <2>1. Outcome("ok") \in Results
    BY DEF Outcome, Results, Kinds
  <2>2. response[c].body \in SUBSET Requests
    BY DEF TypeOK, Responses
  <2> QED BY <1>3, <2>1, <2>2, ZeroIsDuration, NoResponseType
          DEF ReadBody, Finish, TypeOK, serviceVars
<1>4. CASE WaitElapsed(c)
  <2>1. attempt[c] + 1 \in 0 .. Policy.MaxAttempts
    BY <1>4, PolicyFacts DEF WaitElapsed, TypeOK, ControlInv
  <2> QED BY <1>4, <2>1, ZeroIsDuration DEF WaitElapsed, TypeOK, serviceVars, Running
<1>5. CASE \E r \in Results : Fails(c, r)
  BY <1>5, ZeroIsDuration, NoResponseType DEF Fails, Finish, Frame, TypeOK, serviceVars
<1>6. CASE \E d \in Durations : Retries(c, d)
  BY <1>6, NoResponseType DEF Retries, EnterWait, Frame, TypeOK, serviceVars, Running
<1> QED BY <1>1, <1>2, <1>3, <1>4, <1>5, <1>6, CallStepForms

LEMMA TypeNext == TypeOK /\ ControlInv /\ [Next]_vars => TypeOK'
<1> SUFFICES ASSUME TypeOK, ControlInv, [Next]_vars PROVE TypeOK'
  OBVIOUS
<1>1. CASE \E c \in Calls : Start(c)
  <2>1. 1 \in 0 .. Policy.MaxAttempts
    BY PolicyFacts
  <2> QED BY <1>1, <2>1 DEF Start, TypeOK, Running, serviceVars
<1>2. CASE \E c \in Calls : RefuseLocally(c)
  <2>1. Outcome("invalid") \in Results
    BY DEF Outcome, Results, Kinds
  <2> QED BY <1>2, <2>1, ZeroIsDuration, NoResponseType
          DEF RefuseLocally, Finish, TypeOK, serviceVars
<1>3. CASE \E c \in Calls : Cancel(c)
  BY <1>3 DEF Cancel, TypeOK, clientVars, serviceVars
<1>4. CASE \E c \in Calls : CallStep(c)
  BY <1>4, CallStepType
<1>5. CASE Crash
  BY <1>5, ZeroIsDuration, NoResponseType DEF Crash, TypeOK, serviceVars
<1>6. ASSUME NEW m \in inflight, Service(m) PROVE TypeOK'
  <2>1. m \in Requests
    BY DEF TypeOK
  <2>2. /\ inflight' \subseteq Requests
        /\ effects' \subseteq Requests
        /\ UNCHANGED <<clientVars, cancelled>>
    BY <1>6, <2>1 DEF Service, ServiceExecutes, ServiceReplays, ServiceReads, ServiceDeclines,
                      Receive, TypeOK
  <2>3. PICK s \in Statuses, body \in SUBSET Requests : Answer(m, s, body)
    <3>1. {} \in SUBSET Requests /\ {m} \in SUBSET Requests
      BY <2>1
    <3>2. \A e \in Stored(m) : {e} \in SUBSET Requests
      BY DEF Stored, TypeOK
    <3>3. CASE ServiceExecutes(m)
      BY <3>1, <3>3 DEF ServiceExecutes
    <3>4. CASE ServiceReplays(m)
      BY <3>2, <3>4 DEF ServiceReplays
    <3>5. CASE ServiceReads(m)
      BY <3>1, <3>5 DEF ServiceReads
    <3>6. CASE ServiceDeclines(m)
      BY <3>1, <3>6 DEF ServiceDeclines
    <3> QED BY <1>6, <3>3, <3>4, <3>5, <3>6 DEF Service
  <2>4. response' \in [Calls -> Responses]
    BY <2>1, <2>3, AnswerType
  <2> QED BY <2>2, <2>4 DEF TypeOK, clientVars
<1>7. CASE UNCHANGED vars
  BY <1>7 DEF vars, TypeOK
<1> QED BY <1>1, <1>2, <1>3, <1>4, <1>5, <1>6, <1>7 DEF Next

---------------------------------------------------------------------------
(* The parts of the inductive invariant.                                   *)

LEMMA CallStepControl ==
  ASSUME TypeOK, ControlInv, NEW c \in Calls, CallStep(c)
  PROVE  ControlInv'
<1>1. CASE Send(c)
  BY <1>1 DEF Send, ControlInv, TypeOK, Running
<1>2. CASE BeginRead(c)
  BY <1>2 DEF BeginRead, ControlInv, TypeOK, Running
<1>3. CASE ReadBody(c)
  BY <1>3 DEF ReadBody, Finish, Outcome, ControlInv, TypeOK, Running
<1>4. CASE WaitElapsed(c)
  BY <1>4, PolicyFacts DEF WaitElapsed, ControlInv, TypeOK, Running
<1>5. ASSUME NEW r \in Results, Fails(c, r) PROVE ControlInv'
  BY <1>5 DEF Fails, Finish, Frame, ControlInv, TypeOK, Running
<1>6. ASSUME NEW d \in Durations, Retries(c, d) PROVE ControlInv'
  BY <1>6 DEF Retries, EnterWait, Frame, ControlInv, TypeOK, Running
<1> QED BY <1>1, <1>2, <1>3, <1>4, <1>5, <1>6, CallStepForms

\* What a step of the service may change for the calls.
LEMMA ServiceFrame ==
  ASSUME TypeOK, NEW m \in inflight, Service(m)
  PROVE  /\ m \in Requests
         /\ UNCHANGED <<clientVars, cancelled>>
         /\ Receive(m)
         /\ \/ UNCHANGED response
            \/ /\ pc[m.call] = "sent" /\ attempt[m.call] = m.attempt
               /\ \E r \in Responses :
                    /\ r.status \in Statuses
                    /\ response' = [response EXCEPT ![m.call] = r]
<1>1. m \in Requests
  BY DEF TypeOK
<1>2. UNCHANGED <<clientVars, cancelled>> /\ Receive(m)
  BY DEF Service, ServiceExecutes, ServiceReplays, ServiceReads, ServiceDeclines
<1>3. PICK s \in Statuses, body \in SUBSET Requests : Answer(m, s, body)
  <2>1. {} \in SUBSET Requests /\ {m} \in SUBSET Requests
    BY <1>1
  <2>2. \A e \in Stored(m) : {e} \in SUBSET Requests
    BY DEF Stored, TypeOK
  <2>3. CASE ServiceExecutes(m)
    BY <2>1, <2>3 DEF ServiceExecutes
  <2>4. CASE ServiceReplays(m)
    BY <2>2, <2>4 DEF ServiceReplays
  <2>5. CASE ServiceReads(m)
    BY <2>1, <2>5 DEF ServiceReads
  <2>6. CASE ServiceDeclines(m)
    BY <2>1, <2>6 DEF ServiceDeclines
  <2> QED BY <2>3, <2>4, <2>5, <2>6 DEF Service
<1>4. CASE UNCHANGED response
  BY <1>1, <1>2, <1>4
<1>5. CASE ~ UNCHANGED response
  <2>1. PICK h \in HeadersOn(s) :
          response' = [response EXCEPT ![m.call] = [status |-> s, header |-> h, body |-> body]]
    BY <1>3, <1>5 DEF Answer
  <2>2. [status |-> s, header |-> h, body |-> body] \in Responses
    BY DEF Responses, HeadersOn
  <2>3. pc[m.call] = "sent" /\ attempt[m.call] = m.attempt
    BY <1>3, <1>5 DEF Answer
  <2> QED BY <1>1, <1>2, <2>1, <2>2, <2>3
<1> QED BY <1>4, <1>5

LEMMA ControlNext == TypeOK /\ ControlInv /\ [Next]_vars => ControlInv'
<1> SUFFICES ASSUME TypeOK, ControlInv, [Next]_vars PROVE ControlInv'
  OBVIOUS
<1>1. CASE \E c \in Calls : Start(c)
  BY <1>1 DEF Start, ControlInv, TypeOK, Running
<1>2. CASE \E c \in Calls : RefuseLocally(c)
  BY <1>2 DEF RefuseLocally, Finish, Outcome, ControlInv, TypeOK, Running
<1>3. CASE \E c \in Calls : Cancel(c)
  BY <1>3 DEF Cancel, ControlInv, clientVars
<1>4. CASE \E c \in Calls : CallStep(c)
  BY <1>4, CallStepControl
<1>5. CASE Crash
  BY <1>5 DEF Crash, ControlInv, TypeOK, Running
<1>6. ASSUME NEW m \in inflight, Service(m) PROVE ControlInv'
  <2>1. /\ UNCHANGED clientVars
        /\ \/ UNCHANGED response
           \/ /\ pc[m.call] = "sent"
              /\ \E r \in Responses : response' = [response EXCEPT ![m.call] = r]
    BY <1>6, ServiceFrame
  <2> QED BY <2>1 DEF clientVars, ControlInv, TypeOK, Running
<1>7. CASE UNCHANGED vars
  BY <1>7 DEF vars, ControlInv
<1> QED BY <1>1, <1>2, <1>3, <1>4, <1>5, <1>6, <1>7 DEF Next

\* The service records one movement at most, and only of a write whose key
\* it has not stored; an attempt told so hears a success or a 5xx.
LEMMA ServiceEffects ==
  ASSUME TypeOK, NEW m \in inflight, Service(m)
  PROVE  \/ effects' = effects
         \/ /\ effects' = effects \union {m}
            /\ Writes(m.call)
            /\ Stored(m) = {}
            /\ \/ UNCHANGED response
               \/ \E r \in Responses :
                    /\ r.status \in Success \union 500 .. 599
                    /\ response' = [response EXCEPT ![m.call] = r]
<1>1. CASE ServiceExecutes(m)
  <2>1. PICK s \in Statuses \intersect (Success \union 500 .. 599) : Answer(m, s, {m})
    BY <1>1 DEF ServiceExecutes
  <2>2. effects' = effects \union {m} /\ Writes(m.call) /\ Stored(m) = {}
    BY <1>1 DEF ServiceExecutes
  <2>3. \/ UNCHANGED response
        \/ \E r \in Responses :
             /\ r.status \in Success \union 500 .. 599
             /\ response' = [response EXCEPT ![m.call] = r]
    <3>1. CASE UNCHANGED response
      BY <3>1
    <3>2. CASE ~ UNCHANGED response
      <4>1. PICK h \in HeadersOn(s) :
              response' = [response EXCEPT ![m.call] = [status |-> s, header |-> h, body |-> {m}]]
        <5>1. Answer(m, s, {m})
          BY <2>1
        <5> QED BY <3>2, <5>1, ZenonT(30) DEF Answer
      <4> DEFINE r == [status |-> s, header |-> h, body |-> {m}]
      <4>2. r \in Responses
        BY DEF Responses, HeadersOn, TypeOK
      <4>3. r.status \in Success \union 500 .. 599
        OBVIOUS
      <4>4. response' = [response EXCEPT ![m.call] = r]
        BY <4>1
      <4> HIDE DEF r
      <4>5. \E x \in Responses :
              /\ x.status \in Success \union 500 .. 599
              /\ response' = [response EXCEPT ![m.call] = x]
        BY <4>2, <4>3, <4>4, ZenonT(30)
      <4> QED BY <4>5, ZenonT(30)
    <3> QED BY <3>1, <3>2
  <2> QED BY <2>2, <2>3
<1>2. CASE ServiceReplays(m) \/ ServiceReads(m) \/ ServiceDeclines(m)
  BY <1>2 DEF ServiceReplays, ServiceReads, ServiceDeclines
<1> QED BY <1>1, <1>2 DEF Service

\* A step of a call leaves the movements alone and sends at most the
\* request of its current attempt.
LEMMA CallStepWire ==
  ASSUME TypeOK, ControlInv, NEW c \in Calls, CallStep(c)
  PROVE  /\ effects' = effects
         /\ \/ inflight' = inflight
            \/ Send(c) /\ inflight' = inflight \union {Request(c)}
         /\ \A d \in Calls : attempt'[d] >= attempt[d]
BY CallStepForms
   DEF Send, BeginRead, ReadBody, WaitElapsed, Fails, Retries, Frame, serviceVars, TypeOK

LEMMA RequestNext == TypeOK /\ ControlInv /\ RequestInv /\ [Next]_vars => RequestInv'
<1> SUFFICES ASSUME TypeOK, ControlInv, RequestInv, [Next]_vars PROVE RequestInv'
  OBVIOUS
<1>0. \A m \in inflight \union effects : m.call \in Calls /\ m.attempt \in Int
  BY DEF TypeOK, Requests
<1>1. CASE \E c \in Calls : Start(c)
  <2>1. \A d \in Calls : attempt'[d] >= attempt[d]
    BY <1>1 DEF Start, TypeOK, ControlInv
  <2> QED BY <1>0, <1>1, <2>1 DEF Start, serviceVars, RequestInv, Sendable, TypeOK
<1>2. CASE \E c \in Calls : RefuseLocally(c) \/ Cancel(c)
  BY <1>2 DEF RefuseLocally, Cancel, clientVars, serviceVars, RequestInv
<1>3. ASSUME NEW c \in Calls, CallStep(c) PROVE RequestInv'
  <2>1. \A d \in Calls : attempt'[d] >= attempt[d] /\ attempt'[d] \in Int /\ attempt[d] \in Int
    BY <1>3, CallStepWire, CallStepType DEF TypeOK
  <2>2. \A m \in inflight \union effects : m.attempt <= attempt'[m.call]
    BY <1>0, <2>1 DEF RequestInv
  <2>3. CASE inflight' = inflight
    BY <1>3, <2>2, <2>3, CallStepWire DEF RequestInv
  <2>4. CASE Send(c) /\ inflight' = inflight \union {Request(c)}
    <3>1. Sendable(c) /\ attempt' = attempt
      BY <2>4 DEF Send, ControlInv, Running
    <3>2. /\ Request(c).call = c
          /\ Request(c).key = Carried[CallOf[c].key]
          /\ Request(c).payload = CallOf[c].payload
          /\ Request(c).attempt = attempt[c]
      BY DEF Request
    <3>3. Request(c).attempt <= attempt'[c]
      BY <2>1, <3>1, <3>2
    <3> QED BY <1>3, <2>2, <2>4, <3>1, <3>2, <3>3, CallStepWire DEF RequestInv
  <2> QED BY <1>3, <2>3, <2>4, CallStepWire
<1>4. CASE Crash
  BY <1>4 DEF Crash, serviceVars, RequestInv
<1>5. ASSUME NEW m \in inflight, Service(m) PROVE RequestInv'
  <2>1. inflight' \union effects' \subseteq inflight \union effects
    BY <1>5, ServiceFrame, ServiceEffects DEF Receive
  <2>2. attempt' = attempt
    BY <1>5, ServiceFrame DEF clientVars
  <2> QED BY <2>1, <2>2 DEF RequestInv
<1>6. CASE UNCHANGED vars
  BY <1>6 DEF vars, RequestInv
<1> QED BY <1>1, <1>2, <1>3, <1>4, <1>5, <1>6 DEF Next

LEMMA EffectNext == TypeOK /\ ControlInv /\ EffectInv /\ [Next]_vars => EffectInv'
<1> SUFFICES ASSUME TypeOK, ControlInv, EffectInv, [Next]_vars PROVE EffectInv'
  OBVIOUS
<1>1. CASE effects' = effects
  BY <1>1 DEF EffectInv
<1>2. ASSUME NEW m \in inflight, Service(m) PROVE EffectInv'
  <2>1. CASE effects' = effects \union {m} /\ Writes(m.call) /\ Stored(m) = {}
    BY <2>1 DEF EffectInv, Stored
  <2> QED BY <1>1, <1>2, <2>1, ServiceEffects
<1>3. ASSUME NEW c \in Calls, Start(c) \/ RefuseLocally(c) \/ Cancel(c) \/ CallStep(c)
      PROVE effects' = effects
  BY <1>3, CallStepWire DEF Start, RefuseLocally, Cancel, serviceVars
<1>4. CASE Crash \/ UNCHANGED vars
  BY <1>1, <1>4 DEF Crash, serviceVars, vars
<1> QED BY <1>1, <1>2, <1>3, <1>4 DEF Next

---------------------------------------------------------------------------
(* Writes without a key: for each kind of step, what it does to one call.  *)

\* UnkeyedInv for one call.
UnkeyedFor(c) ==
  /\ \A m, n \in SentBy(c) \union DoneBy(c) : m = n
  /\ SentBy(c) = {} \/ DoneBy(c) = {}
  /\ pc[c] \in {"build", "waiting"} \/ Refused(c) => SentBy(c) \union DoneBy(c) = {}
  /\ response[c] # NoResponse => SentBy(c) = {}
  /\ Refusal(response[c].status) => DoneBy(c) = {}

\* A step that keeps a call's place, result and requests, and at most
\* forgets its response, keeps the invariant.
LEMMA UnkeyedStable ==
  ASSUME TypeOK, NEW c \in Calls, UnkeyedFor(c),
         SentBy(c)' = SentBy(c), DoneBy(c)' = DoneBy(c),
         pc'[c] \in {"build", "waiting"} => pc[c] \in {"build", "waiting"},
         result'[c] = result[c],
         response'[c] \in {response[c], NoResponse}
  PROVE  UnkeyedFor(c)'
<1>1. Refused(c)' <=> Refused(c)
  BY DEF Refused
<1>2. NoResponse.status = 0
  BY NoResponseType
<1>3. CASE response'[c] = response[c]
  BY <1>1, <1>3 DEF UnkeyedFor
<1>4. CASE response'[c] = NoResponse
  BY <1>1, <1>2, <1>4, RefusalFacts DEF UnkeyedFor
<1> QED BY <1>3, <1>4

\* A call that was never started has sent nothing.
LEMMA IdleSentNothing ==
  ASSUME TypeOK, RequestInv, NEW c \in Calls, attempt[c] = 0
  PROVE  \A m \in inflight \union effects : m.call # c
<1> SUFFICES ASSUME NEW m \in inflight \union effects, m.call = c PROVE FALSE
  OBVIOUS
<1>1. m.attempt >= 1 /\ m.attempt \in Int
  BY PolicyFacts DEF TypeOK, Requests
<1>2. m.attempt <= 0
  BY DEF RequestInv
<1> QED BY <1>1, <1>2

\* A step of the call itself.
LEMMA UnkeyedCallStep ==
  ASSUME TypeOK, ControlInv, RequestInv, NEW c \in Calls, ~ ReplaySafe(c), UnkeyedFor(c),
         CallStep(c)
  PROVE  UnkeyedFor(c)'
<1>0. effects' = effects /\ DoneBy(c)' = DoneBy(c)
  BY CallStepWire DEF DoneBy
<1>1. CASE Send(c)
  <2>1. SentBy(c) = {} /\ DoneBy(c) = {}
    BY <1>1 DEF Send, UnkeyedFor
  <2>2. SentBy(c)' = {Request(c)}
    <3>1. Request(c).call = c
      BY DEF Request
    <3> QED BY <1>1, <2>1, <3>1 DEF Send, SentBy
  <2>3. response'[c] = NoResponse
    BY <1>1 DEF Send, ControlInv
  <2>4. pc'[c] = "sent" /\ result'[c].kind = "none"
    BY <1>1 DEF Send, ControlInv, TypeOK
  <2>5. ~ Refused(c)'
    BY <2>4 DEF Refused
  <2> QED BY <1>0, <2>1, <2>2, <2>3, <2>4, <2>5, NoResponseType, RefusalFacts DEF UnkeyedFor
<1>2. CASE BeginRead(c)
  <2>1. SentBy(c)' = SentBy(c)
    BY <1>2 DEF BeginRead, SentBy, serviceVars
  <2> QED BY <1>0, <1>2, <2>1, UnkeyedStable DEF BeginRead, TypeOK
<1>3. CASE ReadBody(c)
  <2>1. SentBy(c)' = SentBy(c)
    BY <1>3 DEF ReadBody, SentBy, serviceVars
  <2>2. pc'[c] = "done" /\ response'[c] = NoResponse /\ result'[c].kind = "ok"
    BY <1>3 DEF ReadBody, Finish, Outcome, TypeOK
  <2>3. ~ Refused(c)'
    BY <2>2 DEF Refused
  <2> QED BY <1>0, <2>1, <2>2, <2>3, NoResponseType, RefusalFacts DEF UnkeyedFor
<1>4. CASE WaitElapsed(c)
  <2>1. SentBy(c)' = SentBy(c)
    BY <1>4 DEF WaitElapsed, SentBy, serviceVars
  <2> QED BY <1>0, <1>4, <2>1, UnkeyedStable DEF WaitElapsed, TypeOK
<1>5. ASSUME NEW r \in Results, Fails(c, r) PROVE UnkeyedFor(c)'
  <2>1. SentBy(c)' = SentBy(c)
    BY <1>5 DEF Fails, Frame, SentBy, serviceVars
  <2>2. pc'[c] = "done" /\ response'[c] = NoResponse /\ result'[c] = r
    BY <1>5 DEF Fails, Finish, TypeOK
  <2>3. ASSUME Refused(c)' PROVE SentBy(c) \union DoneBy(c) = {}
    <3>1. CASE r.kind = "local"
      BY <1>5, <3>1 DEF Fails, UnkeyedFor
    <3>2. CASE r.kind = "problem" /\ r.status < 500
      <4>1. response[c].status \in 400 .. 599 /\ response[c].status < 500
        BY <1>5, <3>2 DEF Fails, ProblemRange
      <4>2. Refusal(response[c].status)
        BY <4>1, RefusalFacts
      <4>3. response[c] # NoResponse
        BY <4>2, NoResponseType, RefusalFacts
      <4> QED BY <4>2, <4>3 DEF UnkeyedFor
    <3> QED BY <1>5, <2>2, <2>3, <3>1, <3>2 DEF Refused, Fails
  <2> QED BY <1>0, <2>1, <2>2, <2>3, NoResponseType, RefusalFacts DEF UnkeyedFor
<1>6. ASSUME NEW d \in Durations, Retries(c, d) PROVE UnkeyedFor(c)'
  <2>1. SentBy(c)' = SentBy(c)
    BY <1>6 DEF Retries, Frame, SentBy, serviceVars
  <2>2. response[c].status = 429
    BY <1>6 DEF Retries
  <2>3. response[c] # NoResponse /\ Refusal(response[c].status)
    BY <2>2, NoResponseType, RefusalFacts
  <2>4. SentBy(c) = {} /\ DoneBy(c) = {}
    BY <2>3 DEF UnkeyedFor
  <2>5. response'[c] = NoResponse
    BY <1>6 DEF Retries, EnterWait, TypeOK
  <2> QED BY <1>0, <2>1, <2>4, <2>5, NoResponseType, RefusalFacts DEF UnkeyedFor
<1> QED BY <1>1, <1>2, <1>3, <1>4, <1>5, <1>6, CallStepForms

\* A step of another call.
LEMMA UnkeyedOtherStep ==
  ASSUME TypeOK, ControlInv, NEW c \in Calls, UnkeyedFor(c),
         NEW d \in Calls, d # c, CallStep(d)
  PROVE  UnkeyedFor(c)'
<1>1. pc'[c] = pc[c] /\ result'[c] = result[c] /\ response'[c] = response[c]
  BY CallStepForms DEF Send, BeginRead, ReadBody, WaitElapsed, Fails, Retries, Finish,
                       EnterWait, TypeOK
<1>2. DoneBy(c)' = DoneBy(c)
  BY CallStepWire DEF DoneBy
<1>3. SentBy(c)' = SentBy(c)
  <2>1. Request(d).call = d
    BY DEF Request
  <2> QED BY <2>1, CallStepWire DEF SentBy
<1> QED BY <1>1, <1>2, <1>3, UnkeyedStable

\* A step of the service.
LEMMA UnkeyedService ==
  ASSUME TypeOK, NEW c \in Calls, ~ ReplaySafe(c), UnkeyedFor(c),
         NEW m \in inflight, Service(m)
  PROVE  UnkeyedFor(c)'
<1>1. pc'[c] = pc[c] /\ result'[c] = result[c]
  BY ServiceFrame DEF clientVars
<1>2. CASE m.call # c
  <2>1. response'[c] = response[c]
    BY <1>2, ServiceFrame DEF TypeOK
  <2>2. SentBy(c)' = SentBy(c)
    BY <1>2, ServiceFrame DEF Receive, SentBy
  <2>3. DoneBy(c)' = DoneBy(c)
    BY <1>2, ServiceEffects DEF DoneBy
  <2> QED BY <1>1, <2>1, <2>2, <2>3, UnkeyedStable
<1>3. CASE m.call = c
  <2>1. m \in SentBy(c)
    BY <1>3 DEF SentBy
  <2>2. /\ SentBy(c) = {m} /\ DoneBy(c) = {}
        /\ response[c] = NoResponse
        /\ pc[c] \notin {"build", "waiting"} /\ ~ Refused(c)
    BY <2>1 DEF UnkeyedFor
  <2>3. SentBy(c)' = {}
    BY <1>3, <2>2, ServiceFrame DEF Receive, SentBy
  <2>4. ~ Refused(c)'
    BY <1>1, <2>2 DEF Refused
  <2>5. CASE effects' = effects
    <3>1. DoneBy(c)' = {}
      BY <2>2, <2>5 DEF DoneBy
    <3> QED BY <1>1, <2>2, <2>3, <2>4, <3>1 DEF UnkeyedFor
  <2>6. CASE effects' = effects \union {m}
    <3>1. DoneBy(c)' = {m}
      BY <1>3, <2>2, <2>6 DEF DoneBy
    <3>2. ~ Refusal(response'[c].status)
      <4>1. CASE response'[c] = response[c]
        BY <2>2, <4>1, NoResponseType, RefusalFacts
      <4>2. CASE response'[c].status \in Success \union 500 .. 599
        BY <4>2, RefusalFacts
      <4>3. m \notin effects
        BY <1>3, <2>2 DEF DoneBy
      <4>4. response'[c] = response[c] \/ response'[c].status \in Success \union 500 .. 599
        <5>1. effects' # effects
          BY <2>6, <4>3
        <5>2. \/ UNCHANGED response
              \/ \E r \in Responses :
                   /\ r.status \in Success \union 500 .. 599
                   /\ response' = [response EXCEPT ![m.call] = r]
          BY <5>1, ServiceEffects
        <5> QED BY <1>3, <5>2 DEF TypeOK
      <4> QED BY <4>1, <4>2, <4>4
    <3> QED BY <1>1, <2>2, <2>3, <2>4, <3>1, <3>2 DEF UnkeyedFor
  <2> QED BY <2>5, <2>6, ServiceEffects
<1> QED BY <1>2, <1>3

LEMMA UnkeyedNext ==
  TypeOK /\ ControlInv /\ RequestInv /\ UnkeyedInv /\ [Next]_vars => UnkeyedInv'
<1> SUFFICES ASSUME TypeOK, ControlInv, RequestInv, UnkeyedInv, [Next]_vars,
                    NEW c \in Calls, ~ ReplaySafe(c)
             PROVE  UnkeyedFor(c)'
  BY DEF UnkeyedInv, UnkeyedFor, ReplaySafe
<1>0. UnkeyedFor(c)
  BY DEF UnkeyedInv, UnkeyedFor
<1>1. CASE \E d \in Calls : Start(d) \/ RefuseLocally(d)
  <2>1. PICK d \in Calls : Start(d) \/ RefuseLocally(d)
    BY <1>1
  <2>2. UNCHANGED serviceVars
    BY <2>1 DEF Start, RefuseLocally
  <2>3. SentBy(c)' = SentBy(c) /\ DoneBy(c)' = DoneBy(c)
    BY <2>2 DEF serviceVars, SentBy, DoneBy
  <2>4. CASE d = c
    <3>1. SentBy(c) = {} /\ DoneBy(c) = {}
      BY <2>1, <2>4, IdleSentNothing DEF Start, RefuseLocally, ControlInv, SentBy, DoneBy
    <3>2. response'[c].status = 0
      BY <2>1, <2>4, NoResponseType DEF Start, RefuseLocally, Finish, ControlInv, TypeOK
    <3> QED BY <2>3, <3>1, <3>2, RefusalFacts DEF UnkeyedFor
  <2>5. CASE d # c
    <3>1. pc'[c] = pc[c] /\ result'[c] = result[c] /\ response'[c] = response[c]
      BY <2>1, <2>5 DEF Start, RefuseLocally, Finish, TypeOK
    <3> QED BY <1>0, <2>3, <3>1, UnkeyedStable
  <2> QED BY <2>4, <2>5
<1>2. CASE (\E d \in Calls : Cancel(d)) \/ Crash \/ UNCHANGED vars
  <2>1. UNCHANGED serviceVars /\ result' = result
    BY <1>2 DEF Cancel, Crash, vars, clientVars, serviceVars
  <2>2. SentBy(c)' = SentBy(c) /\ DoneBy(c)' = DoneBy(c)
    BY <2>1 DEF serviceVars, SentBy, DoneBy
  <2>3. /\ response'[c] \in {response[c], NoResponse}
        /\ pc'[c] \in {"build", "waiting"} => pc[c] \in {"build", "waiting"}
    BY <1>2 DEF Cancel, Crash, vars, clientVars, Running
  <2> QED BY <1>0, <2>1, <2>2, <2>3, UnkeyedStable
<1>3. CASE \E d \in Calls : CallStep(d)
  BY <1>0, <1>3, UnkeyedCallStep, UnkeyedOtherStep
<1>4. CASE \E m \in inflight : Service(m)
  BY <1>0, <1>4, UnkeyedService
<1> QED BY <1>1, <1>2, <1>3, <1>4 DEF Next

---------------------------------------------------------------------------
(* Answers.                                                                *)

LEMMA SuccessFacts == 0 \notin Success /\ NoResponse.status \notin Success
BY NoResponseType DEF Success

\* A movement stays the movement of its operation.
LEMMA MovementStays ==
  ASSUME NEW c \in Calls, NEW value, IsMovementFor(c, value), effects \subseteq effects'
  PROVE  \E e \in effects' :
           value = {e} /\ Op(e.call) = Op(c) /\ e.payload = CallOf[c].payload
BY DEF IsMovementFor

\* Two calls whose requests carry one key ask for one operation.
LEMMA SameKeySameOp ==
  ASSUME NEW c \in Calls, NEW d \in Calls, Sendable(c), Sendable(d),
         CallOf[c].key = CallOf[d].key, CallOf[c].key # NoKey
  PROVE  Op(c) = Op(d)
BY CallFacts DEF Sendable, Op

\* What a request carries is its call's key.
LEMMA RequestKey ==
  ASSUME KeysSurvive, RequestInv, NEW m \in inflight \union effects, m.call \in Calls
  PROVE  m.key = CallOf[m.call].key /\ Sendable(m.call)
<1>1. m.key = Carried[CallOf[m.call].key] /\ Sendable(m.call)
  BY DEF RequestInv
<1>2. CallOf[m.call].key \in ValidKeys \union {NoKey}
  BY <1>1, CallFacts DEF Sendable
<1> QED BY <1>1, <1>2, CallsAssumption DEF KeysSurvive

LEMMA ServiceAnswer ==
  ASSUME KeysSurvive, TypeOK, RequestInv, AnswerInv, NEW m \in inflight, Service(m), Writes(m.call),
         response'[m.call].status \in Success
  PROVE  IsMovementFor(m.call, response[m.call].body)'
<1> DEFINE c == m.call
<1>0. c \in Calls /\ m.key = CallOf[c].key /\ m.payload = CallOf[c].payload /\ Sendable(c)
  BY RequestKey DEF TypeOK, Requests, RequestInv
<1>1. effects \subseteq effects'
  BY ServiceEffects
<1>2. CASE UNCHANGED response
  BY <1>0, <1>1, <1>2, MovementStays DEF AnswerInv, IsMovementFor
<1>3. ASSUME ~ UNCHANGED response, NEW s \in Statuses, NEW body, Answer(m, s, body)
      PROVE response'[c].status = s /\ response'[c].body = body
  <2>1. PICK h \in HeadersOn(s) :
          response' = [response EXCEPT ![m.call] = [status |-> s, header |-> h, body |-> body]]
    BY <1>3 DEF Answer
  <2>2. response'[c] = [status |-> s, header |-> h, body |-> body]
    BY <1>0, <2>1 DEF TypeOK
  <2> QED BY <2>2
<1>4. CASE ServiceExecutes(m) /\ ~ UNCHANGED response
  <2>1. response'[c].body = {m} /\ m \in effects'
    BY <1>3, <1>4 DEF ServiceExecutes
  <2> QED BY <1>0, <2>1 DEF IsMovementFor
<1>5. CASE ServiceReplays(m) /\ ~ UNCHANGED response
  <2>1. PICK e \in Stored(m) : e.payload = m.payload /\ response'[c].body = {e}
    BY <1>3, <1>5 DEF ServiceReplays
  <2>2. e \in effects /\ m.key # NoKey /\ e.key = m.key
    BY <2>1 DEF Stored
  <2>3. e.call \in Calls /\ e.key = CallOf[e.call].key /\ Sendable(e.call)
    BY <2>2, RequestKey DEF TypeOK, Requests
  <2>4. Op(e.call) = Op(c)
    BY <1>0, <2>2, <2>3, SameKeySameOp
  <2> QED BY <1>0, <1>1, <2>1, <2>2, <2>4 DEF IsMovementFor
<1>6. CASE ServiceReads(m)
  BY <1>6 DEF ServiceReads
<1>7. CASE ServiceDeclines(m) /\ ~ UNCHANGED response
  BY <1>0, <1>3, <1>7 DEF ServiceDeclines
<1> QED BY <1>2, <1>4, <1>5, <1>6, <1>7 DEF Service

LEMMA AnswerNext ==
  KeysSurvive /\ TypeOK /\ ControlInv /\ RequestInv /\ AnswerInv /\ [Next]_vars => AnswerInv'
<1> SUFFICES ASSUME KeysSurvive, TypeOK, ControlInv, RequestInv, AnswerInv, [Next]_vars,
                    NEW c \in Calls, Writes(c)
             PROVE  /\ response'[c].status \in Success => IsMovementFor(c, response[c].body)'
                    /\ result'[c].kind = "ok" => IsMovementFor(c, out[c])'
  BY DEF AnswerInv, Writes
<1>0. /\ response[c].status \in Success => IsMovementFor(c, response[c].body)
      /\ result[c].kind = "ok" => IsMovementFor(c, out[c])
  BY DEF AnswerInv
<1>1. ASSUME UNCHANGED effects, result'[c].kind = "ok" => result'[c] = result[c] /\ out'[c] = out[c],
             response'[c].status \in Success => response'[c] = response[c]
      PROVE  /\ response'[c].status \in Success => IsMovementFor(c, response[c].body)'
             /\ result'[c].kind = "ok" => IsMovementFor(c, out[c])'
  BY <1>0, <1>1 DEF IsMovementFor
<1>2. CASE \E d \in Calls : Start(d) \/ Cancel(d)
  BY <1>1, <1>2 DEF Start, Cancel, clientVars, serviceVars
<1>3. CASE \E d \in Calls : RefuseLocally(d)
  BY <1>1, <1>3, SuccessFacts DEF RefuseLocally, Finish, Outcome, TypeOK, serviceVars
<1>4. CASE Crash \/ UNCHANGED vars
  BY <1>1, <1>4, SuccessFacts DEF Crash, vars, serviceVars
<1>5. ASSUME NEW d \in Calls, CallStep(d)
      PROVE  /\ response'[c].status \in Success => IsMovementFor(c, response[c].body)'
             /\ result'[c].kind = "ok" => IsMovementFor(c, out[c])'
  <2>1. CASE Send(d) \/ BeginRead(d) \/ WaitElapsed(d)
    BY <1>1, <2>1 DEF Send, BeginRead, WaitElapsed, serviceVars
  <2>2. CASE ReadBody(d) /\ d = c
    <3>1. response[c].status \in Success
      BY <2>2 DEF ReadBody, ControlInv
    <3>2. out'[c] = response[c].body /\ effects' = effects /\ response'[c] = NoResponse
      BY <2>2 DEF ReadBody, Finish, serviceVars, TypeOK
    <3> QED BY <1>0, <3>1, <3>2, SuccessFacts DEF IsMovementFor
  <2>3. CASE ReadBody(d) /\ d # c
    BY <1>1, <2>3 DEF ReadBody, Finish, serviceVars, TypeOK
  <2>4. ASSUME NEW r \in Results, Fails(d, r)
        PROVE  /\ response'[c].status \in Success => IsMovementFor(c, response[c].body)'
               /\ result'[c].kind = "ok" => IsMovementFor(c, out[c])'
    BY <1>1, <2>4, SuccessFacts DEF Fails, Finish, Frame, serviceVars, TypeOK
  <2>5. ASSUME NEW w \in Durations, Retries(d, w)
        PROVE  /\ response'[c].status \in Success => IsMovementFor(c, response[c].body)'
               /\ result'[c].kind = "ok" => IsMovementFor(c, out[c])'
    BY <1>1, <2>5, SuccessFacts DEF Retries, EnterWait, Frame, serviceVars, TypeOK
  <2> QED BY <1>5, <2>1, <2>2, <2>3, <2>4, <2>5, CallStepForms
<1>6. ASSUME NEW m \in inflight, Service(m)
      PROVE  /\ response'[c].status \in Success => IsMovementFor(c, response[c].body)'
             /\ result'[c].kind = "ok" => IsMovementFor(c, out[c])'
  <2>1. effects \subseteq effects'
    BY <1>6, ServiceEffects
  <2>2. result' = result /\ out' = out
    BY <1>6, ServiceFrame DEF clientVars
  <2>3. result'[c].kind = "ok" => IsMovementFor(c, out[c])'
    BY <1>0, <2>1, <2>2, MovementStays DEF IsMovementFor
  <2>4. response'[c].status \in Success => IsMovementFor(c, response[c].body)'
    <3>1. CASE m.call = c
      BY <1>6, <3>1, ServiceAnswer
    <3>2. CASE m.call # c
      <4>1. response'[c] = response[c]
        BY <1>6, <3>2, ServiceFrame DEF TypeOK
      <4> QED BY <1>0, <2>1, <4>1, MovementStays DEF IsMovementFor
    <3> QED BY <3>1, <3>2
  <2> QED BY <2>3, <2>4
<1> QED BY <1>2, <1>3, <1>4, <1>5, <1>6 DEF Next

---------------------------------------------------------------------------
(* The invariant and what follows from it.                                 *)

LEMMA InitInv == Init => IInv
<1> SUFFICES ASSUME Init PROVE IInv
  OBVIOUS
<1>1. TypeOK
  BY InitType
<1>2. ControlInv
  BY DEF Init, ControlInv, Outcome, Running
<1>3. RequestInv /\ EffectInv
  BY DEF Init, RequestInv, EffectInv
<1>4. UnkeyedInv
  BY NoResponseType, RefusalFacts DEF Init, UnkeyedInv, SentBy, DoneBy
<1>5. AnswerInv
  BY SuccessFacts DEF Init, AnswerInv, Outcome
<1> QED BY <1>1, <1>2, <1>3, <1>4, <1>5 DEF IInv

\* What does not depend on how the wire treats keys.
BaseInv == TypeOK /\ ControlInv /\ RequestInv /\ EffectInv /\ UnkeyedInv

LEMMA BaseInvariance == Spec => []BaseInv
<1>1. Init => BaseInv
  BY InitInv DEF IInv, BaseInv
<1>2. BaseInv /\ [Next]_vars => BaseInv'
  BY TypeNext, ControlNext, RequestNext, EffectNext, UnkeyedNext DEF BaseInv
<1> QED BY <1>1, <1>2, PTL DEF Spec

\* IInv holds in every reachable state of every instance in which usable
\* keys survive the wire.
THEOREM Invariance == ASSUME KeysSurvive PROVE Spec => []IInv
<1>1. BaseInv /\ AnswerInv <=> IInv
  BY DEF BaseInv, IInv
<1>2. Init => AnswerInv
  BY InitInv DEF IInv
<1>3. BaseInv /\ AnswerInv /\ [Next]_vars => AnswerInv'
  BY AnswerNext DEF BaseInv
<1> QED BY <1>1, <1>2, <1>3, BaseInvariance, PTL DEF Spec

\* The type invariant; no call makes more than MaxAttempts attempts.
THEOREM TypeCorrect == Spec => []TypeOK
<1>1. BaseInv => TypeOK
  BY DEF BaseInv
<1> QED BY <1>1, BaseInvariance, PTL

\* One operation moves money at most once, through any number of calls,
\* attempts, crashes and late or repeated deliveries (client.go:195-204).
THEOREM MovedAtMostOnce == ASSUME KeysSurvive PROVE Spec => []AtMostOnce
<1>1. IInv => AtMostOnce
  <2> SUFFICES ASSUME IInv, NEW e \in effects, NEW f \in effects, Op(e.call) = Op(f.call)
               PROVE  e = f
    BY DEF AtMostOnce
  <2>1. /\ e.call \in Calls /\ e.key = CallOf[e.call].key
        /\ f.call \in Calls /\ f.key = CallOf[f.call].key
        /\ Sendable(e.call) /\ Sendable(f.call)
    BY RequestKey DEF IInv, TypeOK, Requests
  <2>2. CASE e.key # NoKey /\ f.key # NoKey
    <3>1. Op(e.call) = e.key /\ Op(f.call) = f.key
      BY <2>1, <2>2, CallFacts DEF Sendable, Op
    <3> QED BY <2>2, <3>1 DEF IInv, EffectInv
  <2>3. CASE e.key = NoKey /\ f.key = NoKey
    <3>1. Op(e.call) = e.call /\ Op(f.call) = f.call
      BY <2>1, <2>3, CallsAssumption DEF Op
    <3>2. ~ ReplaySafe(e.call)
      BY <2>1, <2>3, CallFacts DEF IInv, EffectInv, Writes, ReplaySafe
    <3>3. e \in DoneBy(e.call) /\ f \in DoneBy(e.call)
      BY <3>1 DEF DoneBy
    <3> QED BY <2>1, <3>2, <3>3 DEF IInv, UnkeyedInv
  <2>4. CASE e.key # NoKey /\ f.key = NoKey
    <3>1. Op(e.call) = e.key /\ e.key \in Keys /\ Op(f.call) = f.call
      BY <2>1, <2>4, CallFacts, CallsAssumption DEF Sendable, Op
    <3> QED BY <2>1, <3>1, CallsAssumption
  <2>5. CASE e.key = NoKey /\ f.key # NoKey
    <3>1. Op(f.call) = f.key /\ f.key \in Keys /\ Op(e.call) = e.call
      BY <2>1, <2>5, CallFacts, CallsAssumption DEF Sendable, Op
    <3> QED BY <2>1, <3>1, CallsAssumption
  <2> QED BY <2>2, <2>3, <2>4, <2>5
<1> QED BY <1>1, Invariance, PTL

\* A write that reports success shows its caller the movement of its own
\* operation and parameters (client.go:308-335).
THEOREM SuccessShowsMovement == ASSUME KeysSurvive PROVE Spec => []AnswerIsTheMovement
<1>1. IInv => AnswerIsTheMovement
  BY DEF IInv, AnswerInv, AnswerIsTheMovement
<1> QED BY <1>1, Invariance, PTL

\* An error that says refused leaves no request and no movement of its call,
\* now or later (client.go:266, 279, 347-349).
THEOREM RefusedMovesNothing == Spec => []RefusalIsFinal
<1>1. BaseInv => RefusalIsFinal
  <2> SUFFICES ASSUME BaseInv, NEW c \in Calls, Refused(c)
               PROVE  \A m \in inflight \union effects : m.call # c
    BY DEF RefusalIsFinal
  <2>1. CASE result[c].kind = "invalid"
    BY <2>1, IdleSentNothing DEF BaseInv, ControlInv
  <2>2. CASE ~ ReplaySafe(c)
    BY <2>2 DEF BaseInv, UnkeyedInv, SentBy, DoneBy
  <2> QED BY <2>1, <2>2 DEF Refused
<1> QED BY <1>1, BaseInvariance, PTL

\* Every request of a money-moving call carries its caller's usable key
\* (client.go:185-193, 252-253).
THEOREM MoneyCarriesKey == ASSUME KeysSurvive PROVE Spec => []KeyedOnTheWire
<1>1. IInv => KeyedOnTheWire
  BY RequestKey DEF IInv, TypeOK, Requests, KeyedOnTheWire, Sendable
<1> QED BY <1>1, Invariance, PTL

\* A failed call leaves the caller's value untouched (client.go:308).
THEOREM NoPartialAnswer == Spec => []OutOnlyOnSuccess
<1>1. BaseInv => OutOnlyOnSuccess
  BY DEF BaseInv, ControlInv, OutOnlyOnSuccess
<1> QED BY <1>1, BaseInvariance, PTL

---------------------------------------------------------------------------
(* Client implements WalletOperation.                                      *)

\* The abstract variables.
Ledgers == [o \in Operations |-> Ledger(o)]
PhasesOfCalls == [c \in WriteCalls |-> Phase(c)]
Answers == [c \in WriteCalls |-> out[c]]

LEMMA PhaseOfCall ==
  ASSUME ControlInv, NEW c \in Calls
  PROVE  /\ pc[c] = "idle" => Phase(c) = "idle"
         /\ pc[c] \in Running => Phase(c) = "pending"
         /\ pc[c] = "crashed" => Phase(c) = "unknown"
         /\ pc[c] = "done" /\ result[c].kind = "ok" => Phase(c) = "ok"
         /\ pc[c] = "done" /\ Refused(c) => Phase(c) = "refused"
         /\ pc[c] = "done" /\ result[c].kind # "ok" /\ ~ Refused(c) => Phase(c) = "unknown"
<1>1. pc[c] # "done" => result[c].kind = "none"
  BY DEF ControlInv
<1>2. Refused(c) => result[c].kind \in {"invalid", "local", "problem"}
  BY DEF Refused
<1> QED BY <1>1, <1>2 DEF Phase, Running

LEMMA PhaseOfCallNext ==
  ASSUME ControlInv', NEW c \in Calls
  PROVE  /\ pc'[c] \in Running => Phase(c)' = "pending"
         /\ pc'[c] = "crashed" => Phase(c)' = "unknown"
         /\ pc'[c] = "done" /\ result'[c].kind = "ok" => Phase(c)' = "ok"
         /\ pc'[c] = "done" /\ Refused(c)' => Phase(c)' = "refused"
         /\ pc'[c] = "done" /\ result'[c].kind # "ok" /\ ~ Refused(c)' => Phase(c)' = "unknown"
<1>1. pc'[c] # "done" => result'[c].kind = "none"
  BY DEF ControlInv
<1>2. Refused(c)' => result'[c].kind \in {"invalid", "local", "problem"}
  BY DEF Refused
<1> QED BY <1>1, <1>2 DEF Phase, Running

LEMMA PhaseFrame ==
  ASSUME NEW c \in Calls, pc'[c] = pc[c], result'[c] = result[c]
  PROVE  Phase(c)' = Phase(c)
BY DEF Phase, Refused, Running

\* A step of one call changes that call's phase and answer only.
OthersKeep(d) ==
  /\ effects' = effects
  /\ \A c \in Calls \ {d} : pc'[c] = pc[c] /\ result'[c] = result[c] /\ out'[c] = out[c]

LEMMA OneCall ==
  ASSUME NEW d \in Calls, OthersKeep(d)
  PROVE  /\ Ledgers' = Ledgers
         /\ PhasesOfCalls' = [PhasesOfCalls EXCEPT ![d] = Phase(d)']
         /\ Answers' = [Answers EXCEPT ![d] = out'[d]]
<1>1. Ledgers' = Ledgers
  BY DEF OthersKeep, Ledgers, Ledger
<1>2. \A c \in Calls \ {d} : Phase(c)' = Phase(c)
  BY PhaseFrame DEF OthersKeep
<1>3. PhasesOfCalls' = [PhasesOfCalls EXCEPT ![d] = Phase(d)']
  BY <1>2 DEF PhasesOfCalls, WriteCalls, Writes
<1>4. Answers' = [Answers EXCEPT ![d] = out'[d]]
  BY DEF OthersKeep, Answers, WriteCalls, Writes
<1> QED BY <1>1, <1>3, <1>4

LEMMA CallStutters ==
  ASSUME NEW d \in Calls, OthersKeep(d), out'[d] = out[d], Phase(d)' = Phase(d)
  PROVE  UNCHANGED W!vars
<1>1. PhasesOfCalls' = PhasesOfCalls
  BY OneCall DEF PhasesOfCalls
<1>2. Answers' = Answers
  BY OneCall DEF Answers
<1>3. Ledgers' = Ledgers
  BY OneCall
<1> QED BY <1>1, <1>2, <1>3 DEF W!vars, Ledgers, PhasesOfCalls, Answers

\* A call that begins, or one that hands back an error: refused or unknown.
LEMMA BeginsOrStutters ==
  ASSUME NEW d \in Calls, OthersKeep(d), out'[d] = out[d],
         Phase(d) = "idle", Phase(d)' = "pending"
  PROVE  (\E c \in WriteCalls : W!Begin(c)) \/ UNCHANGED W!vars
<1>1. CASE d \in WriteCalls
  <2>1. Answers' = Answers
    BY OneCall DEF Answers
  <2>2. PhasesOfCalls[d] = "idle"
    BY <1>1 DEF PhasesOfCalls
  <2>3. Ledgers' = Ledgers /\ PhasesOfCalls' = [PhasesOfCalls EXCEPT ![d] = "pending"]
    BY OneCall
  <2>4. W!Begin(d)
    BY <2>1, <2>2, <2>3 DEF W!Begin, Ledgers, PhasesOfCalls, Answers
  <2> QED BY <1>1, <2>4
<1>2. CASE d \notin WriteCalls
  <2>1. PhasesOfCalls' = PhasesOfCalls /\ Answers' = Answers /\ Ledgers' = Ledgers
    BY <1>2, OneCall DEF PhasesOfCalls, Answers
  <2> QED BY <2>1 DEF W!vars, Ledgers, PhasesOfCalls, Answers
<1> QED BY <1>1, <1>2

LEMMA GivesUpOrStutters ==
  ASSUME NEW d \in Calls, OthersKeep(d), out'[d] = out[d],
         Phase(d) = "pending", Phase(d)' = "unknown"
  PROVE  (\E C \in SUBSET WriteCalls : W!GiveUp(C)) \/ UNCHANGED W!vars
<1>1. CASE d \in WriteCalls
  <2>1. Answers' = Answers /\ Ledgers' = Ledgers
    BY OneCall DEF Answers
  <2>2. PhasesOfCalls[d] = "pending"
    BY <1>1 DEF PhasesOfCalls
  <2>3. PhasesOfCalls' = [PhasesOfCalls EXCEPT ![d] = "unknown"]
    BY OneCall
  <2>4. PhasesOfCalls' = [c \in WriteCalls |-> IF c \in {d} THEN "unknown" ELSE PhasesOfCalls[c]]
    BY <2>3 DEF PhasesOfCalls
  <2>5. W!GiveUp({d})
    BY <2>1, <2>2, <2>4 DEF W!GiveUp, Ledgers, PhasesOfCalls, Answers
  <2> QED BY <1>1, <2>5
<1>2. CASE d \notin WriteCalls
  <2>1. PhasesOfCalls' = PhasesOfCalls /\ Answers' = Answers /\ Ledgers' = Ledgers
    BY <1>2, OneCall DEF PhasesOfCalls, Answers
  <2> QED BY <2>1 DEF W!vars, Ledgers, PhasesOfCalls, Answers
<1> QED BY <1>1, <1>2

LEMMA OpType ==
  ASSUME NEW c \in Calls
  PROVE  Op(c) \in Operations
BY DEF Op, Operations

\* A refused call has no movement; so if no other call asked for its
\* operation, there is none at all.
LEMMA RefusesOrStutters ==
  ASSUME NEW d \in Calls, OthersKeep(d), out'[d] = out[d], TypeOK, EffectInv,
         Phase(d) \in {"idle", "pending"}, Phase(d)' = "refused", DoneBy(d) = {}
  PROVE  (\E c \in WriteCalls : W!Refuse(c)) \/ UNCHANGED W!vars
<1>1. CASE d \in WriteCalls
  <2>1. Answers' = Answers /\ Ledgers' = Ledgers
    BY OneCall DEF Answers
  <2>2. PhasesOfCalls[d] \in {"idle", "pending"}
    BY <1>1 DEF PhasesOfCalls
  <2>3. PhasesOfCalls' = [PhasesOfCalls EXCEPT ![d] = "refused"]
    BY OneCall
  <2>4. ASSUME \A c \in WriteCalls : Op(c) = Op(d) => c = d
        PROVE  Ledgers[Op(d)] = {}
    <3>1. ASSUME NEW e \in Ledger(Op(d)) PROVE FALSE
      <4>1. e \in effects /\ Op(e.call) = Op(d) /\ e.call \in WriteCalls
        BY <3>1 DEF Ledger, EffectInv, TypeOK, Requests, WriteCalls
      <4>2. e.call = d
        BY <2>4, <4>1
      <4> QED BY <4>1, <4>2 DEF DoneBy
    <3> QED BY <3>1, OpType DEF Ledgers
  <2>5. (\A c \in WriteCalls : OpOfWrites[c] = OpOfWrites[d] => c = d)
          => Ledgers[OpOfWrites[d]] = {}
    BY <1>1, <2>4 DEF OpOfWrites
  <2>6. W!Refuse(d)
    BY <2>1, <2>2, <2>3, <2>5 DEF W!Refuse, Ledgers, PhasesOfCalls, Answers
  <2> QED BY <1>1, <2>6
<1>2. CASE d \notin WriteCalls
  <2>1. PhasesOfCalls' = PhasesOfCalls /\ Answers' = Answers /\ Ledgers' = Ledgers
    BY <1>2, OneCall DEF PhasesOfCalls, Answers
  <2> QED BY <2>1 DEF W!vars, Ledgers, PhasesOfCalls, Answers
<1> QED BY <1>1, <1>2

\* What is in the ledger for an operation is the movement it made.
LEMMA OneMovement ==
  ASSUME AtMostOnce, NEW c \in Calls, NEW value, IsMovementFor(c, value)
  PROVE  Ledger(Op(c)) = value /\ value # {}
<1>1. PICK e \in effects : value = {e} /\ Op(e.call) = Op(c)
  BY DEF IsMovementFor
<1>2. \A f \in effects : Op(f.call) = Op(c) => f = e
  BY <1>1 DEF AtMostOnce
<1> QED BY <1>1, <1>2 DEF Ledger

LEMMA SucceedsOrStutters ==
  ASSUME NEW d \in Calls, OthersKeep(d), AtMostOnce,
         Writes(d) => IsMovementFor(d, out'[d]),
         Phase(d) = "pending", Phase(d)' = "ok"
  PROVE  (\E c \in WriteCalls : W!Succeed(c)) \/ UNCHANGED W!vars
<1>1. CASE d \in WriteCalls
  <2>1. Ledgers' = Ledgers
    BY OneCall
  <2>2. PhasesOfCalls[d] = "pending"
    BY <1>1 DEF PhasesOfCalls
  <2>3. PhasesOfCalls' = [PhasesOfCalls EXCEPT ![d] = "ok"]
    BY OneCall
  <2>4. Ledger(Op(d)) = out'[d] /\ out'[d] # {}
    BY <1>1, OneMovement DEF WriteCalls
  <2>5. Ledgers[Op(d)] = out'[d]
    BY <2>4, OpType DEF Ledgers
  <2>6. Answers' = [Answers EXCEPT ![d] = Ledgers[Op(d)]]
    BY <2>5, OneCall
  <2>7. OpOfWrites[d] = Op(d)
    BY <1>1 DEF OpOfWrites
  <2>8. /\ Ledgers[OpOfWrites[d]] # {}
        /\ Answers' = [Answers EXCEPT ![d] = Ledgers[OpOfWrites[d]]]
    BY <2>4, <2>5, <2>6, <2>7
  <2>9. W!Succeed(d)
    BY <2>1, <2>2, <2>3, <2>8 DEF W!Succeed, Ledgers, PhasesOfCalls, Answers
  <2> QED BY <1>1, <2>9
<1>2. CASE d \notin WriteCalls
  <2>1. PhasesOfCalls' = PhasesOfCalls /\ Answers' = Answers /\ Ledgers' = Ledgers
    BY <1>2, OneCall DEF PhasesOfCalls, Answers
  <2> QED BY <2>1 DEF W!vars, Ledgers, PhasesOfCalls, Answers
<1> QED BY <1>1, <1>2

\* A step of the call itself.
LEMMA CallStepImplements ==
  ASSUME IInv, IInv', AtMostOnce, NEW d \in Calls, CallStep(d)
  PROVE  W!Next \/ UNCHANGED W!vars
<1>0. TypeOK /\ ControlInv /\ ControlInv' /\ EffectInv
  BY DEF IInv
<1>1. CASE Send(d) \/ BeginRead(d) \/ WaitElapsed(d) \/ \E w \in Durations : Retries(d, w)
  <2>1. pc[d] \in Running /\ pc'[d] \in Running
    BY <1>0, <1>1 DEF Send, BeginRead, WaitElapsed, Retries, EnterWait, Running, TypeOK
  <2>2. Phase(d)' = Phase(d)
    BY <1>0, <2>1, PhaseOfCall, PhaseOfCallNext
  <2>3. OthersKeep(d) /\ out'[d] = out[d]
    BY <1>0, <1>1
       DEF Send, BeginRead, WaitElapsed, Retries, EnterWait, Frame, OthersKeep, serviceVars, TypeOK
  <2> QED BY <2>2, <2>3, CallStutters
<1>2. CASE ReadBody(d)
  <2>1. /\ pc[d] = "reading" /\ pc'[d] = "done" /\ result'[d].kind = "ok"
        /\ out'[d] = response[d].body /\ OthersKeep(d)
    BY <1>0, <1>2 DEF ReadBody, Finish, Outcome, OthersKeep, serviceVars, TypeOK
  <2>2. Phase(d) = "pending" /\ Phase(d)' = "ok"
    BY <1>0, <2>1, PhaseOfCall, PhaseOfCallNext DEF Running
  <2>3. Writes(d) => IsMovementFor(d, out'[d])
    BY <2>1 DEF IInv, AnswerInv, ControlInv
  <2> QED BY <2>1, <2>2, <2>3, SucceedsOrStutters DEF W!Next
<1>3. ASSUME NEW r \in Results, Fails(d, r) PROVE W!Next \/ UNCHANGED W!vars
  <2>1. /\ pc[d] \in Running /\ pc'[d] = "done" /\ result'[d] = r /\ r.kind # "ok"
        /\ OthersKeep(d) /\ out'[d] = out[d]
    BY <1>0, <1>3 DEF Fails, Finish, Frame, OthersKeep, serviceVars, TypeOK
  <2>2. Phase(d) = "pending"
    BY <1>0, <2>1, PhaseOfCall
  <2>3. CASE Refused(d)'
    <3>1. Phase(d)' = "refused"
      BY <1>0, <2>1, <2>3, PhaseOfCallNext
    <3>2. ~ ReplaySafe(d)
      BY <1>3, <2>1, <2>3 DEF Fails, Refused, ReplaySafe
    <3>3. DoneBy(d)' = {}
      BY <2>3, <3>2 DEF IInv, UnkeyedInv, ReplaySafe
    <3>4. DoneBy(d) = {}
      BY <2>1, <3>3 DEF DoneBy, OthersKeep
    <3> QED BY <1>0, <2>1, <2>2, <3>1, <3>4, RefusesOrStutters DEF W!Next
  <2>4. CASE ~ Refused(d)'
    <3>1. Phase(d)' = "unknown"
      BY <1>0, <2>1, <2>4, PhaseOfCallNext
    <3> QED BY <2>1, <2>2, <3>1, GivesUpOrStutters DEF W!Next
  <2> QED BY <2>3, <2>4
<1> QED BY <1>0, <1>1, <1>2, <1>3, CallStepForms

\* The movement of a request whose operation had none.
LEMMA ExecutionMoves ==
  ASSUME KeysSurvive, IInv, AtMostOnce, AtMostOnce', RefusalIsFinal, NEW m \in inflight,
         Writes(m.call), Stored(m) = {}, effects' = effects \union {m},
         UNCHANGED clientVars
  PROVE  \E o \in Operations : W!Move(o)
<1> DEFINE c == m.call
           o == Op(m.call)
<1>1. /\ m \in Requests /\ c \in WriteCalls /\ c \in Calls
      /\ m.attempt >= 1 /\ m.attempt \in Int /\ o \in Operations
  BY PolicyFacts, OpType DEF IInv, TypeOK, Requests, WriteCalls
<1>2. m \notin effects
  <2>1. CASE m.key # NoKey
    BY <2>1 DEF Stored
  <2>2. CASE m.key = NoKey /\ m \in effects
    <3>1. CallOf[c].key = NoKey
      BY <1>1, <2>2, RequestKey DEF IInv
    <3>2. ~ ReplaySafe(c)
      BY <3>1 DEF ReplaySafe, Writes
    <3>3. m \in SentBy(c) /\ m \in DoneBy(c)
      BY <2>2 DEF SentBy, DoneBy
    <3> QED BY <1>1, <3>2, <3>3 DEF IInv, UnkeyedInv
  <2> QED BY <2>1, <2>2
<1>3. Ledger(o) = {}
  <2>1. ASSUME NEW e \in effects, Op(e.call) = o PROVE FALSE
    <3>1. e = m
      BY <2>1 DEF AtMostOnce
    <3> QED BY <1>2, <3>1
  <2> QED BY <2>1 DEF Ledger
<1>4. Phase(c) \in {"pending", "unknown"}
  <2>1. pc[c] # "idle"
    <3>1. m.attempt <= attempt[c]
      BY DEF IInv, RequestInv
    <3>2. pc[c] = "idle" => attempt[c] = 0
      BY <1>1 DEF IInv, ControlInv
    <3> QED BY <1>1, <3>1, <3>2
  <2>2. result[c].kind # "ok"
    <3>1. ASSUME result[c].kind = "ok" PROVE FALSE
      <4>1. IsMovementFor(c, out[c])
        BY <1>1, <3>1 DEF IInv, AnswerInv
      <4> QED BY <1>1, <1>3, <4>1, OneMovement
    <3> QED BY <3>1
  <2>3. ~ Refused(c)
    BY <1>1 DEF RefusalIsFinal
  <2>4. pc[c] \in {"idle", "done", "crashed"} \union Running
    BY <1>1 DEF IInv, TypeOK
  <2> QED BY <1>1, <2>1, <2>2, <2>3, <2>4, PhaseOfCall DEF IInv
<1>5. PhasesOfCalls' = PhasesOfCalls /\ Answers' = Answers
  <2>1. \A d \in Calls : Phase(d)' = Phase(d)
    BY PhaseFrame DEF clientVars
  <2> QED BY <2>1 DEF PhasesOfCalls, Answers, WriteCalls, Writes, clientVars
<1>6. Ledgers' = [Ledgers EXCEPT ![o] = {m}]
  <2>1. Ledger(o)' = {m}
    BY <1>3 DEF Ledger
  <2>2. \A k \in Operations \ {o} : Ledger(k)' = Ledger(k)
    BY DEF Ledger
  <2> QED BY <2>1, <2>2 DEF Ledgers
<1>7. Ledgers[o] = {}
  BY <1>1, <1>3 DEF Ledgers
<1>8. /\ OpOfWrites[c] = o /\ PhasesOfCalls[c] \in {"pending", "unknown"}
      /\ m \in Ledgers'[o]
  BY <1>1, <1>4, <1>6 DEF PhasesOfCalls, OpOfWrites, Ledgers
<1>9. W!Move(o)
  BY <1>1, <1>5, <1>6, <1>7, <1>8 DEF W!Move, Ledgers, PhasesOfCalls, Answers
<1> QED BY <1>1, <1>9

\* A crash: what was pending becomes unknown.
LEMMA CrashGivesUp ==
  ASSUME TypeOK, ControlInv, ControlInv', Crash
  PROVE  \E C \in SUBSET WriteCalls : W!GiveUp(C)
<1> DEFINE C == {c \in WriteCalls : pc[c] \in Running}
<1>1. \A c \in C : PhasesOfCalls[c] = "pending"
  BY PhaseOfCall DEF PhasesOfCalls, WriteCalls
<1>2. Ledgers' = Ledgers /\ Answers' = Answers
  BY DEF Crash, serviceVars, Ledgers, Ledger, Answers, WriteCalls, Writes
<1>3. ASSUME NEW c \in WriteCalls
      PROVE  Phase(c)' = IF c \in C THEN "unknown" ELSE Phase(c)
  <2>0. c \in Calls
    BY DEF WriteCalls
  <2>1. CASE pc[c] \in Running
    <3>1. pc'[c] = "crashed"
      BY <2>0, <2>1 DEF Crash
    <3> QED BY <2>0, <2>1, <3>1, PhaseOfCallNext
  <2>2. CASE pc[c] \notin Running
    <3>1. pc'[c] = pc[c] /\ result'[c] = result[c]
      BY <2>0, <2>2 DEF Crash
    <3>2. Phase(c)' = Phase(c)
      BY <2>0, <3>1, PhaseFrame
    <3> QED BY <2>2, <3>2
  <2> QED BY <2>1, <2>2
<1>4. PhasesOfCalls' = [c \in WriteCalls |-> IF c \in C THEN "unknown" ELSE PhasesOfCalls[c]]
  BY <1>3 DEF PhasesOfCalls, WriteCalls, Writes
<1> HIDE DEF C
<1>5. W!GiveUp(C)
  BY <1>1, <1>2, <1>4 DEF W!GiveUp, Ledgers, PhasesOfCalls, Answers
<1> QED BY <1>5 DEF C

LEMMA InitWallet == Init => W!Init
<1> SUFFICES ASSUME Init PROVE W!Init
  OBVIOUS
<1>1. Ledgers = [o \in Operations |-> {}]
  BY DEF Init, Ledgers, Ledger
<1>2. PhasesOfCalls = [c \in WriteCalls |-> "idle"]
  <2>1. \A c \in Calls : pc[c] = "idle"
    BY DEF Init
  <2>2. ControlInv
    BY InitInv DEF IInv
  <2>3. \A c \in Calls : Phase(c) = "idle"
    BY <2>1, <2>2, PhaseOfCall
  <2> QED BY <2>3 DEF PhasesOfCalls, WriteCalls
<1>3. Answers = [c \in WriteCalls |-> {}]
  BY DEF Init, Answers, WriteCalls
<1> QED BY <1>1, <1>2, <1>3 DEF W!Init, Ledgers, PhasesOfCalls, Answers

LEMMA WalletNext ==
  ASSUME KeysSurvive, IInv, IInv', AtMostOnce, AtMostOnce', RefusalIsFinal, [Next]_vars
  PROVE  [W!Next]_(W!vars)
<1>0. TypeOK /\ ControlInv /\ ControlInv' /\ EffectInv /\ RequestInv
  BY DEF IInv
<1>1. ASSUME NEW d \in Calls, Start(d) PROVE [W!Next]_(W!vars)
  <2>1. pc[d] = "idle" /\ pc'[d] \in Running /\ OthersKeep(d) /\ out'[d] = out[d]
    BY <1>0, <1>1 DEF Start, Running, OthersKeep, serviceVars, TypeOK
  <2>2. Phase(d) = "idle" /\ Phase(d)' = "pending"
    BY <1>0, <2>1, PhaseOfCall, PhaseOfCallNext
  <2> QED BY <2>1, <2>2, BeginsOrStutters DEF W!Next
<1>2. ASSUME NEW d \in Calls, RefuseLocally(d) PROVE [W!Next]_(W!vars)
  <2>1. /\ pc[d] = "idle" /\ pc'[d] = "done" /\ result'[d].kind = "invalid"
        /\ OthersKeep(d) /\ out'[d] = out[d]
    BY <1>0, <1>2 DEF RefuseLocally, Finish, Outcome, OthersKeep, serviceVars, TypeOK
  <2>2. Phase(d) = "idle" /\ Phase(d)' = "refused"
    BY <1>0, <2>1, PhaseOfCall, PhaseOfCallNext DEF Refused
  <2>3. DoneBy(d) = {}
    BY <1>0, <2>1, IdleSentNothing DEF ControlInv, DoneBy
  <2> QED BY <1>0, <2>1, <2>2, <2>3, RefusesOrStutters DEF W!Next
<1>3. ASSUME NEW d \in Calls, Cancel(d) PROVE [W!Next]_(W!vars)
  <2>1. OthersKeep(d) /\ out'[d] = out[d] /\ Phase(d)' = Phase(d)
    BY <1>3, PhaseFrame DEF Cancel, OthersKeep, clientVars, serviceVars
  <2> QED BY <2>1, CallStutters
<1>4. ASSUME NEW d \in Calls, CallStep(d) PROVE [W!Next]_(W!vars)
  BY <1>4, CallStepImplements
<1>5. CASE Crash
  BY <1>0, <1>5, CrashGivesUp DEF W!Next
<1>6. ASSUME NEW m \in inflight, Service(m) PROVE [W!Next]_(W!vars)
  <2>1. UNCHANGED clientVars /\ m.call \in Calls
    BY <1>0, <1>6, ServiceFrame DEF Requests
  <2>2. CASE effects' = effects
    <3>1. OthersKeep(m.call) /\ out'[m.call] = out[m.call]
      BY <2>1, <2>2 DEF OthersKeep, clientVars
    <3>2. Phase(m.call)' = Phase(m.call)
      BY <2>1, PhaseFrame DEF clientVars
    <3> QED BY <2>1, <3>1, <3>2, CallStutters
  <2>3. CASE effects' # effects
    <3>1. effects' = effects \union {m} /\ Writes(m.call) /\ Stored(m) = {}
      BY <1>0, <1>6, <2>3, ServiceEffects
    <3> QED BY <2>1, <3>1, ExecutionMoves DEF W!Next
  <2> QED BY <2>2, <2>3
<1>7. CASE UNCHANGED vars
  <2>1. \A c \in Calls : Phase(c)' = Phase(c)
    BY <1>7, PhaseFrame DEF vars
  <2>2. Ledgers' = Ledgers /\ PhasesOfCalls' = PhasesOfCalls /\ Answers' = Answers
    BY <1>7, <2>1 DEF vars, Ledgers, Ledger, PhasesOfCalls, Answers, WriteCalls, Writes
  <2> QED BY <2>2 DEF W!vars, Ledgers, PhasesOfCalls, Answers
<1> QED BY <1>1, <1>2, <1>3, <1>4, <1>5, <1>6, <1>7 DEF Next

\* Every behaviour of the retry loop, the wire and the service is one of the
\* abstract operation: money moves once, success shows the movement, refusal
\* is final (client.go:195-204, README.md "Money-moving calls take an
\* idempotency key").
THEOREM ImplementsWallet == ASSUME KeysSurvive PROVE Spec => WalletSpec
<1>1. /\ IInv /\ IInv' /\ AtMostOnce /\ AtMostOnce' /\ RefusalIsFinal /\ [Next]_vars
      => [W!Next]_(W!vars)
  BY WalletNext
<1> QED BY <1>1, InitWallet, Invariance, MovedAtMostOnce, RefusedMovesNothing, PTL
        DEF Spec, WalletSpec, W!Spec

---------------------------------------------------------------------------
(* Which keys survive the wire.                                            *)

Texts == Seq(Graphic \union {Blank} \union Other)

\* A key that validate accepts arrives as its caller wrote it exactly if it
\* neither begins nor ends with a blank (idempotency.go:40-58).
LEMMA UnpaddedArrives ==
  ASSUME NEW k \in Texts, Validate(k)
  PROVE  Delivered(k) = k <=> k[1] # Blank /\ k[Len(k)] # Blank
<1> DEFINE inner == {i \in DOMAIN k : k[i] # Blank}
<1>1. Len(k) \in Nat \ {0} /\ DOMAIN k = 1 .. Len(k)
  <2>1. Len(k) \in Nat /\ DOMAIN k = 1 .. Len(k) /\ (Len(k) = 0 => k = <<>>)
    BY DEF Texts
  <2> QED BY <2>1 DEF Validate, EmptyKey
<1>2. ASSUME k[1] # Blank, k[Len(k)] # Blank PROVE Delivered(k) = k
  <2>1. 1 \in inner /\ Len(k) \in inner /\ \A i \in inner : i \in Int /\ 1 <= i /\ i <= Len(k)
    BY <1>1, <1>2
  <2> HIDE DEF inner
  <2>2. Min(inner) = 1
    <3>1. \A x \in inner : (\A y \in inner : x <= y) => x = 1
      BY <2>1
    <3> QED BY <2>1, <3>1 DEF Min
  <2>3. Max(inner) = Len(k)
    <3>1. \A x \in inner : (\A y \in inner : x >= y) => x = Len(k)
      BY <2>1
    <3> QED BY <2>1, <3>1 DEF Max
  <2>4. inner # {}
    BY <2>1
  <2>5. Delivered(k) = SubSeq(k, 1, Len(k))
    BY <2>2, <2>3, <2>4 DEF Delivered, inner
  <2> QED BY <2>5 DEF Texts
<1>3. ASSUME Delivered(k) = k PROVE k[1] # Blank /\ k[Len(k)] # Blank
  <2>1. inner # {} /\ k = SubSeq(k, Min(inner), Max(inner))
    BY <1>3 DEF Delivered, Validate
  <2>2. \A i \in inner : i \in 1 .. Len(k) /\ k[i] # Blank
    BY <1>1
  <2>3. Min(inner) \in inner /\ Max(inner) \in inner
    <3>1. \E x \in inner : \A y \in inner : x <= y
      <4>1. inner \in SUBSET Nat
        BY <1>1
      <4> QED BY <2>1, <4>1, Least
    <3>2. \E x \in inner : \A y \in inner : x >= y
      <4> DEFINE behind == {Len(k) - i : i \in inner}
      <4>1. behind \in SUBSET Nat /\ behind # {}
        BY <1>1, <2>1
      <4>2. PICK n \in behind : \A j \in behind : n <= j
        BY <4>1, Least
      <4>3. PICK x \in inner : n = Len(k) - x
        OBVIOUS
      <4>4. \A y \in inner : Len(k) - x <= Len(k) - y
        BY <4>2, <4>3
      <4>5. \A y \in inner : x >= y
        BY <1>1, <4>4
      <4> QED BY <4>5
    <3> QED BY <3>1, <3>2 DEF Min, Max
  <2> DEFINE a == Min(inner)
             z == Max(inner)
  <2>4. a \in 1 .. Len(k) /\ z \in 1 .. Len(k) /\ k[a] # Blank /\ k[z] # Blank
    BY <2>2, <2>3
  <2> HIDE DEF a, z, inner
  <2>5. Len(k) = IF a <= z THEN z - a + 1 ELSE 0
    BY <1>1, <2>1, <2>4 DEF Texts, a, z
  <2>6. a = 1 /\ z = Len(k)
    BY <1>1, <2>4, <2>5
  <2> QED BY <2>4, <2>6
<1> QED BY <1>2, <1>3

\* The keys are texts, usable if validate accepts them, and arrive as the
\* header is written, which is how MCClient gives Client's constants values.
KeysAreTexts ==
  /\ Keys \subseteq Texts
  /\ ValidKeys = {k \in Keys : Validate(k)}
  /\ Carried = [k \in Keys \union {NoKey} |-> Delivered(k)]

\* What the theorems above assume of the wire is neither more nor less than
\* that no usable key begins or ends with a blank (idempotency.go:40-58).
THEOREM UnpaddedKeysSurvive ==
  ASSUME KeysAreTexts
  PROVE  KeysSurvive <=> \A k \in ValidKeys : k[1] # Blank /\ k[Len(k)] # Blank
<1>1. ASSUME NEW k \in ValidKeys PROVE Carried[k] = k <=> k[1] # Blank /\ k[Len(k)] # Blank
  <2>1. k \in Texts /\ Validate(k) /\ Carried[k] = Delivered(k)
    BY DEF KeysAreTexts
  <2> QED BY <2>1, UnpaddedArrives
<1> QED BY <1>1 DEF KeysSurvive
===============================================================================
