------------------------------ MODULE RetryDelay ------------------------------
(***************************************************************************)
(* How long one call waits before its next attempt: the arithmetic of      *)
(* Client.backoff, parseRetryAfter and the choice `do` makes between them  *)
(* (client.go).  A time.Duration is a signed machine word of nanoseconds,  *)
(* so the shift in backoff and the multiplication in parseRetryAfter wrap. *)
(* The width of the word and the number of its units in a second are       *)
(* parameters: 2^63 and 10^9 in the program, small numbers in a run.       *)
(***************************************************************************)
EXTENDS Integers

CONSTANTS
  HalfWord,     \* durations are the integers in -HalfWord .. HalfWord - 1
  Second        \* time.Second

ASSUME WordAssumption == HalfWord \in Nat \ {0} /\ Second \in Nat \ {0}

Durations == -HalfWord .. HalfWord - 1

\* The value a machine word holds when n is stored in it.
Wrap(n) == ((n + HalfWord) % (2 * HalfWord)) - HalfWord

\* RetryPolicy.  WithRetryPolicy and WithoutRetries never leave MaxAttempts
\* below one; the two delays are whatever the caller wrote.
RetryPolicies ==
  [MaxAttempts : Nat \ {0}, BaseDelay : Durations, MaxDelay : Durations]

---------------------------------------------------------------------------
(* Backoff.                                                                *)

\* Faulty variant: the cap is applied, a step that wrapped is kept.
StepWithoutWrapTest(policy, attempt) ==
  LET d == Wrap(policy.BaseDelay * 2^(attempt - 1))
  IN  IF d > policy.MaxDelay THEN policy.MaxDelay ELSE d

\* base << (attempt - 1), then capped.
CappedStep(policy, attempt) ==
  LET d == Wrap(policy.BaseDelay * 2^(attempt - 1))
  IN  IF d > policy.MaxDelay \/ d <= 0 THEN policy.MaxDelay ELSE d

\* The delays backoff(attempt) may draw: equal jitter over half the step.
Backoff(policy, attempt) ==
  LET step == CappedStep(policy, attempt)
  IN  IF policy.BaseDelay <= 0 \/ step <= 0
      THEN {0}
      ELSE (step \div 2) .. 2 * (step \div 2)

---------------------------------------------------------------------------
(* Retry-After.  A header is what its text says: nothing that parses, a    *)
(* number of seconds, or a date (given as the time left until it).         *)

NoHeader == [form |-> "absent", value |-> 0]

\* A number of any size may be written; time.Until saturates.
HeaderRecords ==
  {h \in [form : {"absent", "seconds", "date"}, value : Int] :
     h.form = "date" => h.value \in Durations}

\* strconv.Atoi fails on a number wider than the word, and the HTTP-date
\* reader fails on any number.
HasRetryAfter(header) ==
  \/ header.form = "date"
  \/ header.form = "seconds" /\ header.value \in 0 .. HalfWord - 1

\* What parseRetryAfter returns for a header it accepts.
RetryAfter(header) ==
  CASE header.form = "date"    -> IF header.value < 0 THEN 0 ELSE header.value
    [] header.form = "seconds" -> Wrap(header.value * Second)

\* Faulty variants: no cap on what the server names; a named time cut down
\* to the cap.
WaitsUncapped(policy, attempt, header) ==
  IF ~ HasRetryAfter(header) THEN Backoff(policy, attempt) ELSE {RetryAfter(header)}

WaitsCutToCap(policy, attempt, header) ==
  IF ~ HasRetryAfter(header) THEN Backoff(policy, attempt)
  ELSE IF RetryAfter(header) > policy.MaxDelay THEN {policy.MaxDelay}
  ELSE {RetryAfter(header)}

\* The delays `do` may wait out after a response it retries.  None: the
\* problem goes back to the caller, the server asked for more than MaxDelay.
WaitsAfterProblem(policy, attempt, header) ==
  IF ~ HasRetryAfter(header) THEN Backoff(policy, attempt)
  ELSE IF RetryAfter(header) > policy.MaxDelay THEN {}
  ELSE {RetryAfter(header)}

\* Faulty variants: one attempt too many; a write without a key retried
\* like any other request.
RetryableOnceMore(policy, status, replaySafe, attempt) ==
  /\ attempt <= policy.MaxAttempts
  /\ \/ status = 429
     \/ status \in {500, 502, 503, 504} /\ replaySafe

RetryableWhateverTheMethod(policy, status, replaySafe, attempt) ==
  /\ attempt < policy.MaxAttempts
  /\ status \in {429, 500, 502, 503, 504}

\* Client.retryable.
Retryable(policy, status, replaySafe, attempt) ==
  /\ attempt < policy.MaxAttempts
  /\ \/ status = 429
     \/ status \in {500, 502, 503, 504} /\ replaySafe

===============================================================================
