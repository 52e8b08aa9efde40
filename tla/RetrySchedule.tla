---------------------------- MODULE RetrySchedule ----------------------------
(***************************************************************************)
(* The sequence of waits of one call that never succeeds: every attempt    *)
(* ends in a failure the policy may retry, with or without a Retry-After,  *)
(* until the call hands its failure back.  This is the time `do` can spend *)
(* asleep, seen apart from what travels on the wire (module Client).       *)
(***************************************************************************)
EXTENDS RetryDelay

CONSTANTS
  Policies,     \* the retry policies a client is built with
  Headers       \* the Retry-After headers its server sends

ASSUME ScheduleAssumption ==
  Policies \subseteq RetryPolicies /\ Headers \subseteq HeaderRecords

VARIABLES
  policy,       \* Client.retry
  attempt,      \* the loop variable of `do`
  header,       \* the Retry-After the latest wait answers, NoHeader for backoff
  wait,         \* the latest wait, 0 before the first
  returned      \* the failure has been handed back

vars == <<policy, attempt, header, wait, returned>>

Init ==
  /\ policy \in Policies
  /\ attempt = 1
  /\ header = NoHeader
  /\ wait = 0
  /\ returned = FALSE

\* A replay-safe attempt that got no complete answer waits out the backoff.
WaitAfterTransport ==
  /\ ~ returned
  /\ attempt < policy.MaxAttempts
  /\ wait' \in Backoff(policy, attempt)
  /\ header' = NoHeader
  /\ attempt' = attempt + 1
  /\ UNCHANGED <<policy, returned>>

\* A retryable status waits what its header or the backoff says.
WaitAfterStatus ==
  /\ ~ returned
  /\ \E status \in {429, 503}, h \in Headers :
       /\ Retryable(policy, status, TRUE, attempt)
       /\ wait' \in WaitsAfterProblem(policy, attempt, h)
       /\ header' = h
  /\ attempt' = attempt + 1
  /\ UNCHANGED <<policy, returned>>

\* The last attempt, or a Retry-After past the cap, ends the call.
HandBack ==
  /\ ~ returned
  /\ \E h \in Headers :
       /\ \/ attempt = policy.MaxAttempts
          \/ WaitsAfterProblem(policy, attempt, h) = {}
       /\ header' = h
  /\ returned' = TRUE
  /\ UNCHANGED <<policy, attempt, wait>>

Next == WaitAfterTransport \/ WaitAfterStatus \/ HandBack

Spec == Init /\ [][Next]_vars

---------------------------------------------------------------------------
(* Reference definitions, in unbounded integers.                           *)

\* The capped doubling as RetryPolicy's comments describe it, one step at a
\* time and never past the cap.
ExactStep(p, n) ==
  LET step[k \in 1..n] ==
        LET d == IF k = 1 THEN p.BaseDelay ELSE 2 * step[k - 1]
        IN  IF d > p.MaxDelay THEN p.MaxDelay ELSE d
  IN  step[n]

\* The wait a header names, whatever the width of a duration.
NamedWait(h) ==
  IF h.form = "seconds" THEN h.value * Second
  ELSE IF h.value < 0 THEN 0 ELSE h.value

\* Policies whose product fits the word: no step that wraps can come out
\* positive and below the cap.  200 ms and 5 s, the defaults, do.
Fits(p) == p.BaseDelay * p.MaxDelay < HalfWord

---------------------------------------------------------------------------
(* Properties.                                                             *)

TypeOK ==
  /\ policy \in Policies
  /\ attempt \in 1 .. policy.MaxAttempts
  /\ header \in Headers \union {NoHeader}
  /\ wait \in Durations
  /\ returned \in BOOLEAN

\* No wait blocks the caller longer than MaxDelay, whatever the policy, the
\* attempt and the header, also when the shift in backoff wraps around
\* (client.go:364-368) and when MaxDelay is negative (then there is no wait).
WaitWithinCap ==
  wait <= IF policy.MaxDelay < 0 THEN 0 ELSE policy.MaxDelay

\* The machine arithmetic of backoff draws from at least half and at most
\* the whole of the exact capped doubling: a long outage never shrinks the
\* wait back to nothing by overflow (client.go:364-373).
BackoffIsCappedDoubling ==
  [][ (/\ attempt' = attempt + 1
       /\ ~ HasRetryAfter(header')
       /\ Fits(policy) /\ policy.BaseDelay > 0 /\ policy.MaxDelay > 0)
      => LET step == ExactStep(policy, attempt)
         IN  wait' <= step /\ 2 * wait' >= step - 1 ]_vars

\* "A Retry-After longer than this is not waited out: the problem is
\* returned so the caller decides" (client.go:82-84), and one that is waited
\* out is waited out in full.
RetryAfterHonoured ==
  [][ (attempt' = attempt + 1 /\ HasRetryAfter(header'))
      => NamedWait(header') <= policy.MaxDelay /\ wait' = NamedWait(header') ]_vars
===============================================================================
