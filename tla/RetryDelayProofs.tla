--------------------------- MODULE RetryDelayProofs ---------------------------
(***************************************************************************)
(* What the delay arithmetic guarantees for every width of a duration,     *)
(* every policy and every header: a delay is a duration, and none is       *)
(* longer than the cap, whether or not an intermediate result wrapped.     *)
(***************************************************************************)
EXTENDS RetryDelay, WellFoundedInduction, TLAPS

\* The wait a policy allows at most.
Cap(policy) == IF policy.MaxDelay < 0 THEN 0 ELSE policy.MaxDelay

\* Induction, as the least counterexample.
LEMMA Least ==
  ASSUME NEW S \in SUBSET Nat, S # {}
  PROVE  \E n \in S : \A k \in S : n <= k
<1>1. PICK n \in S : \A k \in S : <<k, n>> \notin OpToRel(<, Nat)
  BY NatLessThanWellFounded, WFMin
<1>2. \A k \in S : ~ k < n
  BY <1>1 DEF OpToRel
<1> QED BY <1>2

\* A stored integer is a duration.
LEMMA WrapIsDuration ==
  ASSUME NEW n \in Int
  PROVE  Wrap(n) \in Durations
BY WordAssumption DEF Wrap, Durations

\* A step is a duration and past no positive cap.
LEMMA CappedStepBound ==
  ASSUME NEW policy \in RetryPolicies, NEW attempt \in Nat \ {0}
  PROVE  /\ CappedStep(policy, attempt) \in Durations
         /\ CappedStep(policy, attempt) <= policy.MaxDelay
<1>1. policy.BaseDelay \in Int /\ policy.MaxDelay \in Durations
  BY WordAssumption DEF RetryPolicies, Durations
<1>2. 2^(attempt - 1) \in Int
  <2>1. attempt - 1 \in Nat
    OBVIOUS
  <2>2. \A n \in Nat : 2^n \in Int
    OBVIOUS
  <2> QED BY <2>1, <2>2
<1> DEFINE d == Wrap(policy.BaseDelay * 2^(attempt - 1))
<1>3. policy.BaseDelay * 2^(attempt - 1) \in Int
  BY <1>1, <1>2
<1>4. d \in Durations
  BY <1>3, WrapIsDuration
<1>5. d \in Int /\ policy.MaxDelay \in Int
  BY <1>1, <1>4, WordAssumption DEF Durations
<1>6. CappedStep(policy, attempt) = IF d > policy.MaxDelay \/ d <= 0 THEN policy.MaxDelay ELSE d
  BY DEF CappedStep
<1> HIDE DEF d
<1>7. CASE d > policy.MaxDelay \/ d <= 0
  BY <1>1, <1>5, <1>6, <1>7
<1>8. CASE ~ (d > policy.MaxDelay \/ d <= 0)
  BY <1>4, <1>5, <1>6, <1>8
<1> QED BY <1>7, <1>8

\* Every backoff is a duration between zero and the cap.
LEMMA BackoffBound ==
  ASSUME NEW policy \in RetryPolicies, NEW attempt \in Nat \ {0},
         NEW w \in Backoff(policy, attempt)
  PROVE  w \in Durations /\ 0 <= w /\ w <= Cap(policy)
<1> DEFINE step == CappedStep(policy, attempt)
<1>1. step \in Durations /\ step <= policy.MaxDelay
  BY CappedStepBound
<1>2. step \in Int /\ policy.MaxDelay \in Int
  BY <1>1, WordAssumption DEF RetryPolicies, Durations
<1>3. CASE policy.BaseDelay <= 0 \/ step <= 0
  <2>1. w = 0
    BY <1>3 DEF Backoff
  <2> QED BY <2>1, <1>2, WordAssumption DEF Durations, Cap
<1>4. CASE ~ (policy.BaseDelay <= 0 \/ step <= 0)
  <2>1. w \in (step \div 2) .. 2 * (step \div 2)
    BY <1>4 DEF Backoff
  <2> HIDE DEF step
  <2>2. step \div 2 \in Int /\ 0 <= step \div 2 /\ 2 * (step \div 2) <= step
    BY <1>2, <1>4
  <2>3. w \in Int /\ 0 <= w /\ w <= step
    BY <2>1, <2>2, <1>2
  <2> QED BY <2>3, <1>1, <1>2, WordAssumption DEF Durations, Cap
<1> QED BY <1>3, <1>4

\* Every delay `do` waits out after a problem is a duration within the cap.
LEMMA WaitsAfterProblemBound ==
  ASSUME NEW policy \in RetryPolicies, NEW attempt \in Nat \ {0},
         NEW header \in HeaderRecords,
         NEW w \in WaitsAfterProblem(policy, attempt, header)
  PROVE  w \in Durations /\ w <= Cap(policy)
<1>1. CASE ~ HasRetryAfter(header)
  <2>1. w \in Backoff(policy, attempt)
    BY <1>1 DEF WaitsAfterProblem
  <2> QED BY <2>1, BackoffBound
<1>2. CASE HasRetryAfter(header)
  <2> DEFINE after == RetryAfter(header)
  <2>1. w = after /\ ~ (after > policy.MaxDelay)
    BY <1>2 DEF WaitsAfterProblem
  <2>2. after \in Durations
    <3>1. CASE header.form = "date"
      <4>1. header.value \in Durations
        BY <3>1 DEF HeaderRecords
      <4>2. after = IF header.value < 0 THEN 0 ELSE header.value
        BY <3>1 DEF RetryAfter
      <4> QED BY <4>1, <4>2, WordAssumption DEF Durations
    <3>2. CASE header.form = "seconds"
      <4>1. header.value * Second \in Int
        BY WordAssumption DEF HeaderRecords
      <4>2. after = Wrap(header.value * Second)
        BY <3>2 DEF RetryAfter
      <4> QED BY <4>1, <4>2, WrapIsDuration
    <3> QED BY <1>2, <3>1, <3>2 DEF HasRetryAfter
  <2>3. after \in Int /\ policy.MaxDelay \in Int
    BY <2>2, WordAssumption DEF RetryPolicies, Durations
  <2> HIDE DEF after
  <2> QED BY <2>1, <2>2, <2>3 DEF Cap
<1> QED BY <1>1, <1>2

===============================================================================
