-------------------------- MODULE RetryScheduleProofs --------------------------
(***************************************************************************)
(* The time one call spends asleep, for every width of a duration, every   *)
(* set of policies and every set of headers.                               *)
(***************************************************************************)
EXTENDS RetrySchedule, Construction, RetryDelayProofs, FiniteSetTheorems

LEMMA TypeInit == Init => TypeOK
<1> SUFFICES ASSUME Init PROVE TypeOK
  OBVIOUS
<1>1. policy \in Policies /\ policy.MaxAttempts \in Nat \ {0}
  BY ScheduleAssumption DEF Init, RetryPolicies
<1>2. attempt \in 1 .. policy.MaxAttempts
  BY <1>1 DEF Init
<1>3. wait \in Durations
  BY WordAssumption DEF Init, Durations
<1> QED BY <1>1, <1>2, <1>3 DEF Init, TypeOK

LEMMA TypeNext == TypeOK /\ [Next]_vars => TypeOK'
<1> SUFFICES ASSUME TypeOK, [Next]_vars PROVE TypeOK'
  OBVIOUS
<1>1. policy \in RetryPolicies /\ policy.MaxAttempts \in Nat \ {0}
  BY ScheduleAssumption DEF TypeOK, RetryPolicies
<1>2. attempt \in Nat \ {0}
  BY <1>1 DEF TypeOK
<1>3. CASE WaitAfterTransport
  <2>1. wait' \in Durations
    BY <1>1, <1>2, <1>3, BackoffBound DEF WaitAfterTransport
  <2>2. attempt' \in 1 .. policy.MaxAttempts
    BY <1>1, <1>2, <1>3 DEF WaitAfterTransport
  <2> QED BY <1>3, <2>1, <2>2 DEF WaitAfterTransport, TypeOK
<1>4. CASE WaitAfterStatus
  <2>1. PICK status \in {429, 503}, h \in Headers :
           /\ Retryable(policy, status, TRUE, attempt)
           /\ wait' \in WaitsAfterProblem(policy, attempt, h)
           /\ header' = h
    BY <1>4 DEF WaitAfterStatus
  <2>2. h \in HeaderRecords
    BY ScheduleAssumption
  <2>3. wait' \in Durations
    BY <1>1, <1>2, <2>1, <2>2, WaitsAfterProblemBound
  <2>4. attempt' \in 1 .. policy.MaxAttempts
    BY <1>1, <1>2, <1>4, <2>1 DEF WaitAfterStatus, Retryable
  <2> QED BY <1>4, <2>1, <2>3, <2>4 DEF WaitAfterStatus, TypeOK
<1>5. CASE HandBack
  BY <1>5 DEF HandBack, TypeOK
<1>6. CASE UNCHANGED vars
  BY <1>6 DEF vars, TypeOK
<1> QED BY <1>3, <1>4, <1>5, <1>6 DEF Next

LEMMA CapNext == TypeOK /\ WaitWithinCap /\ [Next]_vars => WaitWithinCap'
<1> SUFFICES ASSUME TypeOK, WaitWithinCap, [Next]_vars PROVE WaitWithinCap'
  OBVIOUS
<1>1. policy \in RetryPolicies /\ attempt \in Nat \ {0}
  BY ScheduleAssumption DEF TypeOK, RetryPolicies
<1>2. WaitWithinCap' <=> wait' <= Cap(policy')
  BY DEF WaitWithinCap, Cap
<1>3. CASE WaitAfterTransport
  <2>1. wait' <= Cap(policy)
    BY <1>1, <1>3, BackoffBound DEF WaitAfterTransport
  <2> QED BY <1>2, <1>3, <2>1 DEF WaitAfterTransport
<1>4. CASE WaitAfterStatus
  <2>1. PICK status \in {429, 503}, h \in Headers :
           wait' \in WaitsAfterProblem(policy, attempt, h)
    BY <1>4 DEF WaitAfterStatus
  <2>2. wait' <= Cap(policy)
    BY <1>1, <2>1, ScheduleAssumption, WaitsAfterProblemBound
  <2> QED BY <1>2, <1>4, <2>2 DEF WaitAfterStatus
<1>5. CASE HandBack
  BY <1>5 DEF HandBack, WaitWithinCap
<1>6. CASE UNCHANGED vars
  BY <1>6 DEF vars, WaitWithinCap
<1> QED BY <1>3, <1>4, <1>5, <1>6 DEF Next

\* No call sleeps longer than MaxDelay between two attempts, whatever
\* overflows in backoff or in parseRetryAfter (client.go:359-410).
THEOREM ScheduleWithinCap == Spec => [](TypeOK /\ WaitWithinCap)
<1>1. Init => TypeOK /\ WaitWithinCap
  <2> SUFFICES ASSUME Init PROVE WaitWithinCap
    BY TypeInit
  <2>1. policy.MaxDelay \in Int
    BY ScheduleAssumption, WordAssumption DEF Init, RetryPolicies, Durations
  <2> QED BY <2>1 DEF Init, WaitWithinCap
<1>2. TypeOK /\ WaitWithinCap /\ [Next]_vars => (TypeOK /\ WaitWithinCap)'
  BY TypeNext, CapNext
<1> QED BY <1>1, <1>2, PTL DEF Spec

\* The type invariant: every wait is a duration, no call makes more attempts
\* than its policy allows (client.go:266-305).
THEOREM TypeCorrect == Spec => []TypeOK
<1>1. TypeOK /\ WaitWithinCap => TypeOK
  OBVIOUS
<1> QED BY <1>1, ScheduleWithinCap, PTL

---------------------------------------------------------------------------
(* What a Retry-After names.                                               *)

\* A number of seconds that a duration holds.  The program's durations hold
\* 9,223,372,036 of them; what a greater number does is a finding.
NoHeaderWraps ==
  \A h \in Headers :
    HasRetryAfter(h) /\ h.form = "seconds" => h.value * Second < HalfWord

LEMMA WrapOfDuration ==
  ASSUME NEW n \in Durations
  PROVE  Wrap(n) = n
<1>1. HalfWord \in Nat \ {0} /\ n \in Int /\ n >= -HalfWord /\ n < HalfWord
  BY WordAssumption DEF Durations
<1>2. (n + HalfWord) % (2 * HalfWord) = n + HalfWord
  BY <1>1
<1> QED BY <1>1, <1>2 DEF Wrap

\* The wait after a header is the time it names, if there is one.
LEMMA WaitIsNamed ==
  ASSUME NoHeaderWraps, NEW p \in RetryPolicies, NEW n, NEW h \in Headers, HasRetryAfter(h),
         NEW w \in WaitsAfterProblem(p, n, h)
  PROVE  NamedWait(h) <= p.MaxDelay /\ w = NamedWait(h)
<1>1. h \in HeaderRecords /\ p.MaxDelay \in Int
  BY ScheduleAssumption, WordAssumption DEF RetryPolicies, Durations
<1>2. w = RetryAfter(h) /\ ~ RetryAfter(h) > p.MaxDelay
  BY DEF WaitsAfterProblem
<1>3. RetryAfter(h) = NamedWait(h) /\ NamedWait(h) \in Int
  <2>1. CASE h.form = "date"
    <3>1. h.value \in Int
      BY <1>1, <2>1 DEF HeaderRecords
    <3> QED BY <2>1, <3>1 DEF RetryAfter, NamedWait
  <2>2. CASE h.form = "seconds"
    <3>1. h.value \in 0 .. HalfWord - 1 /\ h.value * Second < HalfWord
      BY <2>2 DEF HasRetryAfter, NoHeaderWraps
    <3>2. HalfWord \in Nat \ {0} /\ Second \in Nat \ {0}
      BY WordAssumption
    <3>3. h.value * Second \in Int /\ h.value * Second >= 0
      BY <3>1, <3>2
    <3>4. h.value * Second \in Durations
      BY <3>1, <3>2, <3>3 DEF Durations
    <3> QED BY <2>2, <3>3, <3>4, WrapOfDuration DEF RetryAfter, NamedWait
  <2> QED BY <2>1, <2>2 DEF HasRetryAfter
<1> QED BY <1>1, <1>2, <1>3

\* A Retry-After within the cap is waited out in full, one past it ends the
\* call (client.go:82-84), unless the number of seconds wraps.
THEOREM NamedTimeIsKept ==
  ASSUME NoHeaderWraps
  PROVE  Spec => RetryAfterHonoured
<1> DEFINE Kept == (attempt' = attempt + 1 /\ HasRetryAfter(header'))
                     => NamedWait(header') <= policy.MaxDelay /\ wait' = NamedWait(header')
<1>1. TypeOK /\ [Next]_vars => [Kept]_vars
  <2> SUFFICES ASSUME TypeOK, Next, attempt' = attempt + 1, HasRetryAfter(header')
               PROVE  NamedWait(header') <= policy.MaxDelay /\ wait' = NamedWait(header')
    OBVIOUS
  <2>1. policy \in RetryPolicies /\ attempt \in Int
    BY ScheduleAssumption DEF TypeOK, RetryPolicies
  <2>2. ~ WaitAfterTransport
    BY DEF WaitAfterTransport, HasRetryAfter, NoHeader
  <2>3. CASE WaitAfterStatus
    <3>1. PICK h \in Headers : wait' \in WaitsAfterProblem(policy, attempt, h) /\ header' = h
      BY <2>3 DEF WaitAfterStatus
    <3> QED BY <2>1, <3>1, WaitIsNamed
  <2>4. ~ HandBack
    <3>1. attempt + 1 # attempt
      BY <2>1
    <3> QED BY <3>1 DEF HandBack
  <2> QED BY <2>2, <2>3, <2>4 DEF Next
<1> QED BY <1>1, TypeCorrect, PTL DEF Spec, RetryAfterHonoured

---------------------------------------------------------------------------
(* Powers of two.                                                          *)

\* Counting subsets: those of 1 .. n + 1 without n + 1, and those with it.
LEMMA TwoToNext ==
  ASSUME NEW n \in Nat
  PROVE  2^(n + 1) = 2 * 2^n
<1> DEFINE S == 1 .. n
           T == 1 .. n + 1
           X == {A \in SUBSET T : n + 1 \in A}
           f == [A \in SUBSET S |-> A \union {n + 1}]
<1>1. /\ IsFiniteSet(S) /\ Cardinality(S) = n
      /\ IsFiniteSet(T) /\ Cardinality(T) = n + 1
  BY FS_Interval
<1>2. /\ IsFiniteSet(SUBSET S) /\ Cardinality(SUBSET S) = 2^n
      /\ IsFiniteSet(SUBSET T) /\ Cardinality(SUBSET T) = 2^(n + 1)
  BY <1>1, FS_SUBSET
<1>3. T = S \union {n + 1} /\ n + 1 \notin S
  OBVIOUS
<1> HIDE DEF S, T
<1>4. f \in Bijection(SUBSET S, X)
  <2>1. f \in [SUBSET S -> X]
    BY <1>3
  <2>2. \A A, B \in SUBSET S : f[A] = f[B] => A = B
    BY <1>3
  <2>3. \A C \in X : C \ {n + 1} \in SUBSET S /\ f[C \ {n + 1}] = C
    BY <1>3
  <2>4. f \in Injection(SUBSET S, X)
    BY <2>1, <2>2 DEF Injection, IsInjective
  <2>5. f \in Surjection(SUBSET S, X)
    BY <2>1, <2>3 DEF Surjection
  <2> QED BY <2>4, <2>5 DEF Bijection
<1>5. IsFiniteSet(X) /\ Cardinality(X) = 2^n
  BY <1>2, <1>4, FS_Bijection DEF ExistsBijection
<1>6. SUBSET T = (SUBSET S) \union X /\ (SUBSET S) \intersect X = {}
  BY <1>3
<1>7. Cardinality(SUBSET T) = Cardinality(SUBSET S) + Cardinality(X) - Cardinality({})
  BY <1>2, <1>5, <1>6, FS_Union
<1>8. Cardinality({}) = 0
  BY FS_EmptySet
<1>9. 2^n \in Int
  OBVIOUS
<1> QED BY <1>2, <1>5, <1>7, <1>8, <1>9

LEMMA TwoToPositive ==
  ASSUME NEW n \in Nat
  PROVE  2^n \in Nat \ {0}
<1> DEFINE Not == {k \in Nat : 2^k \notin Nat \ {0}}
<1>1. ASSUME NEW k \in Not, \A j \in Not : k <= j PROVE FALSE
  <2>1. k # 0
    <3>1. 2^0 = 1 /\ 1 \in Nat \ {0}
      OBVIOUS
    <3>2. 2^k \notin Nat \ {0}
      OBVIOUS
    <3> QED BY <3>1, <3>2
  <2>2. k - 1 \in Nat /\ ~ k <= k - 1
    BY <2>1
  <2>3. 2^(k - 1) \in Nat \ {0}
    BY <1>1, <2>2
  <2>4. 2^((k - 1) + 1) = 2 * 2^(k - 1) /\ (k - 1) + 1 = k
    BY <2>2, TwoToNext
  <2> DEFINE half == 2^(k - 1)
             whole == 2^k
  <2>5. whole = 2 * half /\ half \in Nat \ {0} /\ whole \notin Nat \ {0}
    BY <2>3, <2>4
  <2> HIDE DEF half, whole
  <2> QED BY <2>5
<1> HIDE DEF Not
<1>2. Not \subseteq Nat
  BY DEF Not
<1>3. Not = {}
  BY <1>1, <1>2, Least
<1> QED BY <1>3 DEF Not

LEMMA TwoToSum ==
  ASSUME NEW m \in Nat, NEW n \in Nat
  PROVE  2^(m + n) = 2^m * 2^n
<1> DEFINE Not == {k \in Nat : 2^(m + k) # 2^m * 2^k}
<1>1. ASSUME NEW k \in Not, \A j \in Not : k <= j PROVE FALSE
  <2>0. 2^m \in Nat /\ 2^k \in Nat
    BY TwoToPositive
  <2>1. k # 0
    <3>1. 2^0 = 1 /\ m + 0 = m
      OBVIOUS
    <3>2. 2^m * 1 = 2^m
      BY <2>0
    <3> QED BY <3>1, <3>2
  <2>2. k - 1 \in Nat /\ ~ k <= k - 1 /\ m + (k - 1) \in Nat
    BY <2>1
  <2>3. 2^(m + (k - 1)) = 2^m * 2^(k - 1)
    BY <1>1, <2>2
  <2>4. 2^((k - 1) + 1) = 2 * 2^(k - 1) /\ (k - 1) + 1 = k
    BY <2>2, TwoToNext
  <2>5. 2^((m + (k - 1)) + 1) = 2 * 2^(m + (k - 1)) /\ (m + (k - 1)) + 1 = m + k
    BY <2>2, TwoToNext
  <2>6. 2^(k - 1) \in Nat
    BY <2>2, TwoToPositive
  <2>7. 2 * (2^m * 2^(k - 1)) = 2^m * (2 * 2^(k - 1))
    BY <2>0, <2>6
  <2> QED BY <2>3, <2>4, <2>5, <2>7
<1> HIDE DEF Not
<1>2. Not \subseteq Nat
  BY DEF Not
<1>3. Not = {}
  BY <1>1, <1>2, Least
<1> QED BY <1>3 DEF Not

\* Of two powers of two the smaller divides the greater.
LEMMA PowersDivide ==
  ASSUME NEW w \in Nat, NEW n \in Nat
  PROVE  \/ \E c \in Nat \ {0} : 2^n * c = 2^w
         \/ \E c \in Nat \ {0} : 2^n = (2 * 2^w) * c
<1>1. CASE n <= w
  <2>1. w - n \in Nat /\ n + (w - n) = w
    BY <1>1
  <2>2. 2^(n + (w - n)) = 2^n * 2^(w - n) /\ 2^(w - n) \in Nat \ {0}
    BY <2>1, TwoToSum, TwoToPositive
  <2> QED BY <2>1, <2>2
<1>2. CASE ~ n <= w
  <2>1. n - (w + 1) \in Nat /\ w + 1 \in Nat /\ (w + 1) + (n - (w + 1)) = n
    BY <1>2
  <2>2. /\ 2^((w + 1) + (n - (w + 1))) = 2^(w + 1) * 2^(n - (w + 1))
        /\ 2^(n - (w + 1)) \in Nat \ {0}
    BY <2>1, TwoToSum, TwoToPositive
  <2>3. 2^(w + 1) = 2 * 2^w
    BY TwoToNext
  <2> QED BY <2>1, <2>2, <2>3
<1> QED BY <1>1, <1>2

LEMMA ProductGrows ==
  ASSUME NEW a \in Nat, NEW b \in Int, NEW c \in Int, b <= c
  PROVE  a * b <= a * c
OBVIOUS

---------------------------------------------------------------------------
(* The doubling of a backoff.                                              *)

\* A multiple of a base that was shifted past the cap does not come back
\* between zero and the cap when it wraps: either the shift has emptied the
\* word, or what is left is a multiple of the shift, which for a policy that
\* Fits is greater than the cap.
LEMMA EmptiedWord ==
  ASSUME NEW H \in Nat \ {0}, NEW b \in Nat \ {0}, NEW u \in Nat \ {0}, NEW c \in Nat \ {0},
         u = (2 * H) * c, NEW m \in Nat \ {0}, NEW q \in Int, b * u = m + (2 * H) * q
  PROVE  m >= 2 * H
<1> DEFINE k == b * c - q
           W == 2 * H
<1>1. k \in Int /\ W \in Nat \ {0}
  OBVIOUS
<1>2. b * u = W * (b * c)
  OBVIOUS
<1>3. W * (b * c) = m + W * q
  BY <1>2
<1>4. W * (b * c) - W * q = W * k
  OBVIOUS
<1>5. W * k = m /\ W * (b * c) \in Int /\ W * q \in Int
  BY <1>3, <1>4
<1> HIDE DEF k, W
<1>6. k >= 1
  <2>1. CASE k <= 0
    <3>1. W * k <= W * 0 /\ W * 0 = 0
      BY <1>1, <2>1, ProductGrows
    <3> QED BY <1>5, <3>1
  <2> QED BY <1>1, <2>1
<1>7. W * 1 <= W * k /\ W * 1 = W
  BY <1>1, <1>6, ProductGrows
<1> QED BY <1>5, <1>7 DEF W

LEMMA ShiftedWord ==
  ASSUME NEW H \in Nat \ {0}, NEW b \in Nat \ {0}, NEW u \in Nat \ {0}, NEW c \in Nat \ {0},
         u * c = H, NEW m \in Nat \ {0}, NEW q \in Nat \ {0}, b * u = m + (2 * H) * q
  PROVE  b * m >= 2 * H
<1> DEFINE k == b - (2 * c) * q
<1>1. k \in Int
  OBVIOUS
<1>2. (2 * H) * q = u * ((2 * c) * q)
  OBVIOUS
<1>3. m = u * k
  BY <1>2
<1>4. k = b - (2 * c) * q
  OBVIOUS
<1> HIDE DEF k
<1>5. k >= 1
  <2>1. CASE k <= 0
    <3>1. u * k <= u * 0 /\ u * 0 = 0
      BY <1>1, <2>1, ProductGrows
    <3> QED BY <1>3, <3>1
  <2> QED BY <1>1, <2>1
<1>6. u <= m
  <2>1. u * 1 <= u * k /\ u * 1 = u
    BY <1>1, <1>5, ProductGrows
  <2> QED BY <1>3, <2>1
<1>7. 2 * c <= b
  <2>1. (2 * c) * 1 <= (2 * c) * q /\ (2 * c) * 1 = 2 * c
    BY ProductGrows
  <2>2. 2 * c \in Int /\ (2 * c) * q \in Int
    OBVIOUS
  <2> QED BY <1>1, <1>4, <1>5, <2>1, <2>2
<1>8. b * u <= b * m /\ u * (2 * c) <= u * b
  BY <1>6, <1>7, ProductGrows
<1>9. u * (2 * c) = 2 * H /\ u * b = b * u
  OBVIOUS
<1>10. b * u \in Int /\ b * m \in Int
  OBVIOUS
<1> QED BY <1>8, <1>9, <1>10

\* The program's durations have 2^63 values on each side of zero.
WordOfBits == \E w \in Nat : HalfWord = 2^w

\* A stored integer differs from the integer by whole words.
LEMMA WrapByWords ==
  ASSUME NEW n \in Int
  PROVE  \E q \in Int : n = Wrap(n) + (2 * HalfWord) * q
<1> DEFINE W == 2 * HalfWord
           q == (n + HalfWord) \div W
           r == (n + HalfWord) % W
<1>1. HalfWord \in Nat \ {0} /\ W \in Nat \ {0}
  BY WordAssumption
<1> HIDE DEF W
<1>2. q \in Int /\ r \in Int /\ n + HalfWord = W * q + r
  BY <1>1
<1>3. Wrap(n) = r - HalfWord
  BY DEF Wrap, W
<1> HIDE DEF q, r
<1>4. W * q \in Int
  BY <1>1, <1>2
<1>5. n = Wrap(n) + W * q
  BY <1>1, <1>2, <1>3, <1>4
<1> QED BY <1>2, <1>5 DEF W

\* What the policy makes of the n-th doubling: the same, whether it wraps or
\* not.
LEMMA WrapPastCap ==
  ASSUME WordOfBits, NEW p \in RetryPolicies, Fits(p), p.BaseDelay > 0, p.MaxDelay > 0,
         NEW n \in Nat, p.BaseDelay * 2^n > p.MaxDelay,
         Wrap(p.BaseDelay * 2^n) > 0
  PROVE  Wrap(p.BaseDelay * 2^n) > p.MaxDelay
<1> DEFINE b == p.BaseDelay
           cap == p.MaxDelay
           u == 2^n
           m == Wrap(b * u)
           H == HalfWord
<1>1. b \in Nat \ {0} /\ cap \in Nat \ {0} /\ cap < H /\ b * cap < H /\ H \in Nat \ {0}
  BY WordAssumption DEF RetryPolicies, Durations, Fits
<1>2. u \in Nat \ {0}
  BY TwoToPositive
<1>3. \/ \E c \in Nat \ {0} : u * c = H
      \/ \E c \in Nat \ {0} : u = (2 * H) * c
  <2>1. PICK w \in Nat : H = 2^w
    BY DEF WordOfBits
  <2>2. \/ \E c \in Nat \ {0} : u * c = 2^w
        \/ \E c \in Nat \ {0} : u = (2 * 2^w) * c
    BY PowersDivide
  <2> HIDE DEF H, u
  <2> QED BY <2>1, <2>2
<1>4. b * u > cap /\ m > 0
  OBVIOUS
<1> HIDE DEF u
<1>5. b * u \in Int
  BY <1>1, <1>2
<1>6. m \in Int
  <2>1. m \in Durations
    BY <1>5, WrapIsDuration
  <2> QED BY <2>1, WordAssumption DEF Durations
<1>7. PICK q \in Int : b * u = m + (2 * H) * q
  BY <1>5, WrapByWords
<1> HIDE DEF m, b, cap, H
<1> SUFFICES ASSUME m <= cap PROVE FALSE
  <2>1. ~ m <= cap => m > cap
    BY <1>1, <1>6
  <2> QED BY <2>1 DEF m, b, cap, u
<1>8. m \in Nat \ {0}
  BY <1>4, <1>6
<1>9. CASE \E c \in Nat \ {0} : u = (2 * H) * c
  <2>1. m >= 2 * H
    BY <1>1, <1>2, <1>7, <1>8, <1>9, EmptiedWord
  <2> QED BY <1>1, <1>6, <2>1
<1>10. CASE \E c \in Nat \ {0} : u * c = H
  <2>1. q \in Nat \ {0}
    <3>1. CASE q <= 0
      <4>1. (2 * H) * q <= (2 * H) * 0 /\ (2 * H) * 0 = 0 /\ (2 * H) * q \in Int
        BY <1>1, <3>1, ProductGrows
      <4> QED BY <1>1, <1>4, <1>6, <1>7, <4>1
    <3> QED BY <3>1
  <2>2. b * m >= 2 * H
    BY <1>1, <1>2, <1>7, <1>8, <1>10, <2>1, ShiftedWord
  <2>3. b * m <= b * cap
    BY <1>1, <1>6, ProductGrows
  <2>4. b * m \in Int /\ b * cap \in Int
    BY <1>1, <1>6
  <2> QED BY <1>1, <2>2, <2>3, <2>4
<1> QED BY <1>3, <1>9, <1>10

\* The exact capped doubling, as a formula.
LEMMA ExactStepIs ==
  ASSUME NEW p \in RetryPolicies, p.BaseDelay > 0, p.MaxDelay > 0, NEW n \in Nat \ {0}
  PROVE  ExactStep(p, n) =
           IF p.BaseDelay * 2^(n - 1) > p.MaxDelay THEN p.MaxDelay
           ELSE p.BaseDelay * 2^(n - 1)
<1> DEFINE b == p.BaseDelay
           cap == p.MaxDelay
           Capped(d) == IF d > cap THEN cap ELSE d
           Solves(f) == f = [k \in 1 .. n |-> LET d == IF k = 1 THEN b ELSE 2 * f[k - 1]
                                              IN  IF d > cap THEN cap ELSE d]
           g == [k \in 1 .. n |-> Capped(b * 2^(k - 1))]
<1>1. b \in Nat \ {0} /\ cap \in Nat \ {0}
  BY WordAssumption DEF RetryPolicies, Durations
<1>2. ExactStep(p, n) = (CHOOSE f : Solves(f))[n]
  BY DEF ExactStep
<1> HIDE DEF b, cap
<1>3. /\ Capped(b * 2^0) = Capped(b)
      /\ \A k \in 2 .. n : Capped(2 * Capped(b * 2^(k - 2))) = Capped(b * 2^(k - 1))
  <2>1. 2^0 = 1 /\ b * 1 = b
    BY <1>1
  <2>2. ASSUME NEW k \in 2 .. n
        PROVE  Capped(2 * Capped(b * 2^(k - 2))) = Capped(b * 2^(k - 1))
    <3>1. k - 2 \in Nat /\ (k - 2) + 1 = k - 1
      OBVIOUS
    <3>2. 2^(k - 1) = 2 * 2^(k - 2) /\ 2^(k - 2) \in Nat
      BY <3>1, TwoToNext, TwoToPositive
    <3> DEFINE x == 2^(k - 2)
               y == b * x
    <3>3. b * 2^(k - 1) = 2 * y /\ y \in Nat
      BY <1>1, <3>2
    <3> HIDE DEF y
    <3>4. Capped(2 * Capped(y)) = Capped(2 * y)
      BY <1>1, <3>3
    <3> QED BY <3>3, <3>4 DEF y
  <2> QED BY <2>1, <2>2
<1>4. Solves(g)
  <2> SUFFICES ASSUME NEW k \in 1 .. n
               PROVE  g[k] = Capped(IF k = 1 THEN b ELSE 2 * g[k - 1])
    OBVIOUS
  <2>1. CASE k = 1
    <3>1. k - 1 = 0
      BY <2>1
    <3> QED BY <1>3, <2>1, <3>1
  <2>2. CASE k # 1
    <3>1. k \in 2 .. n /\ k - 1 \in 1 .. n /\ (k - 1) - 1 = k - 2
      BY <2>2
    <3>2. g[k - 1] = Capped(b * 2^(k - 2)) /\ g[k] = Capped(b * 2^(k - 1))
      BY <3>1
    <3> QED BY <1>3, <2>2, <3>1, <3>2
  <2> QED BY <2>1, <2>2
<1>5. ASSUME NEW f, Solves(f) PROVE f[n] = g[n]
  <2> DEFINE Differ == {k \in 1 .. n : f[k] # g[k]}
  <2>1. ASSUME NEW k \in Differ, \A j \in Differ : k <= j PROVE FALSE
    <3>1. f[k] = Capped(IF k = 1 THEN b ELSE 2 * f[k - 1])
      BY <1>5
    <3>2. g[k] = Capped(IF k = 1 THEN b ELSE 2 * g[k - 1])
      BY <1>4
    <3>3. k # 1 => k - 1 \in 1 .. n /\ ~ k <= k - 1
      OBVIOUS
    <3>4. k # 1 => f[k - 1] = g[k - 1]
      BY <2>1, <3>3
    <3> QED BY <3>1, <3>2, <3>4
  <2> HIDE DEF Differ
  <2>2. Differ \subseteq Nat
    BY DEF Differ
  <2>3. Differ = {}
    BY <2>1, <2>2, Least
  <2>4. n \in 1 .. n
    OBVIOUS
  <2> QED BY <2>3, <2>4 DEF Differ
<1>6. (CHOOSE f : Solves(f))[n] = g[n]
  <2>1. Solves(CHOOSE f : Solves(f))
    BY <1>4
  <2> QED BY <1>5, <2>1
<1>7. g[n] = Capped(b * 2^(n - 1))
  OBVIOUS
<1> QED BY <1>2, <1>6, <1>7 DEF b, cap

\* The step that backoff computes is the exact one.
LEMMA CappedStepIsExact ==
  ASSUME WordOfBits, NEW p \in RetryPolicies, Fits(p), p.BaseDelay > 0, p.MaxDelay > 0,
         NEW n \in Nat \ {0}
  PROVE  CappedStep(p, n) = ExactStep(p, n) /\ ExactStep(p, n) \in Nat \ {0}
<1> DEFINE x == p.BaseDelay * 2^(n - 1)
           cap == p.MaxDelay
<1>0. n - 1 \in Nat
  OBVIOUS
<1>1. ExactStep(p, n) = IF x > cap THEN cap ELSE x
  BY ExactStepIs
<1>2. CappedStep(p, n) = IF Wrap(x) > cap \/ Wrap(x) <= 0 THEN cap ELSE Wrap(x)
  BY DEF CappedStep
<1>3. x > cap /\ Wrap(x) > 0 => Wrap(x) > cap
  BY <1>0, WrapPastCap
<1>4. x \in Nat \ {0} /\ cap \in Nat \ {0} /\ cap < HalfWord
  <2>1. p.BaseDelay \in Nat \ {0} /\ 2^(n - 1) \in Nat \ {0}
    BY <1>0, TwoToPositive, WordAssumption DEF RetryPolicies, Durations
  <2>2. cap \in Nat \ {0} /\ cap < HalfWord
    BY WordAssumption DEF RetryPolicies, Durations
  <2>3. \A i, j \in Nat \ {0} : i * j \in Nat \ {0}
    <3> SUFFICES ASSUME NEW i \in Nat \ {0}, NEW j \in Nat \ {0} PROVE i * j \in Nat \ {0}
      OBVIOUS
    <3>1. i * 1 <= i * j /\ i * 1 = i /\ i * j \in Int
      BY ProductGrows
    <3> QED BY <3>1
  <2> QED BY <2>1, <2>2, <2>3
<1> HIDE DEF x, cap
<1>5. x <= cap => Wrap(x) = x
  <2>1. x <= cap => x \in Durations
    BY <1>4, WordAssumption DEF Durations
  <2> QED BY <2>1, WrapOfDuration
<1>6. Wrap(x) \in Int
  <2>1. Wrap(x) \in Durations
    BY <1>4, WrapIsDuration
  <2> QED BY <2>1, WordAssumption DEF Durations
<1> QED BY <1>1, <1>2, <1>3, <1>4, <1>5, <1>6

LEMMA BackoffOfExactStep ==
  ASSUME WordOfBits, NEW p \in RetryPolicies, Fits(p), p.BaseDelay > 0, p.MaxDelay > 0,
         NEW n \in Nat \ {0}, NEW w \in Backoff(p, n)
  PROVE  w <= ExactStep(p, n) /\ 2 * w >= ExactStep(p, n) - 1
<1> DEFINE step == CappedStep(p, n)
<1>1. step = ExactStep(p, n) /\ step \in Nat \ {0}
  BY CappedStepIsExact
<1>2. p.BaseDelay \in Int
  BY WordAssumption DEF RetryPolicies, Durations
<1>3. Backoff(p, n) = IF p.BaseDelay <= 0 \/ step <= 0 THEN {0}
                      ELSE (step \div 2) .. 2 * (step \div 2)
  BY DEF Backoff
<1> HIDE DEF step
<1>4. w \in (step \div 2) .. 2 * (step \div 2)
  BY <1>1, <1>2, <1>3
<1>5. step \div 2 \in Int /\ 2 * (step \div 2) <= step /\ step - 1 <= 2 * (step \div 2)
  BY <1>1
<1>6. w <= step /\ 2 * w >= step - 1
  BY <1>1, <1>4, <1>5
<1> QED BY <1>1, <1>6

\* The machine arithmetic of backoff draws from at least half and at most the
\* whole of the exact capped doubling, for every width of a duration and
\* every attempt, however often the shift has wrapped (client.go:364-373), if
\* the product of the two delays is a duration.
THEOREM BackoffDoubles ==
  ASSUME WordOfBits
  PROVE  Spec => BackoffIsCappedDoubling
<1> DEFINE Waited == /\ attempt' = attempt + 1
                     /\ ~ HasRetryAfter(header')
                     /\ Fits(policy) /\ policy.BaseDelay > 0 /\ policy.MaxDelay > 0
           Exact == LET step == ExactStep(policy, attempt)
                    IN  wait' <= step /\ 2 * wait' >= step - 1
<1>1. TypeOK /\ [Next]_vars => [Waited => Exact]_vars
  <2> SUFFICES ASSUME TypeOK, Next, Waited PROVE Exact
    OBVIOUS
  <2>1. policy \in RetryPolicies /\ attempt \in Nat \ {0}
    BY ScheduleAssumption DEF TypeOK, RetryPolicies
  <2>2. wait' \in Backoff(policy, attempt)
    <3>1. CASE WaitAfterTransport
      BY <3>1 DEF WaitAfterTransport
    <3>2. CASE WaitAfterStatus
      <4>1. PICK h \in Headers : wait' \in WaitsAfterProblem(policy, attempt, h) /\ header' = h
        BY <3>2 DEF WaitAfterStatus
      <4> QED BY <4>1 DEF WaitsAfterProblem
    <3>3. ~ HandBack
      <4>1. attempt + 1 # attempt
        BY <2>1
      <4> QED BY <4>1 DEF HandBack
    <3> QED BY <3>1, <3>2, <3>3 DEF Next
  <2> QED BY <2>1, <2>2, BackoffOfExactStep
<1> QED BY <1>1, TypeCorrect, PTL DEF Spec, BackoffIsCappedDoubling

---------------------------------------------------------------------------
(* What New builds.                                                        *)

\* A policy as a caller may write it.
AnyPolicies == [MaxAttempts : Int, BaseDelay : Durations, MaxDelay : Durations]

Options ==
  {WithHTTPClient(h) : h \in STRING} \union {WithUserAgent(ua) : ua \in STRING}
    \union {WithRetryPolicy(p) : p \in AnyPolicies} \union {WithoutRetries}

Built(b, cred, http, ua, p, r) ==
  [base |-> b, cred |-> cred, http |-> http, userAgent |-> ua, retry |-> p, redirects |-> r]

\* A client whose policy do can work with.
Usable(c) ==
  \E b, cred, http, ua, r : \E p \in RetryPolicies : c = Built(b, cred, http, ua, p, r)

LEMMA FreshIsUsable ==
  ASSUME NEW b, NEW cred
  PROVE  Usable(Fresh(b, cred))
<1>1. Second \div 5 \in Durations /\ 5 * Second \in Durations
  BY DefaultsAssumption, WordAssumption DEF Durations
<1>2. DefaultRetryPolicy \in RetryPolicies
  BY <1>1 DEF DefaultRetryPolicy, RetryPolicies
<1>3. Fresh(b, cred) = Built(b, cred, "own", <<"sdk">>, DefaultRetryPolicy, "follow")
  BY DEF Fresh, Built
<1> QED BY <1>2, <1>3 DEF Usable

LEMMA ApplyKeepsUsable ==
  ASSUME NEW c, Usable(c), NEW o \in Options
  PROVE  Usable(Apply(c, o))
<1>1. PICK b, cred, http, ua, r : \E p \in RetryPolicies : c = Built(b, cred, http, ua, p, r)
  BY DEF Usable
<1>2. PICK p \in RetryPolicies : c = Built(b, cred, http, ua, p, r)
  BY <1>1
<1>3. ASSUME NEW h, o = WithHTTPClient(h) PROVE Usable(Apply(c, o))
  <2>1. Apply(c, o) \in {c, Built(b, cred, h, ua, p, r)}
    BY <1>2, <1>3 DEF Apply, WithHTTPClient, Built
  <2> QED BY <1>2, <2>1 DEF Usable
<1>4. ASSUME NEW a, o = WithUserAgent(a) PROVE Usable(Apply(c, o))
  <2>1. Apply(c, o) \in {c, Built(b, cred, http, <<a, "sdk">>, p, r)}
    BY <1>2, <1>4 DEF Apply, WithUserAgent, Built
  <2> QED BY <1>2, <2>1 DEF Usable
<1>5. ASSUME NEW q \in AnyPolicies, o = WithRetryPolicy(q) PROVE Usable(Apply(c, o))
  <2>1. Apply(c, o) = Built(b, cred, http, ua, Clamped(q), r)
    BY <1>2, <1>5 DEF Apply, WithRetryPolicy, Built
  <2>2. PICK n \in Nat \ {0} : Clamped(q) = [q EXCEPT !.MaxAttempts = n]
    BY DEF Clamped, AnyPolicies
  <2>3. Clamped(q) \in RetryPolicies
    BY <2>2 DEF AnyPolicies, RetryPolicies
  <2> QED BY <2>1, <2>3 DEF Usable
<1>6. CASE o = WithoutRetries
  <2>1. Apply(c, o) = Built(b, cred, http, ua, [p EXCEPT !.MaxAttempts = 1], r)
    BY <1>2, <1>6 DEF Apply, WithoutRetries, Built
  <2>2. [p EXCEPT !.MaxAttempts = 1] \in RetryPolicies
    BY DEF RetryPolicies
  <2> QED BY <2>1, <2>2 DEF Usable
<1> QED BY <1>3, <1>4, <1>5, <1>6 DEF Options

\* Whatever list of options New is given, the client it builds makes at least
\* one attempt, waits by two durations and follows no redirect (client.go:
\* 143-205): what modules RetrySchedule, Problem and Client assume of a policy
\* holds of every client there is.
THEOREM NewIsUsable ==
  ASSUME NEW baseURL, NEW cred, NEW opts \in Seq(Options), New(baseURL, cred, opts).error = "nil"
  PROVE  LET client == New(baseURL, cred, opts).client
         IN  client.retry \in RetryPolicies /\ client.redirects = "refuse"
<1> DEFINE n == Len(opts)
           Solves(f) == f = [k \in 0 .. n |-> IF k = 0 THEN Fresh(baseURL, cred)
                                              ELSE Apply(f[k - 1], opts[k])]
           last == (CHOOSE f : Solves(f))[n]
<1>1. n \in Nat /\ \A k \in 1 .. n : opts[k] \in Options
  OBVIOUS
<1>2. /\ Refusal(baseURL, cred) = "nil"
      /\ New(baseURL, cred, opts).client = [last EXCEPT !.redirects = "refuse"]
  <2>1. New(baseURL, cred, opts) =
          IF Refusal(baseURL, cred) # "nil" THEN [error |-> Refusal(baseURL, cred)]
          ELSE [error |-> "nil", client |-> [last EXCEPT !.redirects = "refuse"]]
    BY DEF New
  <2> HIDE DEF last
  <2>2. CASE Refusal(baseURL, cred) # "nil"
    BY <2>1, <2>2
  <2>3. CASE Refusal(baseURL, cred) = "nil"
    BY <2>1, <2>3
  <2> QED BY <2>2, <2>3
<1> HIDE DEF n
<1>3. \E f : Solves(f)
  <2> DEFINE SolvesTo(f, m) == f = [k \in 0 .. m |-> IF k = 0 THEN Fresh(baseURL, cred)
                                                     ELSE Apply(f[k - 1], opts[k])]
             Not == {m \in Nat : ~ \E f : SolvesTo(f, m)}
  <2>1. ASSUME NEW m \in Not, \A j \in Not : m <= j PROVE FALSE
    <3>1. CASE m = 0
      <4>1. SolvesTo([k \in 0 .. 0 |-> Fresh(baseURL, cred)], 0)
        OBVIOUS
      <4> QED BY <3>1, <4>1
    <3>2. CASE m # 0
      <4>1. m - 1 \in Nat /\ ~ m <= m - 1
        BY <3>2
      <4>2. PICK f : SolvesTo(f, m - 1)
        BY <2>1, <4>1
      <4> DEFINE g == [k \in 0 .. m |-> IF k = m THEN Apply(f[m - 1], opts[m]) ELSE f[k]]
      <4>3. \A k \in 0 .. m - 1 : g[k] = f[k]
        OBVIOUS
      <4>4. ASSUME NEW k \in 0 .. m
            PROVE  g[k] = IF k = 0 THEN Fresh(baseURL, cred) ELSE Apply(g[k - 1], opts[k])
        <5>1. CASE k = m
          <6>1. g[k] = Apply(f[m - 1], opts[m]) /\ g[m - 1] = f[m - 1]
            BY <4>1, <4>3, <5>1
          <6> QED BY <3>2, <5>1, <6>1
        <5>2. CASE k # m
          <6>1. k \in 0 .. m - 1 /\ g[k] = f[k] /\ (k # 0 => g[k - 1] = f[k - 1])
            BY <4>3, <5>2
          <6>2. f[k] = IF k = 0 THEN Fresh(baseURL, cred) ELSE Apply(f[k - 1], opts[k])
            BY <4>2, <6>1
          <6> QED BY <6>1, <6>2
        <5> QED BY <5>1, <5>2
      <4>5. SolvesTo(g, m)
        BY <4>4
      <4> QED BY <4>5
    <3> QED BY <3>1, <3>2
  <2> HIDE DEF Not
  <2>2. Not \subseteq Nat
    BY DEF Not
  <2>3. Not = {}
    BY <2>1, <2>2, Least
  <2> QED BY <1>1, <2>3 DEF Not
<1>4. ASSUME NEW f, Solves(f) PROVE Usable(f[n])
  <2> DEFINE Not == {k \in 0 .. n : ~ Usable(f[k])}
  <2>1. ASSUME NEW k \in Not, \A j \in Not : k <= j PROVE FALSE
    <3>1. f[k] = IF k = 0 THEN Fresh(baseURL, cred) ELSE Apply(f[k - 1], opts[k])
      BY <1>4
    <3>2. CASE k = 0
      BY <3>1, <3>2, FreshIsUsable
    <3>3. CASE k # 0
      <4>1. k - 1 \in 0 .. n /\ ~ k <= k - 1 /\ k \in 1 .. n
        BY <1>1, <3>3
      <4>2. Usable(f[k - 1])
        BY <2>1, <4>1
      <4> QED BY <1>1, <3>1, <3>3, <4>1, <4>2, ApplyKeepsUsable
    <3> QED BY <3>2, <3>3
  <2> HIDE DEF Not
  <2>2. Not \subseteq Nat
    BY <1>1 DEF Not
  <2>3. Not = {}
    BY <2>1, <2>2, Least
  <2>4. n \in 0 .. n
    BY <1>1
  <2> QED BY <2>3, <2>4 DEF Not
<1>5. Usable(last)
  <2>1. Solves(CHOOSE f : Solves(f))
    BY <1>3
  <2> QED BY <1>4, <2>1
<1> HIDE DEF last
<1>6. PICK b, c, http, ua, r : \E p \in RetryPolicies : last = Built(b, c, http, ua, p, r)
  BY <1>5 DEF Usable
<1>7. PICK p \in RetryPolicies : last = Built(b, c, http, ua, p, r)
  BY <1>6
<1>8. /\ [last EXCEPT !.redirects = "refuse"].retry = p
      /\ [last EXCEPT !.redirects = "refuse"].redirects = "refuse"
  BY <1>7 DEF Built
<1> QED BY <1>2, <1>8
===============================================================================
