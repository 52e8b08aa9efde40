------------------------------ MODULE ProblemProofs ------------------------------
(***************************************************************************)
(* Proofs about Problem, for every set of statuses, codes and claims and   *)
(* every policy.  All of them rest on one fact: between two responses the  *)
(* problem is exactly what decodeProblem makes of the latest one.          *)
(***************************************************************************)
EXTENDS Problem, TLAPS

\* The problem at hand is the decoding of the response at hand.
Current ==
  /\ status = 0 => problem = Blank /\ ~ returned
  /\ status # 0 => status \in Statuses /\ problem = DecodeProblem(status, body)

\* What decodeProblem returns: the status of the wire, and the code of the
\* body if that decoded, else none (errors.go:266-285).
LEMMA Decoding ==
  ASSUME NEW s, NEW b
  PROVE  /\ DecodeProblem(s, b).Status = s
         /\ DecodeProblem(s, b).Code = IF b.decodes = "whole" THEN b.code ELSE ""
<1> DEFINE raw == IF b.decodes = "whole" THEN Decoded(b) ELSE Blank
           titled == Titled(raw)
<1>1. /\ raw = [Status |-> raw.Status, Code |-> raw.Code, Title |-> raw.Title]
      /\ raw.Code = IF b.decodes = "whole" THEN b.code ELSE ""
  BY DEF Decoded, Blank
<1>2. DecodeProblem(s, b) = [titled EXCEPT !.Status = s]
  BY DEF DecodeProblem
<1> HIDE DEF raw
<1>3. titled = [Status |-> raw.Status, Code |-> raw.Code, Title |-> titled.Title]
  BY <1>1 DEF Titled
<1> HIDE DEF titled
<1>4. /\ [titled EXCEPT !.Status = s].Status = s
      /\ [titled EXCEPT !.Status = s].Code = raw.Code
  BY <1>3
<1> QED BY <1>1, <1>2, <1>4

\* A problem that was decoded has the wire's status, a code of the envelope's
\* or none, and a text.
LEMMA DecodedIsProblem ==
  ASSUME NEW s \in Statuses, NEW b \in Bodies
  PROVE  DecodeProblem(s, b) \in Problems
<1> DEFINE raw == IF b.decodes = "whole" THEN Decoded(b) ELSE Blank
           titled == Titled(raw)
<1>1. "" \in Codes /\ b.code \in Codes
  BY ProblemAssumption DEF Bodies
<1>2. PICK status0, code, title :
        /\ raw = [Status |-> status0, Code |-> code, Title |-> title]
        /\ code \in Codes /\ title \in {"", "envelope text"}
  <2>1. CASE b.decodes = "whole"
    <3>1. raw = [Status |-> b.claim, Code |-> b.code,
                 Title |-> IF b.titled THEN "envelope text" ELSE ""]
      BY <2>1 DEF Decoded
    <3> QED BY <1>1, <3>1
  <2>2. CASE b.decodes # "whole"
    <3>1. raw = [Status |-> 0, Code |-> "", Title |-> ""]
      BY <2>2 DEF Blank
    <3> QED BY <1>1, <3>1
  <2> QED BY <2>1, <2>2
<1>3. DecodeProblem(s, b) = [titled EXCEPT !.Status = s]
  BY DEF DecodeProblem
<1> HIDE DEF raw
<1>4. PICK text \in {"envelope text", "status text"} :
        titled = [Status |-> status0, Code |-> code, Title |-> text]
  BY <1>2 DEF Titled
<1> HIDE DEF titled
<1>5. DecodeProblem(s, b) = [Status |-> s, Code |-> code, Title |-> text]
  BY <1>3, <1>4
<1>6. [Status |-> s, Code |-> code, Title |-> text] \in Problems
  BY <1>2 DEF Problems
<1> QED BY <1>5, <1>6

LEMMA AttemptsAreNatural == Policy.MaxAttempts \in Nat \ {0}
BY ProblemAssumption DEF RetryPolicies

LEMMA TypeNext == TypeOK /\ [Next]_vars => TypeOK'
<1> SUFFICES ASSUME TypeOK, [Next]_vars PROVE TypeOK'
  OBVIOUS
<1>1. CASE Respond
  <2>1. PICK s \in Statuses, b \in Bodies :
          status' = s /\ body' = b /\ problem' = DecodeProblem(s, b)
    BY <1>1 DEF Respond
  <2>2. problem' \in Problems
    BY <2>1, DecodedIsProblem
  <2> QED BY <1>1, <2>1, <2>2 DEF Respond, TypeOK
<1>2. CASE TryAgain
  <2>0. attempt \in 1 .. Policy.MaxAttempts
    BY DEF TypeOK
  <2>1. attempt \in Nat /\ attempt < Policy.MaxAttempts /\ attempt' = attempt + 1
    BY <1>2, <2>0, AttemptsAreNatural DEF TryAgain, Retryable
  <2>2. attempt + 1 \in 1 .. Policy.MaxAttempts
    BY <2>1, AttemptsAreNatural
  <2> QED BY <1>2, <2>1, <2>2 DEF TryAgain, TypeOK
<1>3. CASE Return
  BY <1>3 DEF Return, TypeOK
<1>4. CASE UNCHANGED vars
  BY <1>4 DEF vars, TypeOK
<1> QED BY <1>1, <1>2, <1>3, <1>4 DEF Next

\* Every variable keeps its type: there are no more attempts than the policy
\* allows, and a problem at hand always has a text, whatever the body was
\* (errors.go:275-280).
THEOREM TypeCorrect == Spec => []TypeOK
<1>1. Init => TypeOK
  <2> SUFFICES ASSUME Init PROVE TypeOK
    OBVIOUS
  <2>1. 1 \in 1 .. Policy.MaxAttempts
    BY AttemptsAreNatural
  <2>2. body = [decodes |-> "not", code |-> "", claim |-> 0, titled |-> FALSE]
    BY DEF Init
  <2> QED BY <2>1, <2>2 DEF Init, TypeOK
<1> QED BY <1>1, TypeNext, PTL DEF Spec

LEMMA NoStatusIsZero == \A s \in Statuses : s # 0
<1>1. Statuses \subseteq 400 .. 599
  BY ProblemAssumption
<1>2. \A s \in 400 .. 599 : s >= 400
  OBVIOUS
<1>3. \A s : s >= 400 => s # 0
  OBVIOUS
<1> QED BY <1>1, <1>2, <1>3

\* In every reachable state the problem is the latest response's: nothing of
\* an earlier attempt is left in it.
THEOREM ProblemIsCurrent == Spec => []Current
<1>1. Init => Current
  BY DEF Init, Current
<1>2. Current /\ [Next]_vars => Current'
  <2> SUFFICES ASSUME Current, [Next]_vars PROVE Current'
    OBVIOUS
  <2>1. CASE Respond
    <3>1. PICK s \in Statuses, b \in Bodies :
            status' = s /\ body' = b /\ problem' = DecodeProblem(s, b)
      BY <2>1 DEF Respond
    <3>2. s # 0
      BY NoStatusIsZero
    <3> QED BY <2>1, <3>1, <3>2 DEF Current, Respond
  <2>2. CASE TryAgain
    BY <2>2 DEF Current, TryAgain
  <2>3. CASE Return
    BY <2>3 DEF Current, Return
  <2>4. CASE UNCHANGED vars
    BY <2>4 DEF Current, vars
  <2> QED BY <2>1, <2>2, <2>3, <2>4 DEF Next
<1> QED BY <1>1, <1>2, PTL DEF Spec

LEMMA ReturnedStatus ==
  ASSUME Current, returned
  PROVE  problem.Status = status
<1>1. problem = DecodeProblem(status, body)
  BY DEF Current
<1> QED BY <1>1, Decoding

\* A code is never taken from a body that failed to decode.
THEOREM CodeOfAWholeBody == Spec => []CodeIsFromAWholeBody
<1>1. Current => CodeIsFromAWholeBody
  <2> SUFFICES ASSUME Current, problem.Code # ""
               PROVE  body.decodes = "whole" /\ body.code = problem.Code
    BY DEF CodeIsFromAWholeBody
  <2>1. Blank.Code = ""
    BY DEF Blank
  <2>2. problem = DecodeProblem(status, body)
    BY <2>1 DEF Current
  <2>3. problem.Code = IF body.decodes = "whole" THEN body.code ELSE ""
    BY <2>2, Decoding
  <2> QED BY <2>3
<1> QED BY <1>1, ProblemIsCurrent, PTL

\* The class a caller finds is the wire's, or its code's own.
THEOREM ClassFollowsTheWire == Spec => []ClassIsTheWires
<1>1. Current => ClassIsTheWires
  <2> SUFFICES ASSUME Current, returned,
                      NEW class \in Classes \intersect Unwrap(problem)
               PROVE  \/ class \in StatusSentinel(status)
                      \/ /\ problem.Code \in DOMAIN ClassOfCode
                         /\ class = ClassOfCode[problem.Code]
    BY DEF ClassIsTheWires
  <2>1. problem.Status = status
    BY ReturnedStatus
  <2>2. CASE class \in StatusSentinel(problem.Status)
    BY <2>1, <2>2
  <2>3. CASE class \in CodeSentinel(problem.Code)
    BY <2>3, CodesAreNotClasses DEF CodeSentinel
  <2> QED BY <2>2, <2>3 DEF Unwrap
<1> QED BY <1>1, ProblemIsCurrent, PTL

\* A failure worth retrying is recognisable by its class, whatever the body.
THEOREM RetryableHasClass == Spec => []RetryableIsRecognised
<1>1. Current => RetryableIsRecognised
  <2> SUFFICES ASSUME Current, returned, status \in {429, 500, 502, 503, 504}
               PROVE  Unwrap(problem) \intersect {"ErrServer", "ErrRateLimited"} # {}
    BY DEF RetryableIsRecognised
  <2>1. problem.Status = status
    BY ReturnedStatus
  <2>2. CASE status = 429
    <3>1. StatusSentinel(status) = {"ErrRateLimited"}
      BY <2>2 DEF StatusSentinel, ClassOf
    <3> QED BY <2>1, <3>1 DEF Unwrap
  <2>3. CASE status # 429
    <3>1. status >= 500 /\ status \notin DOMAIN ClassOf
      BY <2>3 DEF ClassOf
    <3>2. StatusSentinel(status) = {"ErrServer"}
      BY <3>1 DEF StatusSentinel
    <3> QED BY <2>1, <3>2 DEF Unwrap
  <2> QED BY <2>2, <2>3
<1> QED BY <1>1, ProblemIsCurrent, PTL
===============================================================================
