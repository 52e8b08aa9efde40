--------------------------------- MODULE Problem ---------------------------------
(***************************************************************************)
(* The error a caller gets for an HTTP problem (errors.go), over the       *)
(* attempts of one call: each response is decoded into a Problem, the call *)
(* tries again while its policy lets it, and the last problem is what the  *)
(* caller branches on with errors.Is.                                      *)
(***************************************************************************)
EXTENDS RetryDelay

CONSTANTS
  Statuses,     \* statuses on the wire, in the problem range
  Claims,       \* statuses an envelope may claim, 0 if it claims none
  Codes,        \* problem codes an envelope may carry
  Documented,   \* those in codeSentinels
  Policy        \* Client.retry

\* The documented codes whose sentinel is a class of status.
ClassOfCode == [code \in {"forbidden", "rate_limited"} |->
                  IF code = "forbidden" THEN "ErrForbidden" ELSE "ErrRateLimited"]

ASSUME ProblemAssumption ==
  /\ Statuses \subseteq 400 .. 599
  /\ Claims \subseteq Nat
  /\ Documented \subseteq Codes
  /\ "" \in Codes \ Documented
  /\ DOMAIN ClassOfCode \subseteq Documented
  /\ Policy \in RetryPolicies

VARIABLES
  replaySafe,   \* a read, or a write with a key
  attempt,      \* the loop variable of `do`
  status,       \* the latest error response's, 0 before it has come
  body,         \* and its body
  problem,      \* what decodeProblem made of them
  returned      \* the caller has the problem

vars == <<replaySafe, attempt, status, body, problem, returned>>

\* A body that is problem+json, one that has a field of the wrong type, and
\* one that is no JSON value at all.
Bodies ==
  [decodes : {"whole", "partly", "not"}, code : Codes, claim : Claims, titled : BOOLEAN]

Problems == [Status : Statuses, Code : Codes, Title : {"envelope text", "status text"}]

Blank == [Status |-> 0, Code |-> "", Title |-> ""]

\* What json.Decode has assigned when it returns; for a field of the wrong
\* type it reports the failure and assigns the others.
Decoded(b) ==
  IF b.decodes = "not" THEN Blank
  ELSE [Status |-> b.claim, Code |-> b.code, Title |-> IF b.titled THEN "envelope text" ELSE ""]

\* Faulty variant: no text of its own for a problem that has none.
TitledNot(p) == p

Titled(p) == IF p.Title = "" THEN [p EXCEPT !.Title = "status text"] ELSE p

\* Faulty variants: a failed decoding not undone; the envelope's status kept.
DecodeProblemNotReset(s, b) == [Titled(Decoded(b)) EXCEPT !.Status = s]

DecodeProblemTrusting(s, b) ==
  LET p == Titled(IF b.decodes = "whole" THEN Decoded(b) ELSE Blank)
  IN  IF p.Status = 0 THEN [p EXCEPT !.Status = s] ELSE p

\* A failed decoding leaves a blank problem; the status is the wire's.
DecodeProblem(s, b) ==
  [Titled(IF b.decodes = "whole" THEN Decoded(b) ELSE Blank) EXCEPT !.Status = s]

---------------------------------------------------------------------------
(* Sentinels: what errors.Is finds.                                        *)

ClassOf ==
  [s \in {400, 401, 403, 404, 409, 422, 429} |->
     CASE s = 400 -> "ErrBadRequest"
       [] s = 401 -> "ErrUnauthorized"
       [] s = 403 -> "ErrForbidden"
       [] s = 404 -> "ErrNotFound"
       [] s = 409 -> "ErrConflict"
       [] s = 422 -> "ErrUnprocessable"
       [] s = 429 -> "ErrRateLimited"]

Classes == {ClassOf[s] : s \in DOMAIN ClassOf} \union {"ErrServer"}

\* The sentinel of a code is an error of its own.
ASSUME CodesAreNotClasses == Documented \intersect Classes = {}

\* Faulty variant: a plain 500 left without a class.
StatusSentinelOff(s) ==
  IF s \in DOMAIN ClassOf THEN {ClassOf[s]}
  ELSE IF s > 500 THEN {"ErrServer"} ELSE {}

\* The class of a status, {} for none.
StatusSentinel(s) ==
  IF s \in DOMAIN ClassOf THEN {ClassOf[s]}
  ELSE IF s >= 500 THEN {"ErrServer"} ELSE {}

\* The other documented codes have a sentinel of their own, written here as
\* the code itself; an undocumented one has none.
CodeSentinel(code) ==
  IF code \notin Documented THEN {}
  ELSE {IF code \in DOMAIN ClassOfCode THEN ClassOfCode[code] ELSE code}

Unwrap(p) == CodeSentinel(p.Code) \union StatusSentinel(p.Status)

---------------------------------------------------------------------------
Init ==
  /\ replaySafe \in BOOLEAN
  /\ attempt = 1
  /\ status = 0
  /\ body \in [decodes : {"not"}, code : {""}, claim : {0}, titled : {FALSE}]
  /\ problem = Blank
  /\ returned = FALSE

Respond ==
  /\ status = 0
  /\ \E s \in Statuses, b \in Bodies :
       status' = s /\ body' = b /\ problem' = DecodeProblem(s, b)
  /\ UNCHANGED <<replaySafe, attempt, returned>>

TryAgain ==
  /\ status # 0 /\ ~ returned
  /\ Retryable(Policy, status, replaySafe, attempt)
  /\ attempt' = attempt + 1
  /\ status' = 0
  /\ problem' = Blank
  /\ UNCHANGED <<replaySafe, body, returned>>

\* A problem that may be retried is returned too: when the server names a
\* time past the cap.
Return ==
  /\ status # 0 /\ ~ returned
  /\ returned' = TRUE
  /\ UNCHANGED <<replaySafe, attempt, status, body, problem>>

Next == Respond \/ TryAgain \/ Return

Spec == Init /\ [][Next]_vars

---------------------------------------------------------------------------
(* Properties.                                                             *)

\* Every variable keeps its type; a problem that was returned has a text,
\* whatever the body was (errors.go:275-280).
TypeOK ==
  /\ replaySafe \in BOOLEAN
  /\ attempt \in 1 .. Policy.MaxAttempts
  /\ status \in Statuses \union {0}
  /\ body \in Bodies \union {[decodes |-> "not", code |-> "", claim |-> 0, titled |-> FALSE]}
  /\ problem \in Problems \union {Blank}
  /\ returned \in BOOLEAN
  /\ status # 0 => problem \in Problems

\* A caller never branches on a code out of a body that failed to decode: a
\* proxy's page or a malformed envelope shows its status and nothing else
\* (errors.go:266-274).
CodeIsFromAWholeBody ==
  problem.Code # "" => body.decodes = "whole" /\ body.code = problem.Code

\* The class a caller branches on is that of the status on the wire: an
\* envelope that claims another sends nobody down the wrong branch, whatever
\* attempt it answered (errors.go:281-283).  The two classes that are also
\* the sentinel of a code may come from the code.
ClassIsTheWires ==
  returned => \A class \in Classes \intersect Unwrap(problem) :
                \/ class \in StatusSentinel(status)
                \/ problem.Code \in DOMAIN ClassOfCode /\ class = ClassOfCode[problem.Code]

\* Whatever the loop would have tried again, the caller can recognise when
\* it is handed over: it matches ErrServer or ErrRateLimited, also when the
\* body says nothing or carries a code this version does not know
\* (client.go:343-350, errors.go:48-55).
RetryableIsRecognised ==
  returned /\ status \in {429, 500, 502, 503, 504}
    => Unwrap(problem) \intersect {"ErrServer", "ErrRateLimited"} # {}
===============================================================================
