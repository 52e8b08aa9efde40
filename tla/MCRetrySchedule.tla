--------------------------- MODULE MCRetrySchedule ---------------------------
(***************************************************************************)
(* Durations of six bits, five units to the second, and the policies of    *)
(* every client New builds from small options, so that the shift and the   *)
(* multiplication wrap within a run.                                       *)
(***************************************************************************)
EXTENDS RetrySchedule, Construction

BaseURL == [parses |-> TRUE, scheme |-> TRUE, host |-> TRUE]

\* Policies as callers write them, the unusable ones included.
MCRetryOptions ==
  {WithRetryPolicy(p) : p \in
     [MaxAttempts : {-1, 0, 8}, BaseDelay : {-1, 0, 1, 2, 3, 5}, MaxDelay : {-1, 0, 1, 4, 6, 9, 20}]}

MCOptionLists ==
  {<<>>, <<WithoutRetries>>, <<WithHTTPClient("nil"), WithUserAgent("")>>}
    \union {<<o>> : o \in MCRetryOptions}
    \union {<<o, WithoutRetries>> : o \in MCRetryOptions}
    \union {<<WithoutRetries, o>> : o \in MCRetryOptions}

MCPolicies == {New(BaseURL, "key", opts).client.retry : opts \in MCOptionLists}

\* Policies of the usual shape: a first step of a quarter of the cap.
MCUsualPolicies == [MaxAttempts : {4}, BaseDelay : {2}, MaxDelay : {8}]

Seconds(values) == {[form |-> "seconds", value |-> v] : v \in values}
Dates(values) == {[form |-> "date", value |-> v] : v \in values}

\* Every form, on both sides of every cap; 40 is wider than the word, and no
\* product with Second wraps.
MCHeaders == {NoHeader} \union Seconds({-1, 0, 1, 2, 6, 40}) \union Dates({-3, 0, 5, 31})

\* The same with numbers of seconds whose product with Second wraps.
MCWideHeaders == MCHeaders \union Seconds({9, 16, 31})
===============================================================================
