----------------------------- MODULE Construction -----------------------------
(***************************************************************************)
(* What New (client.go) builds from a base URL, a credential and a list of *)
(* options, or why it refuses to.  A base URL is what its text has, an     *)
(* HTTP client and a User-Agent are names.                                 *)
(***************************************************************************)
EXTENDS RetryDelay, Sequences

\* A duration holds the delays of the default policy.
ASSUME DefaultsAssumption == 5 * Second < HalfWord

\* 200 ms and 5 s, in units of the clock.
DefaultRetryPolicy ==
  [MaxAttempts |-> 4, BaseDelay |-> Second \div 5, MaxDelay |-> 5 * Second]

---------------------------------------------------------------------------
(* Options.                                                                *)

WithHTTPClient(h) == [option |-> "WithHTTPClient", http |-> h]
WithUserAgent(ua) == [option |-> "WithUserAgent", userAgent |-> ua]
WithRetryPolicy(p) == [option |-> "WithRetryPolicy", retry |-> p]
WithoutRetries == [option |-> "WithoutRetries"]

Clamped(p) == [p EXCEPT !.MaxAttempts = IF @ < 1 THEN 1 ELSE @]

\* A nil HTTP client and an empty User-Agent change nothing; WithoutRetries
\* leaves the delays of the policy before it.
Apply(client, o) ==
  CASE o.option = "WithHTTPClient" /\ o.http # "nil"   -> [client EXCEPT !.http = o.http]
    [] o.option = "WithUserAgent" /\ o.userAgent # "" ->
         [client EXCEPT !.userAgent = <<o.userAgent, "sdk">>]
    [] o.option = "WithRetryPolicy" -> [client EXCEPT !.retry = Clamped(o.retry)]
    [] o.option = "WithoutRetries"  -> [client EXCEPT !.retry.MaxAttempts = 1]
    [] OTHER -> client

---------------------------------------------------------------------------
(* New.                                                                    *)

Refusal(baseURL, cred) ==
  CASE cred = "nil"                       -> "ErrInvalidRequest"
    [] cred # "nil" /\ ~ baseURL.parses   -> "url.Error"
    [] OTHER -> IF baseURL.scheme /\ baseURL.host THEN "nil" ELSE "ErrInvalidRequest"

Fresh(baseURL, cred) ==
  [base |-> baseURL, cred |-> cred, http |-> "own", userAgent |-> <<"sdk">>,
   retry |-> DefaultRetryPolicy, redirects |-> "follow"]

\* The options apply in the order given; the HTTP client, whoever's it is,
\* is copied last, and the copy follows no redirect.
New(baseURL, cred, opts) ==
  LET client[n \in 0 .. Len(opts)] ==
        IF n = 0 THEN Fresh(baseURL, cred) ELSE Apply(client[n - 1], opts[n])
  IN  IF Refusal(baseURL, cred) # "nil"
      THEN [error |-> Refusal(baseURL, cred)]
      ELSE [error |-> "nil",
            client |-> [client[Len(opts)] EXCEPT !.redirects = "refuse"]]
===============================================================================
