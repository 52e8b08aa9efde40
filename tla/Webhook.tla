------------------------------- MODULE Webhook -------------------------------
(***************************************************************************)
(* What a receiver may conclude from one delivery: VerifySignature and     *)
(* ParseEvent (webhook.go).  Time is counted in ticks of the receiver's    *)
(* clock, of which a signature's timestamp shows the whole seconds, and a  *)
(* tolerance is a time.Duration, a signed machine word of ticks.           *)
(*                                                                         *)
(* The digest is ideal: it is the triple it was computed from, so that two *)
(* digests are equal only for the same secret, timestamp and body.         *)
(***************************************************************************)
EXTENDS Integers

CONSTANTS
  Secrets,        \* endpoint secrets
  NoSecret,       \* the empty string
  Events,         \* event identifiers
  Tenants,        \* tenant identifiers
  Nil,            \* uuid.Nil, also what a missing field decodes to
  HalfSpan,       \* durations are the integers in -HalfSpan .. HalfSpan - 1
  TicksPerSecond  \* the resolution of the receiver's clock

ASSUME WebhookAssumption ==
  /\ NoSecret \notin Secrets
  /\ Nil \notin Events \union Tenants
  /\ HalfSpan \in Nat \ {0}
  /\ TicksPerSecond \in Nat \ {0}

Spans == -HalfSpan .. HalfSpan - 1

\* The most negative duration is its own negation.
Negated(d) == IF d = -HalfSpan THEN d ELSE -d

\* What ParseEvent looks at in a body: whether it decodes, whether it has a
\* type, and the two identifiers.
Bodies ==
  [json : BOOLEAN, type : BOOLEAN, id : Events \union {Nil}, tenant : Tenants \union {Nil}]

\* A header is t=<integer>,v1=<hex> or is malformed; it is verbatim if both
\* texts are written the way sign writes them ("+5" and "AB" are not).
HeaderTexts ==
  [wellFormed : BOOLEAN, verbatim : BOOLEAN, t : Int,
   mac : [secret : Secrets, t : Int, body : Bodies]]

\* sign: the whole header is rebuilt from the timestamp and the digest.
Sign(secret, t, body) ==
  [wellFormed |-> TRUE, verbatim |-> TRUE, t |-> t,
   mac |-> [secret |-> secret, t |-> t, body |-> body]]

\* Both edges are inside.
InWindow(t, tolerance, now) ==
  /\ ~ t * TicksPerSecond < now + Negated(tolerance)
  /\ ~ t * TicksPerSecond > now + tolerance

\* Faulty variant: the digest is compared, the timestamp it covers is not.
VerifySignatureAtByDigest(header, body, secret, tolerance, now) ==
  CASE ~ header.wellFormed                   -> "malformed"
    [] header.wellFormed /\ ~ InWindow(header.t, tolerance, now) -> "stale"
    [] OTHER -> IF header.mac.secret = secret /\ header.mac.body = body
                THEN "nil" ELSE "mismatch"

\* verifySignatureAt: form, then window, then digest.
VerifySignatureAt(header, body, secret, tolerance, now) ==
  CASE ~ header.wellFormed                   -> "malformed"
    [] header.wellFormed /\ ~ InWindow(header.t, tolerance, now) -> "stale"
    [] OTHER -> IF header = Sign(secret, header.t, body) THEN "nil" ELSE "mismatch"

\* VerifySignature: an empty secret matches nothing, a negative tolerance
\* counts as its magnitude.
VerifySignature(header, body, secret, tolerance, now) ==
  IF secret = NoSecret
  THEN "mismatch"
  ELSE VerifySignatureAt(header, body, secret,
         IF tolerance < 0 THEN Negated(tolerance) ELSE tolerance, now)

\* Faulty variant: a body without identifiers is an event.
ParsesWithoutIdentity(body) == body.json /\ body.type

\* ParseEvent accepts a body that decodes and has a type and identifiers.
Parses(body) == body.json /\ body.type /\ body.id # Nil /\ body.tenant # Nil
===============================================================================
