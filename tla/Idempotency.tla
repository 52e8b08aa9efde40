------------------------------ MODULE Idempotency ------------------------------
(***************************************************************************)
(* Idempotency keys (idempotency.go): which ones validate accepts, and     *)
(* what of an accepted one arrives.  A key is a sequence of characters;    *)
(* "" of the program is the empty sequence.                                *)
(***************************************************************************)
EXTENDS Sequences, FiniteSetsExt, Integers

CONSTANTS
  Graphic,               \* characters 0x21 to 0x7e
  Blank,                 \* 0x20
  Other,                 \* control characters and all beyond 0x7e
  maxIdempotencyKeyLen

ASSUME CharactersAssumption ==
  /\ Blank \notin Graphic \union Other
  /\ Graphic \intersect Other = {}
  /\ maxIdempotencyKeyLen \in Nat

EmptyKey == <<>>

\* Characters and bytes are counted alike: a key in which they differ has a
\* character that is refused.
Validate(k) ==
  /\ k # EmptyKey
  /\ Len(k) <= maxIdempotencyKeyLen
  /\ \A i \in DOMAIN k : k[i] \in Graphic \union {Blank}

\* net/http writes a header value without the blanks around it, and a key
\* that is nothing else is written as an empty value, which says nothing.
Delivered(k) ==
  LET inner == {i \in DOMAIN k : k[i] # Blank}
  IN  IF inner = {} THEN EmptyKey ELSE SubSeq(k, Min(inner), Max(inner))
===============================================================================
