-------------------------------- MODULE MCClient --------------------------------
(***************************************************************************)
(* Instances of Client.  Each configuration picks its calls by name.       *)
(***************************************************************************)
EXTENDS Client, Idempotency

CONSTANTS p1, p2,                                         \* payloads
          first, second, other, plain, read, broken, padded \* calls

\* One that is usable, one that is too long, one with a line break; and two
\* that validate accepts although their blanks do not arrive.
Key1 == <<"k">>
LongKey == <<"k", "k", "k">>
ControlKey == <<"k", "LF">>
PaddedKey == <<"k", " ">>
BlankKey == <<" ">>

MCKeys == {Key1, LongKey, ControlKey}
MCPaddedKeys == MCKeys \union {PaddedKey, BlankKey}
MCValidKeys == {k \in Keys : Validate(k)}
MCCarried == [k \in Keys \union {NoKey} |-> Delivered(k)]

Call(e, k, p) == [endpoint |-> e, key |-> k, payload |-> p, marshals |-> TRUE]

\* first and second ask for one operation (a caller and its restart), other
\* reuses their key with different parameters, plain is a write without a
\* key, broken a keyed call without a usable one, padded one with a key that
\* ends in a blank.
MCCallOf ==
  [c \in Calls |->
     CASE c \in {first, second} -> Call("CreateTransfer", Key1, p1)
       [] c = other  -> Call("CreateTransfer", Key1, p2)
       [] c = plain  -> Call("VoidPayment", NoKey, p1)
       [] c = read   -> Call("GetPayment", NoKey, p1)
       [] c = broken -> Call("CreateRefund", LongKey, p1)
       [] c = padded -> Call("CreateTransfer", PaddedKey, p1)]

\* A step of two, doubled and capped at three: the first backoff draws 1 or
\* 2, the later ones 1 to 2.
MCPolicy2 == [MaxAttempts |-> 2, BaseDelay |-> 2, MaxDelay |-> 3]

\* None (a back-off within the cap), at once, past the cap.
MCNoHeaders == {NoHeader}
MCHeaders == {NoHeader} \union {[form |-> "seconds", value |-> v] : v \in {0, 5}}

\* first runs with one further caller, whichever.
TwoCallers ==
  \E c \in Calls \ {first} : \A d \in Calls \ {first, c} : pc[d] = "idle"
===============================================================================
