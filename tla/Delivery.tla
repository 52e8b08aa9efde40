------------------------------- MODULE Delivery -------------------------------
(***************************************************************************)
(* What the webhook channel promises an integrator, without messages,      *)
(* signatures, threads or crashes: an event that happened may be accepted, *)
(* only an accepted event is acknowledged, what was accepted is never      *)
(* lost, and every accepted event takes effect at most once.  Module       *)
(* Receiver implements this specification.                                 *)
(***************************************************************************)
CONSTANT Events

VARIABLES
  happened,       \* events that took place in the wallet
  accepted,       \* events the receiver has made its own
  acknowledged,   \* events the wallet knows to be delivered
  applied         \* events that have taken effect at the receiver

vars == <<happened, accepted, acknowledged, applied>>

Init ==
  /\ happened = {}
  /\ accepted = {}
  /\ acknowledged = {}
  /\ applied = {}

Happen(e) ==
  /\ e \notin happened
  /\ happened' = happened \union {e}
  /\ UNCHANGED <<accepted, acknowledged, applied>>

Accept(e) ==
  /\ e \in happened \ accepted
  /\ accepted' = accepted \union {e}
  /\ UNCHANGED <<happened, acknowledged, applied>>

Acknowledge(e) ==
  /\ e \in accepted \ acknowledged
  /\ acknowledged' = acknowledged \union {e}
  /\ UNCHANGED <<happened, accepted, applied>>

Apply(e) ==
  /\ e \in accepted \ applied
  /\ applied' = applied \union {e}
  /\ UNCHANGED <<happened, accepted, acknowledged>>

Next == \E e \in Events : Happen(e) \/ Accept(e) \/ Acknowledge(e) \/ Apply(e)

Spec == Init /\ [][Next]_vars
===============================================================================
