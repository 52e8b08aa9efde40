---------------------------- MODULE WalletOperation ----------------------------
(***************************************************************************)
(* What the client promises its callers about money, without messages,     *)
(* attempts or retries: an operation moves money at most once however many *)
(* calls ask for it, a call reports success only with the movement itself, *)
(* and a call that is refused has moved nothing and never will.            *)
(* Module Client implements this specification.                            *)
(***************************************************************************)
CONSTANTS
  Calls,        \* calls that write, repeated calls for one operation included
  Ops,          \* the operations they ask for
  OpOf,         \* [Calls -> Ops]
  Movements     \* what can be entered in the ledger

VARIABLES
  ledger,       \* [Ops -> the movements made for the operation]
  phase,        \* [Calls -> idle, pending, ok, refused or unknown]
  answer        \* [Calls -> the movements reported to the caller]

vars == <<ledger, phase, answer>>

Phases == {"idle", "pending", "ok", "refused", "unknown"}

Init ==
  /\ ledger = [o \in Ops |-> {}]
  /\ phase = [c \in Calls |-> "idle"]
  /\ answer = [c \in Calls |-> {}]

Begin(c) ==
  /\ phase[c] = "idle"
  /\ phase' = [phase EXCEPT ![c] = "pending"]
  /\ UNCHANGED <<ledger, answer>>

\* Money moves only for a call that was made and not refused, and only once.
Move(o) ==
  /\ ledger[o] = {}
  /\ \E c \in Calls : OpOf[c] = o /\ phase[c] \in {"pending", "unknown"}
  /\ UNCHANGED <<phase, answer>>
  /\ \E x \in Movements \intersect ledger'[o] : ledger' = [ledger EXCEPT ![o] = {x}]

Succeed(c) ==
  /\ phase[c] = "pending"
  /\ ledger[OpOf[c]] # {}
  /\ phase' = [phase EXCEPT ![c] = "ok"]
  /\ answer' = [answer EXCEPT ![c] = ledger[OpOf[c]]]
  /\ UNCHANGED ledger

\* The call itself moved nothing: another call may have asked for the same
\* operation, but if none did, the ledger is empty.
Refuse(c) ==
  /\ phase[c] \in {"idle", "pending"}
  /\ (\A d \in Calls : OpOf[d] = OpOf[c] => d = c) => ledger[OpOf[c]] = {}
  /\ phase' = [phase EXCEPT ![c] = "refused"]
  /\ UNCHANGED <<ledger, answer>>

\* The caller learns nothing, or does not live to learn it.  Calls in one
\* process give up together when it crashes.
GiveUp(C) ==
  /\ \A c \in C : phase[c] = "pending"
  /\ phase' = [c \in Calls |-> IF c \in C THEN "unknown" ELSE phase[c]]
  /\ UNCHANGED <<ledger, answer>>

Next ==
  \/ \E c \in Calls : Begin(c) \/ Succeed(c) \/ Refuse(c)
  \/ \E o \in Ops : Move(o)
  \/ \E C \in SUBSET Calls : GiveUp(C)

Spec == Init /\ [][Next]_vars
===============================================================================
