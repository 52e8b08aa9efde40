-------------------------------- MODULE MCProblem --------------------------------
(***************************************************************************)
(* Instances of Problem: a class of each kind, a status without one, codes *)
(* known, unknown and absent.                                              *)
(***************************************************************************)
EXTENDS Problem

MCPolicy == [MaxAttempts |-> 2, BaseDelay |-> 2, MaxDelay |-> 3]
MCStatuses == {403, 405, 409, 422, 429, 500, 503}
MCCodes == {"", "insufficient_funds", "forbidden", "rate_limited", "added later"}
MCDocumented == {"forbidden", "insufficient_funds", "rate_limited"}
===============================================================================
