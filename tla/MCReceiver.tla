------------------------------ MODULE MCReceiver ------------------------------
(***************************************************************************)
(* One endpoint, two handler threads and two events.  The strays are the   *)
(* ways a delivery can fail to be one of the endpoint's events.            *)
(***************************************************************************)
EXTENDS Receiver

CONSTANTS e1, e2, h1, h2, secret, otherSecret, tenant, otherTenant

Signed(s, t, body) == [header |-> Sign(s, t, body), body |-> body]

\* Signed with another endpoint's secret; a body, or a timestamp, changed
\* after signing; a header not written as sign writes it; no header at all.
MCForged ==
  LET genuine == Signed(secret, 0, BodyOf(e1))
  IN  { Signed(otherSecret, 1, BodyOf(e2)),
        [genuine EXCEPT !.body = BodyOf(e2)],
        [genuine EXCEPT !.header.t = 1],
        [genuine EXCEPT !.header.verbatim = FALSE],
        [genuine EXCEPT !.header.wellFormed = FALSE] }

\* Another tenant's event; bodies that are no event.
MCMisaddressed ==
  { Signed(secret, 0, [BodyOf(e2) EXCEPT !.tenant = otherTenant]),
    Signed(secret, 1, [BodyOf(e2) EXCEPT !.id = Nil]),
    Signed(secret, 1, [BodyOf(e2) EXCEPT !.type = FALSE]) }
===============================================================================
