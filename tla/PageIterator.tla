------------------------------ MODULE PageIterator ------------------------------
(***************************************************************************)
(* PageIterator (pagination.go) over a listing whose answers carry their   *)
(* own next_cursor: its absence is the end, whatever the page's length.    *)
(*                                                                         *)
(* The service goes through its records 1..Records, those the caller's     *)
(* filter lets through are the items, numbered in their order, and a       *)
(* cursor is how far it has come.                                          *)
(***************************************************************************)
EXTENDS Paging

CONSTANTS
  Records,      \* how many records the service goes through
  Passed,       \* how many of the first records pass the filter
  EmptyPages    \* the service may answer without an item before the end

ASSUME RecordsAssumption ==
  /\ Records \in Nat
  /\ Passed \in [0 .. Records -> Nat]
  /\ Passed[0] = 0
  /\ \A s, t \in 0 .. Records : s <= t => Passed[t] - Passed[s] \in 0 .. t - s
  /\ EmptyPages \in BOOLEAN

vars == <<fields, returned, delivered>>

\* The absence of next_cursor.
NoCursor == -1

\* The items among the records above `from` and up to `to`, in order.
Items(from, to) == [i \in 1 .. Passed[to] - Passed[from] |-> Passed[from] + i]

---------------------------------------------------------------------------
(* The service.  It answers with the items of some stretch behind the      *)
(* cursor, at most `limit` of them, and names the stretch's end; only at   *)
(* the end of everything may it name none.  It may also fail to advance.   *)
(* It does not name Nil, the zero UUID, which the stall test lets through. *)

Answered(to, next) ==
  /\ Len(Items(cursor, to)) <= limit
  /\ EmptyPages \/ Items(cursor, to) # <<>> \/ to = Records
  /\ \/ next = to /\ to > cursor
     \/ next = NoCursor /\ to = Records
     \/ next = cursor /\ cursor # Nil

---------------------------------------------------------------------------
Init == PagingInit

\* Faulty variant: a short page taken for the last one.
TurnPageByLength(p, next) ==
  LET last == next = NoCursor \/ Len(p) < limit
  IN  \/ last /\ done' = TRUE /\ UNCHANGED cursor
      \/ ~ last /\ cursor' = next /\ UNCHANGED done

\* No next cursor is the end; any other becomes the cursor.
TurnPage(p, next) ==
  \/ next = NoCursor /\ done' = TRUE /\ UNCHANGED cursor
  \/ next # NoCursor /\ cursor' = next /\ UNCHANGED done

\* The cursor is looked at before the page: one that does not advance drops
\* the page, and an empty page ends the walk whatever its cursor says.
Receive(p, next) ==
  LET stalled == next = cursor /\ cursor # Nil
  IN  \/ stalled /\ Stall
      \/ /\ ~ stalled /\ p = <<>>
         /\ done' = TRUE /\ returned' = "end"
         /\ cursor' = IF next = NoCursor THEN cursor ELSE next
         /\ UNCHANGED <<limit, page, pos, err, delivered>>
      \/ ~ stalled /\ p # <<>> /\ TurnPage(p, next) /\ Enter(p)

NextFetches ==
  /\ Fetching
  /\ started' = TRUE
  /\ \E to \in cursor .. Records, next \in NoCursor .. Records :
       Answered(to, next) /\ Receive(Items(cursor, to), next)

Next ==
  \/ \E n \in Sizes : PageSize(n)
  \/ NextInPage \/ NextOver \/ NextFetchFails \/ NextFetches

Spec == Init /\ [][Next]_vars

---------------------------------------------------------------------------
(* Properties.                                                             *)

\* Every variable keeps its type; Item never indexes past the page
\* (pagination.go:227).
TypeOK == PagingTypeOK(1 .. Passed[Records], Nil .. Records)

All == Items(0, Records)

W == INSTANCE Walk WITH
       Listings <- {All},
       listing <- All,
       status <- Status

\* The iterator delivers every item, in order and without a repeated one, or
\* says that it failed, however short the service's pages are and wherever
\* its cursor fails to advance (pagination.go:159-160, README.md
\* "Pagination").  It holds of services that send no empty page before the
\* end and never the zero UUID for a cursor.
WalkSpec == W!Spec

\* An ended walk has delivered everything: "A short page that still names a
\* next cursor is not the end: the envelope says so, and guessing from the
\* length would drop the remainder" (pagination_test.go:245-246).
EndsWithEverything == Status = "ended" => delivered = All
===============================================================================
