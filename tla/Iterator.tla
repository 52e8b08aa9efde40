-------------------------------- MODULE Iterator --------------------------------
(***************************************************************************)
(* Iterator (pagination.go) over a listing that answers with a bare array: *)
(* the end of the listing is inferred from the number of distinct keys on  *)
(* a page.  The listing is newest first and grows while it is walked.      *)
(*                                                                         *)
(* Rows are numbered by age, the oldest is 1.  A row's key is the number   *)
(* of its transaction, and a transaction may have several rows, which the  *)
(* service never splits between pages.                                     *)
(***************************************************************************)
EXTENDS Paging

CONSTANTS
  MaxTransactions,      \* bound on the listing's length
  LastRow,              \* the youngest row of each transaction
  ShortPages            \* the service may stop a page before it is full

ASSUME ListingAssumption ==
  /\ MaxTransactions \in Nat
  /\ LastRow \in [0 .. MaxTransactions -> Nat]
  /\ LastRow[0] = 0
  /\ \A s, t \in 0 .. MaxTransactions : s < t => LastRow[s] < LastRow[t]
  /\ ShortPages \in BOOLEAN

VARIABLES
  transactions, \* how many the service holds
  snapshot,     \* how many it held when it served the first page
  fetches       \* pages asked for

vars == <<fields, returned, delivered, transactions, snapshot, fetches>>

AllRows == 1 .. LastRow[MaxTransactions]

\* The rows of the transactions above `from` and up to `to`, newest first.
Rows(from, to) ==
  [i \in 1 .. LastRow[to] - LastRow[from] |-> LastRow[to] + 1 - i]

Key(row) ==
  CHOOSE t \in 1 .. MaxTransactions : LastRow[t - 1] < row /\ row <= LastRow[t]

Keys(p) == {Key(p[i]) : i \in DOMAIN p}

---------------------------------------------------------------------------
(* The service.  A page begins below the cursor.  It is full, or has all   *)
(* that is left; with ShortPages it may also end earlier, after one row's  *)
(* transaction at least.                                                   *)

Atmost(n, ceiling) == IF n < ceiling THEN n ELSE ceiling
Below(t, n) == IF t < n THEN 0 ELSE t - n

\* The transaction a page begins with, and the one before the last of a full
\* page.
Top == IF cursor = Nil THEN transactions ELSE cursor - 1
Bottom == Below(Top, Atmost(limit, DefaultPageSize))

Cuts == {t \in Bottom .. Top : t = Bottom \/ (ShortPages /\ t < Top)}

ServedPages == {Rows(t, Top) : t \in Cuts}

\* A service that fails to advance the cursor: once more the page that ended
\* with it.
RepeatedPage ==
  LET top == cursor + Atmost(limit, DefaultPageSize) - 1
  IN  Rows(cursor - 1, Atmost(top, transactions))

Pages == ServedPages \union (IF cursor = Nil THEN {} ELSE {RepeatedPage})

Grow ==
  /\ transactions < MaxTransactions
  /\ transactions' = transactions + 1
  /\ UNCHANGED <<fields, returned, delivered, snapshot, fetches>>

---------------------------------------------------------------------------
Init ==
  /\ PagingInit
  /\ transactions \in 0 .. MaxTransactions
  /\ snapshot = 0
  /\ fetches = 0

\* Faulty variant: rows counted instead of keys.
IsLastByRows(p) == Len(p) # limit

\* Fewer keys than were asked for: the unit the service pages by.
IsLast(p) == Cardinality(Keys(p)) < limit

\* Faulty variant: a full page that does not advance is walked once more.
ReceiveUnguarded(p) ==
  \/ p = <<>> /\ done' = TRUE /\ returned' = "end"
     /\ UNCHANGED <<limit, cursor, page, pos, err, delivered>>
  \/ p # <<>> /\ done' = IsLast(p) /\ cursor' = Key(p[Len(p)]) /\ Enter(p)

\* A page arrives: it is empty, it is full and does not advance the cursor,
\* or its first item is delivered.
Receive(p) ==
  LET next == Key(p[Len(p)])
  IN  \/ p = <<>> /\ done' = TRUE /\ returned' = "end"
         /\ UNCHANGED <<limit, cursor, page, pos, err, delivered>>
      \/ p # <<>> /\ ~ IsLast(p) /\ next = cursor /\ Stall
      \/ /\ p # <<>> /\ (IsLast(p) \/ next # cursor)
         /\ done' = IsLast(p) /\ cursor' = next /\ Enter(p)

NextFetches ==
  /\ Fetching
  /\ started' = TRUE
  /\ \E p \in Pages : Receive(p)
  /\ snapshot' = IF delivered = <<>> THEN transactions ELSE snapshot
  /\ fetches' = fetches + 1
  /\ UNCHANGED transactions

Next ==
  \/ Grow
  \/ NextFetches
  \/ /\ \/ \E n \in Sizes : PageSize(n)
        \/ NextInPage \/ NextOver
     /\ UNCHANGED <<transactions, snapshot, fetches>>
  \/ NextFetchFails /\ fetches' = fetches + 1 /\ UNCHANGED <<transactions, snapshot>>

Spec == Init /\ [][Next]_vars

---------------------------------------------------------------------------
(* Properties.                                                             *)

\* Every variable keeps its type: Item never indexes past the page, and no
\* page is asked for that the service would cut short (pagination.go:16-21,
\* 124).
TypeOK ==
  /\ PagingTypeOK(AllRows, 0 .. MaxTransactions)
  /\ transactions \in 0 .. MaxTransactions
  /\ snapshot \in 0 .. transactions
  /\ fetches \in Nat

\* Only a full page is followed by another request, and an ended or failed
\* walk asks for nothing more: a listing costs one request for each full
\* page and one to find the end (pagination.go:89-91, 110-112).
NoWastedFetch ==
  fetches > 1 => (fetches - 1) * limit <= snapshot

W == INSTANCE Walk WITH
       Listings <- {Rows(0, t) : t \in 0 .. MaxTransactions},
       listing <- Rows(0, snapshot),
       status <- Status

\* The iterator delivers the listing as it was when the first page was
\* served, whole, in order and without a repeated row, and otherwise says
\* that it failed: transactions of several rows, pages cut at any size, rows
\* that arrive meanwhile and a cursor that does not advance make no
\* difference (pagination.go:32-46, README.md:229-235).  It holds of services
\* that fill every page but the last: without ShortPages, which is how
\* users.go:84-88 tells a caller to know the end.
WalkSpec == W!Spec

\* An ended walk has delivered its whole listing: "a short page can still
\* have a successor" (pagination.go:37-38).
EndsWithEverything == Status = "ended" => delivered = Rows(0, snapshot)
===============================================================================
