--------------------------------- MODULE Paging ---------------------------------
(***************************************************************************)
(* What the two iterators of pagination.go have in common: their fields,   *)
(* the page size, and every branch of Next but the arrival of a page.      *)
(* A call of Next is one action: the service looks at its listing at one   *)
(* moment of it, and an iterator is not shared between goroutines.         *)
(***************************************************************************)
EXTENDS Integers, Sequences, FiniteSets

CONSTANTS
  DefaultPageSize,      \* also the largest page the service answers with
  Sizes                 \* arguments of PageSize

ASSUME PagingAssumption ==
  DefaultPageSize \in Nat \ {0} /\ Sizes \subseteq Int

VARIABLES
  limit, cursor, page, pos, done, err, started,  \* the iterator's fields
  returned,     \* what the latest Next returned: none yet, item or end
  delivered     \* the items the caller has been given, in order

fields == <<limit, cursor, page, pos, done, err, started>>

\* uuid.Nil, with which a walk begins; no row has it for its key.
Nil == 0

\* Faulty variant: the page size is taken as it comes.
BoundedPageSizeUncapped(n) == IF n < 1 THEN DefaultPageSize ELSE n

BoundedPageSize(n) ==
  IF n < 1 \/ n > DefaultPageSize THEN DefaultPageSize ELSE n

PagingInit ==
  /\ limit = DefaultPageSize
  /\ cursor = Nil
  /\ page = <<>>
  /\ pos = 0
  /\ done = FALSE
  /\ err = "none"
  /\ started = FALSE
  /\ returned = "none"
  /\ delivered = <<>>

PagingTypeOK(Items, Cursors) ==
  /\ limit \in 1 .. DefaultPageSize
  /\ cursor \in Cursors
  /\ page \in Seq(Items)
  /\ pos \in 0 .. Len(page)
  /\ done \in BOOLEAN
  /\ err \in {"none", "fetch", "stalled"}
  /\ started \in BOOLEAN
  /\ returned \in {"none", "item", "end"}
  /\ delivered \in Seq(Items)

\* After the first Next the size stays what it was.
PageSize(n) ==
  /\ ~ started
  /\ limit' = BoundedPageSize(n)
  /\ UNCHANGED <<cursor, page, pos, done, err, started, returned, delivered>>

\* Faulty variant: a position past the last item.
NextInPagePastEnd ==
  /\ err = "none"
  /\ page # <<>> /\ pos <= Len(page)
  /\ pos' = pos + 1
  /\ returned' = "item"
  /\ UNCHANGED <<limit, cursor, page, done, err, started, delivered>>

\* The buffered page has another item.
NextInPage ==
  /\ err = "none"
  /\ pos < Len(page)
  /\ pos' = pos + 1
  /\ delivered' = Append(delivered, page[pos + 1])
  /\ returned' = "item"
  /\ UNCHANGED <<limit, cursor, page, done, err, started>>

\* The walk is over, and stays so however often it is asked.
NextOver ==
  /\ err # "none" \/ (pos = Len(page) /\ done)
  /\ returned' = "end"
  /\ UNCHANGED <<fields, delivered>>

\* Faulty variant: an ended walk asks the service again.
FetchingAlways == err = "none" /\ pos = Len(page)

Fetching == err = "none" /\ pos = Len(page) /\ ~ done

NextFetchFails ==
  /\ Fetching
  /\ started' = TRUE
  /\ err' = "fetch"
  /\ returned' = "end"
  /\ UNCHANGED <<limit, cursor, page, pos, done, delivered>>

\* The page did not advance the cursor.
Stall ==
  /\ err' = "stalled"
  /\ returned' = "end"
  /\ UNCHANGED <<limit, cursor, page, pos, done, delivered>>

\* The first item of a page that arrived.
Enter(p) ==
  /\ page' = p
  /\ pos' = 1
  /\ delivered' = Append(delivered, p[1])
  /\ returned' = "item"
  /\ UNCHANGED <<limit, err>>

\* How the walk stands for the caller of Next and Err.
Status ==
  IF err # "none" THEN "failed"
  ELSE IF returned = "end" THEN "ended" ELSE "walking"
===============================================================================
