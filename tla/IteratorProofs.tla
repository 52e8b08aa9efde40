----------------------------- MODULE IteratorProofs -----------------------------
(***************************************************************************)
(* Iterator delivers the listing of its first page's moment and implements *)
(* module Walk, for every listing, every split of the rows among the       *)
(* transactions, every page size and every growth of the listing.          *)
(***************************************************************************)
EXTENDS Iterator, FiniteSetTheorems, SequenceTheorems, WellFoundedInduction, TLAPS

---------------------------------------------------------------------------
(* The inductive invariant.                                                *)

\* The buffered items that are still to be delivered.
Buffered == Len(page) - pos

Untouched ==
  /\ cursor = Nil /\ page = <<>> /\ ~ done /\ err = "none"
  /\ returned = "none" /\ delivered = <<>>

\* Before the first page that has an item: nothing is delivered, and at most
\* one page was asked for.
NothingYet ==
  /\ cursor = Nil /\ delivered = <<>>
  /\ done => snapshot = 0
  /\ started /\ ~ done => err # "none"
  /\ fetches <= 1

\* What is delivered, followed by what is buffered, are the rows of the
\* snapshot down to the cursor's transaction.
Continues ==
  /\ cursor \in 1 .. snapshot
  /\ pos >= 1
  /\ Len(delivered) >= 1
  /\ Len(delivered) = LastRow[snapshot] - LastRow[cursor - 1] - Buffered
  /\ \A i \in 1 .. Len(delivered) : delivered[i] = LastRow[snapshot] + 1 - i
  /\ \A i \in pos + 1 .. Len(page) : page[i] = LastRow[cursor - 1] + 1 + Len(page) - i

\* A walk that goes on has had full pages only, and one that is over has come
\* to the oldest transaction, unless a page was short.
FullPages ==
  /\ ~ done /\ err = "none" => fetches * limit + cursor - 1 = snapshot
  /\ done /\ ~ ShortPages => cursor = 1

\* Next says that the walk is over only when it is.
EndsWhenDone == returned = "end" /\ err = "none" => done /\ pos = Len(page)

IInv ==
  /\ TypeOK
  /\ ~ started => Untouched /\ fetches = 0
  /\ page = <<>> => NothingYet
  /\ page # <<>> => started /\ fetches >= 1 /\ Continues /\ FullPages
  /\ NoWastedFetch
  /\ EndsWhenDone

---------------------------------------------------------------------------
(* Lemmas about the listing.                                               *)

\* A set of natural numbers that is not empty has a least member.
LEMMA LeastNatural ==
  ASSUME NEW S \in SUBSET Nat, S # {}
  PROVE  \E n \in S : \A k \in S : n <= k
<1>1. PICK n \in S : \A k \in S : <<k, n>> \notin OpToRel(<, Nat)
  BY NatLessThanWellFounded, WFMin
<1>2. \A k \in S : ~ k < n
  BY <1>1 DEF OpToRel
<1> QED
  BY <1>2

\* Older transactions have older rows.
LEMMA RowsByAge ==
  ASSUME NEW s \in 0 .. MaxTransactions, NEW t \in 0 .. MaxTransactions, s <= t
  PROVE  LastRow[s] \in Nat /\ LastRow[t] \in Nat /\ LastRow[s] <= LastRow[t]
         /\ (s < t => LastRow[s] < LastRow[t])
  BY ListingAssumption

\* The key of a row is the transaction it belongs to (users.go:101, the
\* key function of UserTransactions).
LEMMA KeyOfRow ==
  ASSUME NEW t \in 1 .. MaxTransactions, NEW row \in Nat,
         LastRow[t - 1] < row, row <= LastRow[t]
  PROVE  Key(row) = t
<1> DEFINE Has(u) == LastRow[u - 1] < row /\ row <= LastRow[u]
<1>1. ASSUME NEW u \in 1 .. MaxTransactions, Has(u) PROVE u = t
  <2>1. CASE u < t
    <3>1. /\ u \in 0 .. MaxTransactions /\ t - 1 \in 0 .. MaxTransactions /\ u <= t - 1
      BY <2>1, ListingAssumption
    <3>2. LastRow[u] <= LastRow[t - 1]
      BY <3>1, RowsByAge
    <3> QED BY <1>1, <3>1, <3>2, ListingAssumption
  <2>2. CASE t < u
    <3>1. /\ t \in 0 .. MaxTransactions /\ u - 1 \in 0 .. MaxTransactions /\ t <= u - 1
      BY <2>2, ListingAssumption
    <3>2. LastRow[t] <= LastRow[u - 1]
      BY <3>1, RowsByAge
    <3> QED BY <1>1, <3>1, <3>2, ListingAssumption
  <2> QED BY <2>1, <2>2
<1>2. Has(t)
  OBVIOUS
<1> HIDE DEF Has
<1>3. (CHOOSE u \in 1 .. MaxTransactions : Has(u)) = t
  BY <1>1, <1>2
<1> QED BY <1>3 DEF Key, Has

\* Every row of the transactions above `from` and up to `to` has one of them
\* for its key.
LEMMA KeyExists ==
  ASSUME NEW from \in 0 .. MaxTransactions, NEW to \in 0 .. MaxTransactions,
         NEW row \in Nat, LastRow[from] < row, row <= LastRow[to]
  PROVE  Key(row) \in from + 1 .. to
<1> DEFINE S == {t \in 0 .. to : row <= LastRow[t]}
<1>1. S \in SUBSET Nat /\ to \in S
  OBVIOUS
<1>2. PICK t \in S : \A u \in S : t <= u
  BY <1>1, LeastNatural
<1>3. t \in 0 .. to /\ t \in 0 .. MaxTransactions /\ row <= LastRow[t] /\ LastRow[t] \in Nat
  BY ListingAssumption
<1>4. from < t
  <2> SUFFICES ASSUME t <= from PROVE FALSE
    BY <1>3
  <2>1. LastRow[t] <= LastRow[from]
    BY <1>3, RowsByAge
  <2> QED BY <1>3, <2>1, ListingAssumption
<1>5. LastRow[t - 1] < row
  <2>1. t - 1 \in 0 .. to /\ t - 1 \notin S
    BY <1>2, <1>3, <1>4
  <2> QED BY <2>1, ListingAssumption
<1>6. t \in 1 .. MaxTransactions
  BY <1>3, <1>4, ListingAssumption
<1>7. Key(row) = t
  BY <1>3, <1>5, <1>6, KeyOfRow
<1> QED BY <1>3, <1>4, <1>7

\* A page: as long as its transactions have rows, from the youngest row to
\* the oldest.
LEMMA PageShape ==
  ASSUME NEW from \in 0 .. MaxTransactions, NEW to \in 0 .. MaxTransactions, from <= to
  PROVE  /\ Rows(from, to) \in Seq(AllRows)
         /\ Len(Rows(from, to)) = LastRow[to] - LastRow[from]
         /\ \A i \in 1 .. Len(Rows(from, to)) : Rows(from, to)[i] = LastRow[to] + 1 - i
         /\ Rows(from, to) = <<>> <=> from = to
<1> DEFINE n == LastRow[to] - LastRow[from]
<1>1. n \in Nat /\ (n = 0 <=> from = to) /\ LastRow[from] \in Nat /\ LastRow[to] \in Nat
  BY RowsByAge
<1>2. LastRow[to] <= LastRow[MaxTransactions] /\ LastRow[MaxTransactions] \in Nat
  BY RowsByAge, ListingAssumption
<1>3. \A i \in 1 .. n : LastRow[to] + 1 - i \in AllRows
  BY <1>1, <1>2 DEF AllRows
<1> HIDE DEF n
<1>4. Rows(from, to) = [i \in 1 .. n |-> LastRow[to] + 1 - i]
  BY DEF Rows, n
<1>5. Rows(from, to) \in Seq(AllRows) /\ Len(Rows(from, to)) = n
  BY <1>1, <1>3, <1>4
<1> QED BY <1>1, <1>4, <1>5 DEF n

\* A page's distinct keys are its transactions (pagination.go:107-110).
LEMMA KeysOfPage ==
  ASSUME NEW from \in 0 .. MaxTransactions, NEW to \in 0 .. MaxTransactions, from <= to
  PROVE  /\ Keys(Rows(from, to)) = from + 1 .. to
         /\ Cardinality(Keys(Rows(from, to))) = to - from
<1> DEFINE p == Rows(from, to)
<1>1. /\ DOMAIN p = 1 .. LastRow[to] - LastRow[from]
      /\ \A i \in DOMAIN p : p[i] = LastRow[to] + 1 - i
  BY DEF Rows
<1>2. LastRow[from] \in Nat /\ LastRow[to] \in Nat
  BY RowsByAge
<1>3. ASSUME NEW i \in DOMAIN p PROVE Key(p[i]) \in from + 1 .. to
  <2>1. p[i] \in Nat /\ LastRow[from] < p[i] /\ p[i] <= LastRow[to]
    BY <1>1, <1>2
  <2> QED BY <2>1, KeyExists
<1>4. ASSUME NEW t \in from + 1 .. to PROVE \E i \in DOMAIN p : t = Key(p[i])
  <2>1. /\ LastRow[t] \in Nat /\ LastRow[t - 1] < LastRow[t]
        /\ LastRow[from] <= LastRow[t - 1] /\ LastRow[t] <= LastRow[to]
        /\ LastRow[t - 1] \in Nat
    <3>1. t \in 1 .. MaxTransactions /\ t - 1 \in 0 .. MaxTransactions /\ from <= t - 1 /\ t <= to
      BY ListingAssumption
    <3>2. /\ LastRow[t] \in Nat /\ LastRow[t - 1] \in Nat /\ LastRow[t - 1] < LastRow[t]
      BY <3>1, ListingAssumption
    <3>3. LastRow[from] <= LastRow[t - 1] /\ LastRow[t] <= LastRow[to]
      BY <3>1, RowsByAge
    <3> QED BY <3>2, <3>3
  <2> DEFINE i == LastRow[to] + 1 - LastRow[t]
  <2>2. i \in 1 .. LastRow[to] - LastRow[from] /\ LastRow[to] + 1 - i = LastRow[t]
    BY <1>2, <2>1
  <2> HIDE DEF i, p
  <2>3. i \in DOMAIN p /\ p[i] = LastRow[t]
    BY <1>1, <2>2
  <2>4. t \in 1 .. MaxTransactions
    BY ListingAssumption
  <2>5. Key(LastRow[t]) = t
    BY <2>1, <2>4, KeyOfRow
  <2> QED BY <2>3, <2>5
<1>5. Keys(p) = from + 1 .. to
  BY <1>3, <1>4 DEF Keys
<1>6. from + 1 \in Int /\ to \in Int /\ from \in Int
  BY ListingAssumption
<1>7. Cardinality(from + 1 .. to) = IF from + 1 > to THEN 0 ELSE to - (from + 1) + 1
  BY <1>6, FS_Interval
<1>8. Cardinality(from + 1 .. to) = to - from
  BY <1>6, <1>7
<1> QED BY <1>5, <1>8

---------------------------------------------------------------------------
(* What Next makes of a page.                                              *)

LEMMA PageEnds ==
  ASSUME NEW from \in 0 .. MaxTransactions, NEW to \in 0 .. MaxTransactions, from < to
  PROVE  LET p == Rows(from, to)
         IN  /\ p # <<>> /\ Len(p) >= 1
             /\ p[1] = LastRow[to]
             /\ Key(p[Len(p)]) = from + 1
             /\ IsLast(p) <=> to - from < limit
<1> DEFINE p == Rows(from, to)
<1>0. from <= to /\ from # to
  BY ListingAssumption
<1>1. LastRow[from] \in Nat /\ LastRow[to] \in Nat /\ LastRow[from] < LastRow[to]
  BY ListingAssumption
<1>2. /\ Len(p) = LastRow[to] - LastRow[from]
      /\ \A i \in 1 .. Len(p) : p[i] = LastRow[to] + 1 - i
      /\ p # <<>>
  BY <1>0, PageShape
<1>3. Len(p) >= 1 /\ p[1] = LastRow[to] /\ p[Len(p)] = LastRow[from] + 1
  BY <1>1, <1>2
<1>4. from + 1 \in 1 .. MaxTransactions /\ (from + 1) - 1 = from
  BY ListingAssumption
<1>5. LastRow[from] + 1 <= LastRow[from + 1]
  BY <1>1, <1>4, ListingAssumption
<1>6. Key(LastRow[from] + 1) = from + 1
  BY <1>1, <1>4, <1>5, KeyOfRow
<1>7. Cardinality(Keys(p)) = to - from
  BY <1>0, KeysOfPage
<1> QED
  BY <1>2, <1>3, <1>6, <1>7 DEF IsLast

LEMMA Bounds ==
  ASSUME TypeOK
  PROVE  /\ limit \in Nat \ {0} /\ Atmost(limit, DefaultPageSize) = limit
         /\ cursor \in 0 .. MaxTransactions
         /\ Top \in 0 .. MaxTransactions /\ Bottom \in 0 .. Top
         /\ Bottom \in 0 .. MaxTransactions
         /\ Top < limit => Bottom = 0
         /\ Top >= limit => Bottom = Top - limit
<1>1. limit \in 1 .. DefaultPageSize /\ cursor \in 0 .. MaxTransactions
      /\ transactions \in 0 .. MaxTransactions
  BY DEF TypeOK, PagingTypeOK
<1>2. limit \in Nat \ {0} /\ Atmost(limit, DefaultPageSize) = limit
  BY <1>1, PagingAssumption DEF Atmost
<1>3. Top \in 0 .. MaxTransactions
  BY <1>1, ListingAssumption DEF Top, Nil
<1> QED
  BY <1>1, <1>2, <1>3, ListingAssumption DEF Bottom, Below

\* Where a page may end.
LEMMA CutBounds ==
  ASSUME TypeOK, NEW t \in Cuts
  PROVE  /\ t \in 0 .. Top /\ t \in 0 .. MaxTransactions /\ t \in Nat
         /\ Top \in 0 .. MaxTransactions /\ Top \in Nat /\ limit \in Nat \ {0}
         /\ t = Top => Top = 0
         /\ ~ (Top - t < limit) => t = Top - limit
         /\ Top - t < limit /\ ~ ShortPages => t = 0
<1>1. /\ limit \in Nat \ {0} /\ Top \in 0 .. MaxTransactions /\ Bottom \in 0 .. Top
      /\ Top < limit => Bottom = 0
      /\ Top >= limit => Bottom = Top - limit
  BY Bounds
<1>2. t \in Bottom .. Top /\ (t = Bottom \/ (ShortPages /\ t < Top))
  BY DEF Cuts
<1>3. Top \in Nat /\ Bottom \in Nat /\ MaxTransactions \in Nat
  BY <1>1, ListingAssumption
<1>4. t \in Nat /\ t \in 0 .. Top /\ t \in 0 .. MaxTransactions
  BY <1>1, <1>2, <1>3
<1>5. t = Top => Top = 0
  BY <1>1, <1>2, <1>3
<1>6. ~ (Top - t < limit) => t = Top - limit
  BY <1>1, <1>2, <1>3
<1>7. Top - t < limit /\ ~ ShortPages => t = 0
  BY <1>1, <1>2, <1>3
<1> QED BY <1>1, <1>3, <1>4, <1>5, <1>6, <1>7

\* A page that comes a second time is full and ends where it ended.
LEMMA RepeatedPageStalls ==
  ASSUME IInv, Fetching, cursor # Nil
  PROVE  /\ RepeatedPage # <<>> /\ ~ IsLast(RepeatedPage)
         /\ Key(RepeatedPage[Len(RepeatedPage)]) = cursor
<1>1. page # <<>>
  BY DEF IInv, NothingYet
<1>2. fetches * limit + cursor - 1 = snapshot /\ cursor \in 1 .. snapshot
  BY <1>1 DEF IInv, FullPages, Fetching, Continues
<1>3. /\ limit \in Nat \ {0} /\ fetches \in Nat \ {0} /\ transactions \in 0 .. MaxTransactions
      /\ snapshot \in 0 .. transactions /\ cursor \in 1 .. MaxTransactions
  <2>1. started /\ TypeOK
    BY <1>1 DEF IInv
  <2>2. fetches >= 1 /\ fetches \in Nat
    BY <1>1 DEF IInv, TypeOK
  <2> QED BY <2>1, <2>2, Bounds DEF TypeOK, Nil
<1>4. fetches * limit >= limit
  BY <1>3
<1> DEFINE from == cursor - 1
           to == cursor + limit - 1
<1>5. to <= transactions
  BY <1>2, <1>3, <1>4
<1>6. RepeatedPage = Rows(from, to)
  BY <1>3, <1>5, Bounds DEF RepeatedPage, Atmost, IInv
<1>7. from \in 0 .. MaxTransactions /\ to \in 0 .. MaxTransactions /\ from < to
      /\ to - from = limit /\ from + 1 = cursor
  BY <1>3, <1>5, ListingAssumption
<1> HIDE DEF from, to
<1> QED
  BY <1>6, <1>7, <1>3, PageEnds

\* The three outcomes of a page: there was nothing left, the service did not
\* advance, or the transactions above t and up to Top arrived.
NothingLeft ==
  /\ Top = 0 /\ done' = TRUE /\ returned' = "end"
  /\ UNCHANGED <<limit, cursor, page, pos, err, delivered>>

Advances(t) ==
  /\ t < Top /\ cursor' = t + 1 /\ done' = (Top - t < limit)
  /\ Enter(Rows(t, Top))

LEMMA Outcomes ==
  ASSUME IInv, NextFetches
  PROVE  NothingLeft \/ (cursor # Nil /\ Stall) \/ \E t \in Cuts : Advances(t)
<1>1. TypeOK /\ Fetching
  BY DEF IInv, NextFetches
<1>2. PICK p \in Pages : Receive(p)
  BY DEF NextFetches
<1>3. ASSUME NEW t \in Cuts, p = Rows(t, Top) PROVE NothingLeft \/ Advances(t)
  <2>1. /\ t \in 0 .. Top /\ t \in 0 .. MaxTransactions /\ t \in Nat
        /\ Top \in 0 .. MaxTransactions /\ Top \in Nat
        /\ t = Top => Top = 0
    BY <1>1, CutBounds
  <2>2. CASE t = Top
    <3>1. Top = 0
      BY <2>1, <2>2
    <3>2. p = <<>>
      BY <1>3, <2>1, <2>2, PageShape
    <3> QED BY <1>2, <3>1, <3>2 DEF Receive, NothingLeft
  <2>3. CASE t < Top
    <3>1. /\ p # <<>> /\ Key(p[Len(p)]) = t + 1 /\ (IsLast(p) <=> Top - t < limit)
      BY <1>3, <2>1, <2>3, PageEnds
    <3>2. IsLast(p) = (Top - t < limit)
      BY <3>1 DEF IsLast
    <3>3. t + 1 # cursor
      <4>1. cursor \in 0 .. MaxTransactions
        BY <1>1, Bounds
      <4> QED BY <2>1, <2>3, <4>1 DEF Top, Nil
    <3>4. done' = IsLast(p) /\ cursor' = t + 1 /\ Enter(p)
      BY <1>2, <3>1, <3>3 DEF Receive
    <3> QED BY <1>3, <2>3, <3>2, <3>4 DEF Advances
  <2> QED BY <2>1, <2>2, <2>3
<1>4. CASE p \notin ServedPages
  <2>1. cursor # Nil /\ p = RepeatedPage
    BY <1>2, <1>4 DEF Pages
  <2>2. p # <<>> /\ ~ IsLast(p) /\ Key(p[Len(p)]) = cursor
    BY <1>1, <2>1, RepeatedPageStalls
  <2>3. Stall
    BY <1>2, <2>2 DEF Receive
  <2> QED BY <2>1, <2>3
<1> QED BY <1>3, <1>4 DEF ServedPages

---------------------------------------------------------------------------
(* The steps that do not ask the service keep every variable's type.       *)

LEMMA InitType ==
  ASSUME Init
  PROVE  TypeOK
<1>1. /\ limit \in 1 .. DefaultPageSize /\ cursor \in 0 .. MaxTransactions
      /\ transactions \in 0 .. MaxTransactions /\ snapshot \in 0 .. transactions
      /\ fetches \in Nat
  BY PagingAssumption, ListingAssumption DEF Init, PagingInit, Nil
<1>2. page \in Seq(AllRows) /\ delivered \in Seq(AllRows) /\ pos \in 0 .. Len(page)
  BY DEF Init, PagingInit
<1>3. /\ done \in BOOLEAN /\ started \in BOOLEAN
      /\ err \in {"none", "fetch", "stalled"} /\ returned \in {"none", "item", "end"}
  BY DEF Init, PagingInit
<1> QED BY <1>1, <1>2, <1>3 DEF TypeOK, PagingTypeOK

LEMMA PageSizeType ==
  ASSUME TypeOK, NEW n \in Sizes, PageSize(n), UNCHANGED <<transactions, snapshot, fetches>>
  PROVE  TypeOK'
<1>1. limit' \in 1 .. DefaultPageSize
  BY PagingAssumption DEF PageSize, BoundedPageSize
<1> QED BY <1>1 DEF TypeOK, PagingTypeOK, PageSize

LEMMA NextInPageType ==
  ASSUME TypeOK, NextInPage, UNCHANGED <<transactions, snapshot, fetches>>
  PROVE  TypeOK' /\ pos + 1 \in 1 .. Len(page)
<1>1. page \in Seq(AllRows) /\ Len(page) \in Nat /\ pos \in 0 .. Len(page) /\ pos < Len(page)
  BY DEF TypeOK, PagingTypeOK, NextInPage
<1>2. pos + 1 \in 1 .. Len(page)
  BY <1>1
<1>3. page[pos + 1] \in AllRows
  BY <1>1, <1>2
<1>4. delivered' \in Seq(AllRows)
  BY <1>3 DEF TypeOK, PagingTypeOK, NextInPage
<1> QED BY <1>1, <1>2, <1>4 DEF TypeOK, PagingTypeOK, NextInPage

---------------------------------------------------------------------------
(* Each step preserves the invariant.                                      *)

LEMMA GrowInv ==
  ASSUME IInv, Grow
  PROVE  IInv'
<1>1. TypeOK'
  <2>1. transactions' \in 0 .. MaxTransactions /\ transactions' = transactions + 1
    BY ListingAssumption DEF Grow, IInv, TypeOK
  <2> QED BY <2>1, ListingAssumption DEF Grow, IInv, TypeOK, PagingTypeOK, fields
<1> QED
  BY <1>1 DEF Grow, IInv, fields, Untouched, NothingYet, Continues, FullPages, Buffered,
              NoWastedFetch, EndsWhenDone

LEMMA PageSizeInv ==
  ASSUME IInv, NEW n \in Sizes, PageSize(n), UNCHANGED <<transactions, snapshot, fetches>>
  PROVE  IInv'
<1>1. TypeOK'
  BY PageSizeType DEF IInv
<1>2. Untouched /\ fetches = 0 /\ ~ started
  BY DEF IInv, PageSize
<1>3. Untouched' /\ fetches' = 0 /\ ~ started'
  BY <1>2 DEF PageSize, Untouched
<1> QED
  BY <1>1, <1>3 DEF IInv, Untouched, NothingYet, NoWastedFetch, EndsWhenDone

\* One more item delivered is one fewer buffered.
LEMMA CountingDown ==
  ASSUME NEW a \in Nat, NEW b \in Nat, NEW l \in Nat, NEW k \in Nat, NEW d \in Nat,
         d = b - a - (l - k)
  PROVE  /\ a + 1 + l - (k + 1) = b + 1 - (d + 1)
         /\ d + 1 = b - a - (l - (k + 1))
  OBVIOUS

LEMMA NextInPageInv ==
  ASSUME IInv, NextInPage, UNCHANGED <<transactions, snapshot, fetches>>
  PROVE  IInv'
<1>1. TypeOK' /\ pos + 1 \in 1 .. Len(page) /\ TypeOK
  BY NextInPageType DEF IInv
<1>2. page # <<>> /\ started /\ fetches >= 1 /\ Continues /\ FullPages
  BY <1>1 DEF IInv
<1>3. /\ UNCHANGED <<cursor, page, snapshot, done, err, limit, fetches, started>>
      /\ pos' = pos + 1 /\ delivered' = Append(delivered, page[pos + 1])
      /\ returned' = "item" /\ err = "none"
  BY DEF NextInPage
<1>4. /\ cursor \in 1 .. snapshot /\ snapshot \in 0 .. MaxTransactions
      /\ delivered \in Seq(AllRows) /\ Len(page) \in Nat /\ pos \in 1 .. Len(page)
      /\ page[pos + 1] \in AllRows
      /\ LastRow[snapshot] \in Nat /\ LastRow[cursor - 1] \in Nat
  <2>1. cursor \in 1 .. snapshot /\ snapshot \in 0 .. MaxTransactions
    BY <1>1, <1>2, ListingAssumption DEF TypeOK, Continues
  <2>2. delivered \in Seq(AllRows) /\ Len(page) \in Nat /\ pos \in 0 .. Len(page)
    BY <1>1 DEF TypeOK, PagingTypeOK
  <2>3. pos \in 1 .. Len(page)
    BY <1>2, <2>2 DEF Continues
  <2>4. cursor - 1 \in 0 .. MaxTransactions
    BY <2>1, ListingAssumption
  <2>5. page[pos + 1] \in AllRows
    BY <1>1 DEF TypeOK, PagingTypeOK
  <2> QED BY <2>1, <2>2, <2>3, <2>4, <2>5, ListingAssumption
<1>5. Continues'
  <2>1. Len(delivered') = Len(delivered) + 1
    BY <1>3, <1>4, AppendProperties
  <2>2. \A i \in 1 .. Len(delivered) : delivered'[i] = delivered[i]
    BY <1>3, <1>4, AppendProperties
  <2>3. delivered'[Len(delivered) + 1] = page[pos + 1]
    BY <1>3, <1>4, AppendProperties
  <2>4. page[pos + 1] = LastRow[cursor - 1] + 1 + Len(page) - (pos + 1)
    BY <1>1, <1>2, <1>4 DEF Continues
  <2>5. Len(delivered) = LastRow[snapshot] - LastRow[cursor - 1] - (Len(page) - pos)
    BY <1>2 DEF Continues, Buffered
  <2>7. /\ Len(delivered) \in Nat /\ pos \in Nat /\ Len(page) \in Nat
        /\ LastRow[snapshot] \in Nat /\ LastRow[cursor - 1] \in Nat
    BY <1>4
  <2>6. page[pos + 1] = LastRow[snapshot] + 1 - (Len(delivered) + 1)
    <3>1. LastRow[cursor - 1] + 1 + Len(page) - (pos + 1)
            = LastRow[snapshot] + 1 - (Len(delivered) + 1)
      BY <2>5, <2>7, CountingDown, SMTT(30)
    <3> QED BY <2>4, <3>1
  <2>8. \A i \in 1 .. Len(delivered') : delivered'[i] = LastRow[snapshot] + 1 - i
    <3> SUFFICES ASSUME NEW i \in 1 .. Len(delivered) + 1
                 PROVE  delivered'[i] = LastRow[snapshot] + 1 - i
      BY <2>1
    <3>1. i \in 1 .. Len(delivered) \/ i = Len(delivered) + 1
      BY <2>7
    <3>2. i \in 1 .. Len(delivered) => delivered[i] = LastRow[snapshot] + 1 - i
      BY <1>2 DEF Continues
    <3>3. CASE i \in 1 .. Len(delivered)
      BY <2>2, <3>2, <3>3
    <3>4. CASE i = Len(delivered) + 1
      BY <2>3, <2>6, <3>4
    <3> QED BY <3>1, <3>3, <3>4
  <2>9. Len(delivered') = LastRow[snapshot] - LastRow[cursor - 1] - (Len(page) - pos')
    <3>1. Len(delivered) + 1 = LastRow[snapshot] - LastRow[cursor - 1] - (Len(page) - (pos + 1))
      BY <2>5, <2>7, CountingDown, SMTT(30)
    <3> QED BY <1>3, <2>1, <3>1
  <2>10. \A i \in pos' + 1 .. Len(page) : page[i] = LastRow[cursor - 1] + 1 + Len(page) - i
    <3>1. \A i \in pos' + 1 .. Len(page) : i \in pos + 1 .. Len(page)
      BY <1>3, <1>4
    <3> QED BY <1>2, <3>1 DEF Continues
  <2>11. Len(delivered') >= 1 /\ pos' >= 1
    BY <1>3, <1>4, <2>1, <2>7
  <2> QED BY <1>3, <1>4, <2>8, <2>9, <2>10, <2>11 DEF Continues, Buffered
<1>6. FullPages' /\ NoWastedFetch'
  BY <1>2, <1>3 DEF FullPages, NoWastedFetch, IInv
<1> QED BY <1>1, <1>2, <1>3, <1>5, <1>6 DEF IInv, EndsWhenDone

LEMMA NextOverInv ==
  ASSUME IInv, NextOver, UNCHANGED <<transactions, snapshot, fetches>>
  PROVE  IInv'
<1>1. TypeOK'
  BY DEF IInv, TypeOK, PagingTypeOK, NextOver, fields
<1>2. started
  BY DEF IInv, NextOver, Untouched
<1> QED
  BY <1>1, <1>2 DEF NextOver, IInv, fields, NothingYet, Continues, FullPages, Buffered,
              NoWastedFetch, EndsWhenDone

\* What holds when Next is about to ask the service.
LEMMA BeforeFetch ==
  ASSUME IInv, Fetching
  PROVE  /\ page = <<>> => ~ started /\ fetches = 0 /\ cursor = Nil /\ delivered = <<>>
         /\ page # <<>> => /\ fetches >= 1 /\ Continues /\ Buffered = 0
                          /\ fetches * limit + cursor - 1 = snapshot
         /\ fetches \in Nat /\ limit \in Nat \ {0}
<1>1. TypeOK
  BY DEF IInv
<1>2. Buffered = 0 /\ fetches \in Nat /\ limit \in Nat \ {0}
  BY <1>1, Bounds DEF Buffered, Fetching, TypeOK, PagingTypeOK
<1> QED
  BY <1>2 DEF IInv, Fetching, NothingYet, FullPages

LEMMA NextFetchFailsInv ==
  ASSUME IInv, NextFetchFails, fetches' = fetches + 1, UNCHANGED <<transactions, snapshot>>
  PROVE  IInv'
<1>1. /\ Fetching /\ started' = TRUE /\ err' = "fetch" /\ returned' = "end"
      /\ UNCHANGED <<limit, cursor, page, pos, done, delivered>>
  BY DEF NextFetchFails
<1>2. TypeOK'
  BY <1>1 DEF IInv, TypeOK, PagingTypeOK
<1>3. CASE page = <<>>
  <2>1. fetches' = 1 /\ NothingYet'
    BY <1>1, <1>3, BeforeFetch DEF NothingYet, Fetching
  <2> QED BY <1>1, <1>2, <1>3, <2>1 DEF IInv, NoWastedFetch, EndsWhenDone
<1>4. CASE page # <<>>
  <2>1. /\ fetches >= 1 /\ Continues /\ fetches * limit + cursor - 1 = snapshot
        /\ fetches \in Nat /\ limit \in Nat \ {0} /\ cursor \in 1 .. snapshot
    BY <1>1, <1>4, BeforeFetch DEF Continues
  <2>2. Continues' /\ FullPages'
    BY <1>1, <2>1 DEF Continues, FullPages, Buffered, Fetching
  <2>3. NoWastedFetch'
    <3>1. fetches' - 1 = fetches
      BY <2>1
    <3>2. fetches * limit \in Nat /\ snapshot \in Nat
      BY <2>1 DEF IInv, TypeOK
    <3>3. fetches * limit <= snapshot
      BY <2>1, <3>2
    <3> QED BY <1>1, <3>1, <3>3 DEF NoWastedFetch
  <2> QED BY <1>1, <1>2, <1>4, <2>1, <2>2, <2>3 DEF IInv, EndsWhenDone
<1> QED BY <1>3, <1>4

\* What is delivered when a page is asked for are the snapshot's rows above
\* Top, and that took full pages only.
LEMMA DeliveredAboveTop ==
  ASSUME IInv, Fetching, snapshot' = IF delivered = <<>> THEN transactions ELSE snapshot
  PROVE  /\ snapshot' \in 0 .. transactions /\ Top \in 0 .. snapshot'
         /\ delivered \in Seq(AllRows)
         /\ Len(delivered) = LastRow[snapshot'] - LastRow[Top]
         /\ \A i \in 1 .. Len(delivered) : delivered[i] = LastRow[snapshot'] + 1 - i
         /\ fetches * limit + Top = snapshot'
         /\ delivered = <<>> => snapshot' = Top
<1>1. /\ transactions \in 0 .. MaxTransactions /\ delivered \in Seq(AllRows)
      /\ snapshot \in 0 .. transactions /\ limit \in Nat /\ fetches \in Nat
      /\ cursor \in 0 .. MaxTransactions
  BY BeforeFetch DEF IInv, TypeOK, PagingTypeOK
<1>2. CASE page = <<>>
  <2>1. fetches = 0 /\ cursor = Nil /\ delivered = <<>>
    BY <1>2, BeforeFetch
  <2>2. snapshot' = Top /\ Top = transactions
    BY <2>1 DEF Top
  <2>3. LastRow[Top] \in Nat
    BY <1>1, <2>2, ListingAssumption
  <2>4. fetches * limit = 0
    BY <1>1, <2>1
  <2> QED BY <1>1, <2>1, <2>2, <2>3, <2>4
<1>3. CASE page # <<>>
  <2>1. Continues /\ Buffered = 0 /\ fetches * limit + cursor - 1 = snapshot
    BY <1>3, BeforeFetch
  <2>2. delivered # <<>> /\ cursor \in 1 .. snapshot
    BY <2>1 DEF Continues
  <2>3. snapshot' = snapshot /\ Top = cursor - 1
    BY <2>2 DEF Top, Nil
  <2>4. Len(delivered) = LastRow[snapshot] - LastRow[Top]
    <3>1. LastRow[snapshot] \in Nat /\ LastRow[Top] \in Nat
      BY <1>1, <2>2, <2>3, ListingAssumption
    <3> QED BY <2>1, <2>3, <3>1 DEF Continues
  <2>5. fetches * limit \in Nat
    BY <1>1
  <2>6. fetches * limit + Top = snapshot
    BY <1>1, <2>1, <2>2, <2>3, <2>5
  <2>7. Top \in 0 .. snapshot
    BY <1>1, <2>2, <2>3
  <2> QED BY <1>1, <2>1, <2>2, <2>3, <2>4, <2>6, <2>7 DEF Continues
<1> QED BY <1>2, <1>3

\* The rows of a page continue what was delivered before it.
LEMMA AdvancesContinues ==
  ASSUME IInv, NextFetches, NEW t \in Cuts, Advances(t)
  PROVE  Continues' /\ page' # <<>> /\ page' \in Seq(AllRows) /\ delivered' \in Seq(AllRows)
<1> DEFINE p == Rows(t, Top)
           latest == LastRow[snapshot']
           oldest == LastRow[t]
<1>1. /\ Fetching /\ snapshot' = IF delivered = <<>> THEN transactions ELSE snapshot
      /\ page' = p /\ pos' = 1 /\ delivered' = Append(delivered, p[1]) /\ cursor' = t + 1
  BY DEF NextFetches, Advances, Enter
<1>2. /\ snapshot' \in 0 .. transactions /\ Top \in 0 .. snapshot'
      /\ delivered \in Seq(AllRows)
      /\ Len(delivered) = latest - LastRow[Top]
      /\ \A i \in 1 .. Len(delivered) : delivered[i] = latest + 1 - i
  BY <1>1, DeliveredAboveTop
<1>3. /\ t \in 0 .. MaxTransactions /\ Top \in 0 .. MaxTransactions
      /\ t < Top /\ snapshot' \in 0 .. MaxTransactions
  <2>1. TypeOK
    BY DEF IInv
  <2>2. Top \in 0 .. MaxTransactions /\ t \in 0 .. MaxTransactions
    BY <2>1, CutBounds
  <2>3. t < Top
    BY DEF Advances
  <2>4. transactions \in 0 .. MaxTransactions
    BY <2>1 DEF TypeOK
  <2> QED BY <1>2, <2>2, <2>3, <2>4, ListingAssumption
<1>4. latest \in Nat /\ oldest \in Nat /\ LastRow[Top] \in Nat
  BY <1>3, ListingAssumption
<1>5. /\ p \in Seq(AllRows) /\ p # <<>> /\ Len(p) = LastRow[Top] - oldest
      /\ \A i \in 1 .. Len(p) : p[i] = LastRow[Top] + 1 - i
  <2>1. t <= Top /\ t # Top
    BY <1>3
  <2> QED BY <1>3, <2>1, PageShape
<1>6. Len(p) >= 1 /\ p[1] = LastRow[Top] /\ p[1] \in AllRows /\ Len(p) \in Nat
  BY <1>4, <1>5
<1> HIDE DEF p, latest, oldest
<1>7. /\ Len(delivered') = Len(delivered) + 1 /\ Len(delivered) \in Nat
      /\ \A i \in 1 .. Len(delivered) : delivered'[i] = delivered[i]
      /\ delivered'[Len(delivered) + 1] = LastRow[Top]
      /\ delivered' \in Seq(AllRows)
  BY <1>1, <1>2, <1>6, AppendProperties
<1>8. LastRow[Top] = latest + 1 - (Len(delivered) + 1)
  BY <1>2, <1>4, <1>7, SMTT(30)
<1>9. \A i \in 1 .. Len(delivered') : delivered'[i] = latest + 1 - i
  <2> SUFFICES ASSUME NEW i \in 1 .. Len(delivered') PROVE delivered'[i] = latest + 1 - i
    OBVIOUS
  <2>1. i \in 1 .. Len(delivered) \/ i = Len(delivered) + 1
    BY <1>7
  <2>2. CASE i \in 1 .. Len(delivered)
    BY <1>2, <1>7, <2>2
  <2>3. CASE i = Len(delivered) + 1
    BY <1>7, <1>8, <2>3
  <2> QED BY <2>1, <2>2, <2>3
<1>10. /\ Len(delivered') = latest - oldest - (Len(p) - 1)
       /\ \A i \in 1 + 1 .. Len(p) : p[i] = oldest + 1 + Len(p) - i
  <2>0. Len(delivered) = latest - LastRow[Top] /\ Len(p) = LastRow[Top] - oldest
        /\ Len(delivered') = Len(delivered) + 1
    BY <1>2, <1>5, <1>7
  <2>1. Len(delivered') = latest - oldest - (Len(p) - 1)
    BY <1>4, <2>0, SMTT(30)
  <2>2. LastRow[Top] = oldest + Len(p)
    BY <1>4, <2>0, SMTT(30)
  <2>3. ASSUME NEW i \in 1 + 1 .. Len(p) PROVE p[i] = oldest + 1 + Len(p) - i
    <3>1. i \in 1 .. Len(p)
      BY <1>6
    <3>2. p[i] = LastRow[Top] + 1 - i
      BY <1>5, <3>1
    <3> QED BY <1>4, <1>6, <2>2, <3>1, <3>2
  <2> QED BY <2>1, <2>3
<1>11. cursor' \in 1 .. snapshot' /\ cursor' - 1 = t
  <2>1. t \in Nat /\ Top \in Nat /\ snapshot' \in Nat
    BY <1>3, ListingAssumption
  <2>2. cursor' = t + 1 /\ t < Top /\ Top \in 0 .. snapshot'
    BY <1>1, <1>2, <1>3
  <2> QED BY <2>1, <2>2
<1>12. Len(delivered') >= 1
  BY <1>7
<1> QED
  BY <1>1, <1>5, <1>7, <1>9, <1>10, <1>11, <1>12 DEF Continues, Buffered, latest, oldest

LEMMA NextFetchesInv ==
  ASSUME IInv, NextFetches
  PROVE  IInv'
<1>1. /\ Fetching /\ started' = TRUE /\ fetches' = fetches + 1 /\ UNCHANGED transactions
      /\ snapshot' = IF delivered = <<>> THEN transactions ELSE snapshot
  BY DEF NextFetches
<1>2. /\ snapshot' \in 0 .. transactions /\ Top \in 0 .. snapshot'
      /\ fetches * limit + Top = snapshot' /\ (delivered = <<>> => snapshot' = Top)
  BY <1>1, DeliveredAboveTop
<1>3. /\ fetches \in Nat /\ limit \in Nat \ {0} /\ fetches * limit \in Nat
      /\ transactions \in Nat /\ snapshot' \in Nat /\ Top \in Nat
      /\ (fetches + 1) * limit = fetches * limit + limit
  <2>1. fetches \in Nat /\ limit \in Nat \ {0} /\ transactions \in Nat
    BY <1>1, BeforeFetch DEF IInv, TypeOK
  <2>2. fetches * limit \in Nat /\ (fetches + 1) * limit = fetches * limit + limit
    BY <2>1
  <2> QED BY <1>2, <2>1, <2>2
<1>4. fetches' - 1 = fetches /\ fetches' \in Nat /\ fetches' >= 1
  BY <1>1, <1>3
<1>5. limit' = limit => NoWastedFetch'
  <2>1. fetches * limit <= snapshot'
    BY <1>2, <1>3
  <2> QED BY <1>4, <2>1 DEF NoWastedFetch
<1>6. CASE NothingLeft
  <2>1. /\ done' = TRUE /\ returned' = "end" /\ Top = 0
        /\ UNCHANGED <<limit, cursor, page, pos, err, delivered>>
    BY <1>6 DEF NothingLeft
  <2>2. TypeOK'
    BY <1>1, <1>2, <1>4, <2>1 DEF IInv, TypeOK, PagingTypeOK
  <2>3. EndsWhenDone'
    BY <1>1, <2>1 DEF EndsWhenDone, Fetching
  <2>4. page' = <<>> => NothingYet'
    BY <1>1, <1>2, <1>4, <2>1, BeforeFetch DEF NothingYet
  <2>5. ASSUME page # <<>> PROVE Continues' /\ FullPages'
    <3>1. Continues
      BY <1>1, <2>5, BeforeFetch
    <3>2. cursor = 1 /\ delivered # <<>>
      BY <2>1, <3>1, <1>3 DEF Top, Continues, Nil
    <3>3. snapshot' = snapshot
      BY <1>1, <3>2
    <3> QED BY <2>1, <3>1, <3>2, <3>3 DEF Continues, Buffered, FullPages
  <2> QED BY <1>1, <1>4, <1>5, <2>1, <2>2, <2>3, <2>4, <2>5 DEF IInv
<1>7. CASE cursor # Nil /\ Stall
  <2>1. /\ err' = "stalled" /\ returned' = "end"
        /\ UNCHANGED <<limit, cursor, page, pos, done, delivered>>
    BY <1>7 DEF Stall
  <2>2. page # <<>>
    BY <1>1, <1>7, BeforeFetch
  <2>3. Continues /\ delivered # <<>>
    BY <1>1, <2>2, BeforeFetch DEF Continues
  <2>4. snapshot' = snapshot
    BY <1>1, <2>3
  <2>5. TypeOK'
    BY <1>1, <1>2, <1>4, <2>1 DEF IInv, TypeOK, PagingTypeOK
  <2>6. Continues'
    BY <2>1, <2>3, <2>4 DEF Continues, Buffered
  <2>7. FullPages' /\ EndsWhenDone'
    BY <1>1, <2>1 DEF Fetching, FullPages, EndsWhenDone
  <2> QED BY <1>1, <1>4, <1>5, <2>1, <2>2, <2>5, <2>6, <2>7 DEF IInv
<1>8. ASSUME NEW t \in Cuts, Advances(t) PROVE IInv'
  <2>1. /\ cursor' = t + 1 /\ done' = (Top - t < limit) /\ pos' = 1 /\ returned' = "item"
        /\ UNCHANGED <<limit, err>> /\ err = "none"
    BY <1>1, <1>8 DEF Advances, Enter, Fetching
  <2>2. /\ Continues' /\ page' # <<>> /\ page' \in Seq(AllRows) /\ delivered' \in Seq(AllRows)
    BY <1>8, AdvancesContinues
  <2>3. /\ t \in Nat /\ t + 1 \in 0 .. MaxTransactions
        /\ ~ (Top - t < limit) => t = Top - limit
        /\ Top - t < limit /\ ~ ShortPages => t = 0
    <3>1. TypeOK
      BY DEF IInv
    <3>2. /\ t \in Nat /\ Top \in 0 .. MaxTransactions
          /\ ~ (Top - t < limit) => t = Top - limit
          /\ Top - t < limit /\ ~ ShortPages => t = 0
      BY <3>1, CutBounds
    <3>3. t < Top
      BY <1>8 DEF Advances
    <3> QED BY <1>3, <3>2, <3>3, ListingAssumption
  <2>4. Len(page') \in Nat /\ pos' \in 0 .. Len(page')
    <3>1. Len(page') \in Nat /\ Len(page') # 0
      BY <2>2
    <3> QED BY <2>1, <3>1
  <2>5. TypeOK'
    BY <1>1, <1>2, <1>4, <2>1, <2>2, <2>3, <2>4 DEF IInv, TypeOK, PagingTypeOK
  <2>6. FullPages'
    <3>1. fetches' * limit' = fetches * limit + limit
      BY <1>1, <1>3, <2>1
    <3>2. (done' => Top - t < limit) /\ (~ done' => ~ (Top - t < limit))
      BY <2>1
    <3>3. ~ (Top - t < limit) => fetches' * limit' + cursor' - 1 = snapshot'
      BY <1>2, <1>3, <2>1, <2>3, <3>1
    <3>4. Top - t < limit /\ ~ ShortPages => cursor' = 1
      BY <2>1, <2>3
    <3> QED BY <3>2, <3>3, <3>4 DEF FullPages
  <2>7. EndsWhenDone'
    BY <2>1 DEF EndsWhenDone
  <2> QED BY <1>1, <1>4, <1>5, <2>1, <2>2, <2>5, <2>6, <2>7 DEF IInv
<1> QED BY <1>6, <1>7, <1>8, Outcomes

---------------------------------------------------------------------------
(* The theorems.                                                           *)

\* The iterator's fields stay consistent, Item never indexes past the page,
\* and what was delivered and buffered is the listing of the first page's
\* moment down to the cursor: the invariant the other theorems rest on.
THEOREM Invariance == Spec => []IInv
<1>1. Init => IInv
  <2> SUFFICES ASSUME Init PROVE IInv
    OBVIOUS
  <2>1. TypeOK
    BY InitType
  <2>2. Untouched /\ fetches = 0 /\ ~ started
    BY DEF Init, PagingInit, Untouched
  <2> QED BY <2>1, <2>2 DEF IInv, Untouched, NothingYet, NoWastedFetch, EndsWhenDone
<1>2. IInv /\ [Next]_vars => IInv'
  <2> SUFFICES ASSUME IInv, [Next]_vars PROVE IInv'
    OBVIOUS
  <2>1. CASE Grow
    BY <2>1, GrowInv
  <2>2. CASE NextFetches
    BY <2>2, NextFetchesInv
  <2>3. ASSUME NEW n \in Sizes, PageSize(n), UNCHANGED <<transactions, snapshot, fetches>>
        PROVE  IInv'
    BY <2>3, PageSizeInv
  <2>4. CASE NextInPage /\ UNCHANGED <<transactions, snapshot, fetches>>
    BY <2>4, NextInPageInv
  <2>5. CASE NextOver /\ UNCHANGED <<transactions, snapshot, fetches>>
    BY <2>5, NextOverInv
  <2>6. CASE NextFetchFails /\ fetches' = fetches + 1 /\ UNCHANGED <<transactions, snapshot>>
    BY <2>6, NextFetchFailsInv
  <2>7. CASE UNCHANGED vars
    BY <2>7 DEF vars, fields, IInv, TypeOK, PagingTypeOK, Untouched, NothingYet, Continues,
                Buffered, FullPages, NoWastedFetch, EndsWhenDone
  <2> QED BY <2>1, <2>2, <2>3, <2>4, <2>5, <2>6, <2>7 DEF Next
<1> QED BY <1>1, <1>2, PTL DEF Spec

\* Every variable keeps its type: Item never indexes past the page, and no
\* page is asked for that the service would cut short (pagination.go:16-21,
\* 124).
THEOREM TypeCorrect == Spec => []TypeOK
<1>1. IInv => TypeOK
  BY DEF IInv
<1> QED BY <1>1, Invariance, PTL

\* Only a full page is followed by another request (pagination.go:89-91,
\* 110-112).
THEOREM FetchesNeeded == Spec => []NoWastedFetch
<1>1. IInv => NoWastedFetch
  BY DEF IInv
<1> QED BY <1>1, Invariance, PTL

---------------------------------------------------------------------------
(* What was delivered is the listing's beginning, and with full pages      *)
(* Iterator implements Walk.                                               *)

LEMMA PrefixOfListing ==
  ASSUME NEW n \in 0 .. MaxTransactions, NEW d \in Seq(AllRows),
         Len(d) <= LastRow[n], \A i \in 1 .. Len(d) : d[i] = LastRow[n] + 1 - i
  PROVE  /\ Rows(0, n) \in Seq(AllRows) /\ Len(Rows(0, n)) = LastRow[n]
         /\ d = SubSeq(Rows(0, n), 1, Len(d))
         /\ Len(d) = LastRow[n] => d = Rows(0, n)
<1>1. /\ Rows(0, n) \in Seq(AllRows) /\ Len(Rows(0, n)) = LastRow[n]
      /\ \A i \in 1 .. LastRow[n] : Rows(0, n)[i] = LastRow[n] + 1 - i
      /\ LastRow[n] \in Nat
  <2>1. 0 \in 0 .. MaxTransactions /\ 0 <= n /\ LastRow[0] = 0 /\ LastRow[n] \in Nat
    BY ListingAssumption
  <2>2. /\ Rows(0, n) \in Seq(AllRows) /\ Len(Rows(0, n)) = LastRow[n] - LastRow[0]
        /\ \A i \in 1 .. Len(Rows(0, n)) : Rows(0, n)[i] = LastRow[n] + 1 - i
    BY <2>1, PageShape
  <2>3. LastRow[n] - LastRow[0] = LastRow[n]
    BY <2>1
  <2> QED BY <2>1, <2>2, <2>3
<1>2. \A i \in 1 .. Len(d) : d[i] = Rows(0, n)[i]
  BY <1>1
<1> HIDE DEF Rows
<1>3. d = SubSeq(Rows(0, n), 1, Len(d))
  BY <1>1, <1>2
<1>4. Len(d) = LastRow[n] => d = Rows(0, n)
  BY <1>1, <1>2, SeqEqual
<1> QED BY <1>1, <1>3, <1>4

\* What the walk delivered is the beginning of its listing.
LEMMA DeliveredFromListing ==
  ASSUME NEW n \in 0 .. MaxTransactions, NEW c \in 0 .. n, NEW rest \in Nat,
         NEW d \in Seq(AllRows),
         Len(d) = LastRow[n] - LastRow[c] - rest,
         \A i \in 1 .. Len(d) : d[i] = LastRow[n] + 1 - i
  PROVE  /\ Rows(0, n) \in Seq(AllRows) /\ Len(Rows(0, n)) = LastRow[n]
         /\ d = SubSeq(Rows(0, n), 1, Len(d))
         /\ Len(d) <= LastRow[n]
         /\ c = 0 /\ rest = 0 => d = Rows(0, n)
<1>1. /\ LastRow[n] \in Nat /\ LastRow[c] \in Nat /\ Len(d) \in Nat
      /\ LastRow[0] = 0
  BY ListingAssumption
<1>2. Len(d) <= LastRow[n] /\ (c = 0 /\ rest = 0 => Len(d) = LastRow[n])
  BY <1>1
<1> QED BY <1>2, PrefixOfListing

LEMMA NoListing ==
  0 \in 0 .. MaxTransactions /\ Rows(0, 0) = <<>>
<1>1. 0 \in 0 .. MaxTransactions /\ 0 <= 0
  BY ListingAssumption
<1> QED BY <1>1, PageShape

\* An item that is delivered is the next one of the listing.
LEMMA DeliveryIsNext ==
  ASSUME IInv, IInv', NEW x, page' # <<>>,
         delivered' = Append(delivered, x),
         delivered # <<>> => snapshot' = snapshot,
         err = "none", err' = "none", returned # "end", returned' = "item"
  PROVE  W!Deliver
<1>1. Continues' /\ TypeOK' /\ TypeOK
  BY DEF IInv
<1>2. /\ delivered' \in Seq(AllRows) /\ Buffered' \in Nat /\ snapshot' \in 0 .. MaxTransactions
      /\ cursor' - 1 \in 0 .. snapshot'
  <2>1. /\ transactions' \in 0 .. MaxTransactions /\ snapshot' \in 0 .. transactions'
        /\ delivered' \in Seq(AllRows) /\ page' \in Seq(AllRows) /\ pos' \in 0 .. Len(page')
    BY <1>1 DEF TypeOK, PagingTypeOK
  <2>2. Len(page') \in Nat
    BY <2>1
  <2>3. cursor' \in 1 .. snapshot'
    BY <1>1 DEF Continues
  <2>4. snapshot' \in 0 .. MaxTransactions
    BY <2>1, ListingAssumption
  <2>5. Buffered' \in Nat
    BY <2>1, <2>2 DEF Buffered
  <2>6. cursor' - 1 \in 0 .. snapshot'
    <3>1. snapshot' \in Int /\ cursor' \in Int /\ 1 <= cursor' /\ cursor' <= snapshot'
      BY <2>3, <2>4, ListingAssumption
    <3>2. \A c, n \in Int : 1 <= c /\ c <= n => c - 1 \in 0 .. n
      OBVIOUS
    <3> QED BY <3>1, <3>2
  <2> QED BY <2>1, <2>4, <2>5, <2>6
<1>3. /\ Len(delivered') = LastRow[snapshot'] - LastRow[cursor' - 1] - Buffered'
      /\ \A i \in 1 .. Len(delivered') : delivered'[i] = LastRow[snapshot'] + 1 - i
  BY <1>1 DEF Continues
<1>4. /\ Len(Rows(0, snapshot')) = LastRow[snapshot']
      /\ delivered' = SubSeq(Rows(0, snapshot'), 1, Len(delivered'))
      /\ Len(delivered') <= LastRow[snapshot']
  BY <1>2, <1>3, DeliveredFromListing
<1>5. Len(delivered') = Len(delivered) + 1 /\ Len(delivered) \in Nat
  BY <1>1 DEF TypeOK, PagingTypeOK
<1>6. Len(delivered) < Len(Rows(0, snapshot'))
  <2>1. LastRow[snapshot'] \in Nat
    BY <1>2, ListingAssumption
  <2> QED BY <1>4, <1>5, <2>1
<1>7. Status = "walking" /\ Status' = "walking"
  BY DEF Status
<1>8. W!Settle
  BY <1>2 DEF W!Settle
<1> QED BY <1>4, <1>5, <1>6, <1>7, <1>8 DEF W!Deliver

\* A walk that is over has delivered its listing, if no page was short.
LEMMA DoneIsWhole ==
  ASSUME IInv, ~ ShortPages, done, pos = Len(page)
  PROVE  delivered = Rows(0, snapshot) /\ snapshot \in 0 .. MaxTransactions
<1>1. TypeOK
  BY DEF IInv
<1>2. snapshot \in 0 .. MaxTransactions /\ delivered \in Seq(AllRows) /\ Len(page) \in Nat
  BY <1>1, ListingAssumption DEF TypeOK, PagingTypeOK
<1>3. CASE page = <<>>
  BY <1>2, <1>3, NoListing DEF IInv, NothingYet
<1>4. CASE page # <<>>
  <2>1. Continues /\ cursor = 1 /\ Buffered = 0
    BY <1>2, <1>4 DEF IInv, FullPages, Buffered
  <2>2. /\ Len(delivered) = LastRow[snapshot] - LastRow[0] - 0
        /\ \A i \in 1 .. Len(delivered) : delivered[i] = LastRow[snapshot] + 1 - i
    BY <2>1 DEF Continues
  <2>3. 0 \in 0 .. snapshot /\ 0 \in Nat
    BY <1>2
  <2> QED BY <1>2, <2>2, <2>3, DeliveredFromListing
<1> QED BY <1>2, <1>3, <1>4

\* What the caller has been given is a beginning of the listing of the first
\* page's moment, none skipped and none repeated, even when the service sends
\* short pages before the end (pagination.go:82-121).
DeliveredIsPrefix == delivered = SubSeq(Rows(0, snapshot), 1, Len(delivered))

THEOREM NoneSkippedNorRepeated == Spec => []DeliveredIsPrefix
<1>1. IInv => DeliveredIsPrefix
  <2> SUFFICES ASSUME IInv PROVE DeliveredIsPrefix
    OBVIOUS
  <2>1. TypeOK
    BY DEF IInv
  <2>2. /\ snapshot \in 0 .. MaxTransactions /\ delivered \in Seq(AllRows)
        /\ Len(page) \in Nat /\ pos \in 0 .. Len(page) /\ 0 \in 0 .. snapshot
    BY <2>1, ListingAssumption DEF TypeOK, PagingTypeOK
  <2>3. CASE page = <<>>
    <3>1. delivered = <<>>
      BY <2>3 DEF IInv, NothingYet
    <3>2. Len(delivered) = 0 /\ LastRow[snapshot] \in Nat
      BY <2>2, <3>1, ListingAssumption
    <3>3. Len(delivered) <= LastRow[snapshot]
          /\ \A i \in 1 .. Len(delivered) : delivered[i] = LastRow[snapshot] + 1 - i
      BY <3>2
    <3> QED BY <2>2, <3>3, PrefixOfListing DEF DeliveredIsPrefix
  <2>4. CASE page # <<>>
    <3>1. Continues
      BY <2>4 DEF IInv
    <3>2. /\ Len(delivered) = LastRow[snapshot] - LastRow[cursor - 1] - Buffered
          /\ \A i \in 1 .. Len(delivered) : delivered[i] = LastRow[snapshot] + 1 - i
          /\ cursor \in 1 .. snapshot
      BY <3>1 DEF Continues
    <3>3. Buffered \in Nat
      BY <2>2 DEF Buffered
    <3>4. cursor - 1 \in 0 .. snapshot
      BY <2>2, <3>2, ListingAssumption
    <3> QED BY <2>2, <3>2, <3>3, <3>4, DeliveredFromListing DEF DeliveredIsPrefix
  <2> QED BY <2>3, <2>4
<1> QED BY <1>1, Invariance, PTL

\* An ended walk has delivered its whole listing, from a service that fills
\* every page but the last (pagination.go:107-111, users.go:84-88).
THEOREM EndsWhole == ASSUME ~ ShortPages PROVE Spec => []EndsWithEverything
<1>1. IInv => EndsWithEverything
  BY DoneIsWhole DEF EndsWithEverything, Status, IInv, EndsWhenDone
<1> QED BY <1>1, Invariance, PTL

LEMMA NextInPageWalks ==
  ASSUME IInv, IInv', NextInPage, UNCHANGED <<transactions, snapshot, fetches>>
  PROVE  W!Deliver
<1>1. /\ err = "none" /\ pos < Len(page) /\ returned' = "item"
      /\ UNCHANGED <<page, err>> /\ delivered' = Append(delivered, page[pos + 1])
  BY DEF NextInPage
<1>2. page # <<>> /\ page \in Seq(AllRows) /\ pos \in 0 .. Len(page)
  <2>1. pos + 1 \in 1 .. Len(page) /\ page \in Seq(AllRows) /\ pos \in 0 .. Len(page)
    BY NextInPageType DEF IInv, TypeOK, PagingTypeOK
  <2> QED BY <2>1
<1>3. returned # "end"
  BY <1>1, <1>2 DEF IInv, EndsWhenDone
<1> QED BY <1>1, <1>2, <1>3, DeliveryIsNext

LEMMA NextOverWalks ==
  ASSUME IInv, ~ ShortPages, NextOver, UNCHANGED <<transactions, snapshot, fetches>>
  PROVE  W!End \/ UNCHANGED W!vars
<1>1. UNCHANGED <<snapshot, delivered, err>> /\ returned' = "end"
  BY DEF NextOver, fields
<1>2. CASE err # "none" \/ returned = "end"
  BY <1>1, <1>2 DEF W!vars, Status
<1>3. CASE err = "none" /\ returned # "end"
  <2>1. delivered = Rows(0, snapshot) /\ snapshot \in 0 .. MaxTransactions
    BY <1>3, DoneIsWhole DEF NextOver
  <2>2. Status = "walking" /\ Status' = "ended"
    BY <1>1, <1>3 DEF Status
  <2> QED BY <1>1, <2>1, <2>2 DEF W!End, W!Settle
<1> QED BY <1>2, <1>3

LEMMA StoppingFails ==
  ASSUME IInv, Fetching, err' # "none", UNCHANGED <<snapshot, delivered>>
  PROVE  W!Fail
<1>1. Status = "walking" /\ Status' = "failed"
  BY DEF Status, Fetching, IInv, EndsWhenDone
<1> QED BY <1>1 DEF W!Fail

LEMMA NextFetchesWalks ==
  ASSUME IInv, IInv', NextFetches
  PROVE  W!Next
<1>1. /\ Fetching /\ snapshot' = IF delivered = <<>> THEN transactions ELSE snapshot
      /\ err = "none" /\ returned # "end"
  BY DEF NextFetches, Fetching, IInv, EndsWhenDone
<1>2. CASE NothingLeft
  <2>1. /\ done' /\ returned' = "end" /\ UNCHANGED <<page, pos, err, delivered>> /\ Top = 0
    BY <1>2 DEF NothingLeft
  <2>2. snapshot' \in 0 .. MaxTransactions /\ delivered = Rows(0, snapshot')
    <3>1. /\ snapshot' \in 0 .. transactions /\ delivered \in Seq(AllRows)
          /\ Len(delivered) = LastRow[snapshot'] - LastRow[0] - 0
          /\ \A i \in 1 .. Len(delivered) : delivered[i] = LastRow[snapshot'] + 1 - i
      <4>1. /\ snapshot' \in 0 .. transactions /\ delivered \in Seq(AllRows)
            /\ Len(delivered) = LastRow[snapshot'] - LastRow[Top]
            /\ \A i \in 1 .. Len(delivered) : delivered[i] = LastRow[snapshot'] + 1 - i
        BY <1>1, DeliveredAboveTop
      <4>2. Len(delivered) \in Nat /\ LastRow[0] = 0
        BY <4>1, ListingAssumption
      <4> QED BY <2>1, <4>1, <4>2
    <3>2. transactions \in 0 .. MaxTransactions
      BY DEF IInv, TypeOK
    <3>3. snapshot' \in 0 .. MaxTransactions /\ 0 \in 0 .. snapshot' /\ 0 \in Nat
      BY <3>1, <3>2, ListingAssumption
    <3> QED BY <3>1, <3>3, DeliveredFromListing
  <2>3. Status = "walking" /\ Status' = "ended"
    BY <1>1, <2>1 DEF Status
  <2>4. W!Settle
    BY <1>1, <2>2 DEF W!Settle
  <2> QED BY <2>1, <2>2, <2>3, <2>4 DEF W!Next, W!End
<1>3. CASE cursor # Nil /\ Stall
  <2>1. err' = "stalled" /\ UNCHANGED delivered
    BY <1>3 DEF Stall
  <2>2. delivered # <<>>
    BY <1>1, <1>3, BeforeFetch DEF Continues
  <2>3. UNCHANGED snapshot
    BY <1>1, <2>2
  <2>4. err' # "none"
    BY <2>1
  <2> QED BY <1>1, <2>1, <2>3, <2>4, StoppingFails DEF W!Next
<1>4. ASSUME NEW t \in Cuts, Advances(t) PROVE W!Next
  <2>1. /\ delivered' = Append(delivered, Rows(t, Top)[1]) /\ err' = err
        /\ returned' = "item"
    BY <1>4 DEF Advances, Enter
  <2>2. page' # <<>>
    BY <1>4, AdvancesContinues
  <2>3. delivered # <<>> => snapshot' = snapshot
    BY <1>1
  <2> QED BY <1>1, <2>1, <2>2, <2>3, DeliveryIsNext DEF W!Next
<1> QED BY <1>2, <1>3, <1>4, Outcomes

\* The iterator delivers the listing as it was when the first page was
\* served, whole, in order and without a repeated row, and otherwise says
\* that it failed, whatever the split of the rows, the page size, the growth
\* of the listing and the repeated pages (pagination.go:32-46), from any service
\* that fills every page but the last (users.go:84-88).
THEOREM ImplementsWalk == ASSUME ~ ShortPages PROVE Spec => WalkSpec
<1>1. Init => W!Init
  <2> SUFFICES ASSUME Init PROVE W!Init
    OBVIOUS
  <2>1. Status = "walking" /\ delivered = <<>> /\ snapshot = 0
    BY DEF Init, PagingInit, Status
  <2> QED BY <2>1, NoListing DEF W!Init
<1>2. IInv /\ IInv' /\ [Next]_vars => [W!Next]_(W!vars)
  <2> SUFFICES ASSUME IInv, IInv', [Next]_vars PROVE [W!Next]_(W!vars)
    OBVIOUS
  <2>1. CASE Grow
    BY <2>1 DEF Grow, fields, W!vars, Status
  <2>2. CASE NextFetches
    BY <2>2, NextFetchesWalks
  <2>3. ASSUME NEW n \in Sizes, PageSize(n), UNCHANGED <<transactions, snapshot, fetches>>
        PROVE  UNCHANGED W!vars
    BY <2>3 DEF PageSize, W!vars, Status
  <2>4. CASE NextInPage /\ UNCHANGED <<transactions, snapshot, fetches>>
    BY <2>4, NextInPageWalks DEF W!Next
  <2>5. CASE NextOver /\ UNCHANGED <<transactions, snapshot, fetches>>
    BY <2>5, NextOverWalks DEF W!Next
  <2>6. CASE NextFetchFails /\ fetches' = fetches + 1 /\ UNCHANGED <<transactions, snapshot>>
    <3>1. Fetching /\ err' # "none" /\ UNCHANGED <<snapshot, delivered>>
      BY <2>6 DEF NextFetchFails
    <3> QED BY <3>1, StoppingFails DEF W!Next
  <2>7. CASE UNCHANGED vars
    BY <2>7 DEF vars, fields, W!vars, Status
  <2> QED BY <2>1, <2>2, <2>3, <2>4, <2>5, <2>6, <2>7 DEF Next
<1> QED BY <1>1, <1>2, Invariance, PTL DEF Spec, WalkSpec, W!Spec
===============================================================================
