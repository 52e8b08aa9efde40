--------------------------- MODULE PageIteratorProofs ---------------------------
(***************************************************************************)
(* PageIterator delivers a beginning of the filtered listing whatever the  *)
(* service answers, and implements module Walk when no page before the end *)
(* is empty, for every filter, every cut into pages and every page size.   *)
(***************************************************************************)
EXTENDS PageIterator, SequenceTheorems, TLAPS

---------------------------------------------------------------------------
(* The inductive invariant.                                                *)

\* The items up to the end of the buffered page.
Received == Len(delivered) + Len(page) - pos

\* The items come in order: the delivered ones, then the buffered ones.
InOrder ==
  /\ \A i \in 1 .. Len(delivered) : delivered[i] = i
  /\ \A i \in pos + 1 .. Len(page) : page[i] = Len(delivered) + i - pos

\* A walk that goes on has every item up to its cursor, and without empty
\* pages one that is done has them all.
UpToCursor ==
  /\ ~ done => Received = Passed[cursor]
  /\ Received <= Passed[Records]
  /\ done /\ ~ EmptyPages => Received = Passed[Records]

\* Next says that the walk is over only when it is.
EndsWhenDone == returned = "end" /\ err = "none" => done /\ pos = Len(page)

IInv == TypeOK /\ InOrder /\ UpToCursor /\ EndsWhenDone

---------------------------------------------------------------------------
(* Lemmas about the listing.                                               *)

LEMMA Counts ==
  ASSUME NEW from \in 0 .. Records, NEW to \in 0 .. Records, from <= to
  PROVE  /\ Passed[from] \in Nat /\ Passed[to] \in Nat /\ Passed[from] <= Passed[to]
         /\ Passed[Records] \in Nat /\ Passed[to] <= Passed[Records]
<1>0. Records \in Nat /\ Records \in 0 .. Records /\ to <= Records
  BY RecordsAssumption
<1>1. /\ Passed[from] \in Nat /\ Passed[to] \in Nat /\ Passed[Records] \in Nat
  BY <1>0, RecordsAssumption
<1>2. Passed[to] - Passed[from] \in 0 .. to - from
  BY RecordsAssumption
<1>3. Passed[Records] - Passed[to] \in 0 .. Records - to
  BY <1>0, RecordsAssumption
<1>4. from \in Nat /\ to \in Nat /\ Records \in Nat
  BY RecordsAssumption
<1> QED BY <1>0, <1>1, <1>2, <1>3, <1>4

\* The items of a stretch of records.
LEMMA ItemsShape ==
  ASSUME NEW from \in 0 .. Records, NEW to \in 0 .. Records, from <= to
  PROVE  /\ Items(from, to) \in Seq(1 .. Passed[Records])
         /\ Len(Items(from, to)) = Passed[to] - Passed[from]
         /\ \A i \in 1 .. Len(Items(from, to)) : Items(from, to)[i] = Passed[from] + i
         /\ Items(from, to) = <<>> <=> Passed[to] = Passed[from]
<1> DEFINE n == Passed[to] - Passed[from]
<1>1. /\ n \in Nat /\ Passed[from] \in Nat /\ Passed[from] + n = Passed[to]
      /\ (n = 0 <=> Passed[to] = Passed[from]) /\ Passed[to] <= Passed[Records]
      /\ Passed[Records] \in Nat /\ Passed[to] \in Nat
  BY Counts
<1> HIDE DEF n
<1>2. \A i \in 1 .. n : Passed[from] + i \in 1 .. Passed[Records]
  BY <1>1
<1>3. Items(from, to) = [i \in 1 .. n |-> Passed[from] + i]
  BY DEF Items, n
<1>4. Items(from, to) \in Seq(1 .. Passed[Records]) /\ Len(Items(from, to)) = n
  BY <1>1, <1>2, <1>3
<1>5. Items(from, to) = <<>> <=> n = 0
  BY <1>1, <1>3, <1>4
<1> QED BY <1>1, <1>3, <1>4, <1>5 DEF n

\* A sequence that counts up from one is a beginning of the listing.
LEMMA CountingIsPrefix ==
  ASSUME NEW d \in Seq(1 .. Passed[Records]), Len(d) <= Passed[Records],
         \A i \in 1 .. Len(d) : d[i] = i
  PROVE  /\ All \in Seq(1 .. Passed[Records]) /\ Len(All) = Passed[Records]
         /\ d = SubSeq(All, 1, Len(d))
         /\ Len(d) = Passed[Records] => d = All
<1>1. /\ All \in Seq(1 .. Passed[Records]) /\ Len(All) = Passed[Records]
      /\ \A i \in 1 .. Len(All) : All[i] = i
      /\ Passed[Records] \in Nat
  <2>1. 0 \in 0 .. Records /\ Records \in 0 .. Records /\ 0 <= Records
        /\ Passed[0] = 0 /\ Passed[Records] \in Nat
    BY RecordsAssumption
  <2>2. /\ All \in Seq(1 .. Passed[Records]) /\ Len(All) = Passed[Records] - Passed[0]
        /\ \A i \in 1 .. Len(All) : All[i] = Passed[0] + i
    BY <2>1, ItemsShape DEF All
  <2>3. Passed[Records] - Passed[0] = Passed[Records]
    BY <2>1
  <2>4. \A i \in 1 .. Len(All) : All[i] = i
    BY <2>1, <2>2, <2>3
  <2> QED BY <2>1, <2>2, <2>3, <2>4
<1>2. ASSUME NEW i \in 1 .. Len(d) PROVE d[i] = All[i]
  <2>1. Len(d) \in Nat
    OBVIOUS
  <2>2. i \in 1 .. Len(All)
    BY <1>1, <2>1
  <2> QED BY <1>1, <2>2
<1>3. d = SubSeq(All, 1, Len(d))
  BY <1>1, <1>2
<1>4. Len(d) = Passed[Records] => d = All
  BY <1>1, <1>2, SeqEqual
<1> QED BY <1>1, <1>3, <1>4

---------------------------------------------------------------------------
(* Each step preserves the invariant.                                      *)

\* The types as the steps use them.
LEMMA Types ==
  ASSUME TypeOK
  PROVE  /\ limit \in 1 .. DefaultPageSize
         /\ cursor \in 0 .. Records
         /\ page \in Seq(1 .. Passed[Records]) /\ Len(page) \in Nat
         /\ pos \in 0 .. Len(page)
         /\ delivered \in Seq(1 .. Passed[Records]) /\ Len(delivered) \in Nat
  BY DEF TypeOK, PagingTypeOK, Nil

LEMMA PageSizeInv ==
  ASSUME IInv, NEW n \in Sizes, PageSize(n)
  PROVE  IInv'
<1>1. limit' \in 1 .. DefaultPageSize
  BY PagingAssumption DEF PageSize, BoundedPageSize
<1>2. TypeOK'
  BY <1>1 DEF IInv, TypeOK, PagingTypeOK, PageSize
<1> QED BY <1>2 DEF IInv, InOrder, UpToCursor, Received, EndsWhenDone, PageSize

LEMMA NextInPageInv ==
  ASSUME IInv, NextInPage
  PROVE  IInv' /\ pos + 1 \in 1 .. Len(page)
<1>1. /\ page \in Seq(1 .. Passed[Records]) /\ Len(page) \in Nat /\ pos \in 0 .. Len(page)
      /\ delivered \in Seq(1 .. Passed[Records]) /\ Len(delivered) \in Nat
  BY Types DEF IInv
<1>2. /\ err = "none" /\ pos < Len(page) /\ pos' = pos + 1 /\ returned' = "item"
      /\ delivered' = Append(delivered, page[pos + 1])
      /\ UNCHANGED <<limit, cursor, page, done, err, started>>
  BY DEF NextInPage
<1>3. pos + 1 \in 1 .. Len(page)
  BY <1>1, <1>2
<1>4. page[pos + 1] \in 1 .. Passed[Records]
  BY <1>1, <1>3, ElementOfSeq
<1>5. /\ delivered' \in Seq(1 .. Passed[Records])
      /\ Len(delivered') = Len(delivered) + 1
      /\ \A i \in 1 .. Len(delivered) : delivered'[i] = delivered[i]
      /\ delivered'[Len(delivered) + 1] = page[pos + 1]
  BY <1>1, <1>2, <1>4, AppendProperties
<1>6. TypeOK'
  <2>1. pos' \in 0 .. Len(page)
    BY <1>1, <1>2
  <2> QED BY <1>2, <1>5, <2>1 DEF IInv, TypeOK, PagingTypeOK
<1>7. InOrder'
  <2>1. page[pos + 1] = Len(delivered) + 1
    <3>1. pos + 1 \in pos + 1 .. Len(page)
      BY <1>1, <1>3
    <3>2. page[pos + 1] = Len(delivered) + (pos + 1) - pos
      BY <3>1 DEF IInv, InOrder
    <3> QED BY <1>1, <3>2
  <2>2. ASSUME NEW i \in 1 .. Len(delivered') PROVE delivered'[i] = i
    <3>1. i \in 1 .. Len(delivered) \/ i = Len(delivered) + 1
      BY <1>1, <1>5
    <3> QED BY <1>5, <2>1, <3>1 DEF IInv, InOrder
  <2>3. ASSUME NEW i \in pos + 1 + 1 .. Len(page)
        PROVE  page[i] = Len(delivered) + 1 + i - (pos + 1)
    <3>1. i \in pos + 1 .. Len(page) /\ i \in Int
      BY <1>1
    <3>2. page[i] = Len(delivered) + i - pos
      BY <3>1 DEF IInv, InOrder
    <3> QED BY <1>1, <3>1, <3>2
  <2> QED BY <1>2, <1>5, <2>2, <2>3 DEF InOrder
<1>8. UpToCursor'
  <2>1. Len(delivered) + 1 + Len(page) - (pos + 1) = Len(delivered) + Len(page) - pos
    BY <1>1
  <2>2. Received' = Received
    BY <1>2, <1>5, <2>1 DEF Received
  <2> QED BY <1>2, <2>2 DEF IInv, UpToCursor
<1> QED BY <1>2, <1>3, <1>6, <1>7, <1>8 DEF IInv, EndsWhenDone

LEMMA NextOverInv ==
  ASSUME IInv, NextOver
  PROVE  IInv'
<1>1. TypeOK'
  BY DEF IInv, TypeOK, PagingTypeOK, NextOver, fields
<1> QED
  BY <1>1 DEF NextOver, IInv, fields, InOrder, UpToCursor, Received, EndsWhenDone

\* A failed call and a page that is dropped change nothing but the error.
LEMMA StoppingInv ==
  ASSUME IInv, started' = TRUE, returned' = "end", err' \in {"fetch", "stalled"},
         UNCHANGED <<limit, cursor, page, pos, done, delivered>>
  PROVE  IInv'
<1>1. TypeOK'
  BY DEF IInv, TypeOK, PagingTypeOK
<1> QED
  BY <1>1 DEF IInv, InOrder, UpToCursor, Received, EndsWhenDone

\* What Next makes of the items up to `to`: the walk ends with an empty page,
\* or the page is entered, as the last one or with its end for the cursor.
EmptyEnds(to) ==
  /\ Items(cursor, to) = <<>>
  /\ done' = TRUE /\ returned' = "end"
  /\ cursor' \in {cursor, to}
  /\ UNCHANGED <<limit, page, pos, err, delivered>>

Enters(to) ==
  /\ Items(cursor, to) # <<>>
  /\ \/ to = Records /\ done' = TRUE /\ UNCHANGED cursor
     \/ cursor' = to /\ UNCHANGED done
  /\ Enter(Items(cursor, to))

LEMMA Outcomes ==
  ASSUME NextFetches, cursor \in 0 .. Records
  PROVE  \/ Stall
         \/ \E to \in cursor .. Records :
              /\ EmptyPages \/ Items(cursor, to) # <<>> \/ to = Records
              /\ EmptyEnds(to) \/ Enters(to)
<1>1. PICK to \in cursor .. Records, next \in NoCursor .. Records :
        Answered(to, next) /\ Receive(Items(cursor, to), next)
  BY DEF NextFetches
<1>2. cursor # NoCursor
  BY RecordsAssumption DEF NoCursor
<1>3. CASE next = cursor /\ cursor # Nil
  BY <1>1, <1>3 DEF Receive
<1>4. CASE ~ (next = cursor /\ cursor # Nil)
  <2>1. next = to \/ (next = NoCursor /\ to = Records)
    BY <1>1, <1>4 DEF Answered
  <2>2. next = NoCursor => to = Records
    BY <2>1, RecordsAssumption DEF NoCursor
  <2>3. EmptyEnds(to) \/ Enters(to)
    BY <1>1, <1>4, <2>1, <2>2 DEF Receive, EmptyEnds, Enters, TurnPage
  <2> QED BY <1>1, <2>3 DEF Answered
<1> QED BY <1>3, <1>4

LEMMA EmptyEndsInv ==
  ASSUME IInv, Fetching, started' = TRUE, NEW to \in cursor .. Records, EmptyEnds(to),
         EmptyPages \/ to = Records
  PROVE  IInv'
<1>1. cursor \in 0 .. Records /\ to \in 0 .. Records /\ cursor <= to
  BY Types, RecordsAssumption DEF IInv
<1>2. /\ done' = TRUE /\ returned' = "end" /\ cursor' \in {cursor, to}
      /\ UNCHANGED <<limit, page, pos, err, delivered>>
  BY DEF EmptyEnds
<1>3. TypeOK'
  <2>1. cursor' \in 0 .. Records
    BY <1>1, <1>2
  <2> QED BY <1>2, <2>1 DEF IInv, TypeOK, PagingTypeOK, Nil
<1>4. Passed[to] = Passed[cursor]
  BY <1>1, ItemsShape DEF EmptyEnds
<1>5. Received = Passed[cursor] /\ Received <= Passed[Records]
  BY DEF IInv, UpToCursor, Fetching
<1>6. Received' = Received
  BY <1>2 DEF Received
<1>7. UpToCursor'
  BY <1>2, <1>4, <1>5, <1>6 DEF UpToCursor
<1> QED BY <1>2, <1>3, <1>7 DEF IInv, InOrder, EndsWhenDone, Fetching

LEMMA EntersInv ==
  ASSUME IInv, Fetching, started' = TRUE, NEW to \in cursor .. Records, Enters(to)
  PROVE  IInv' /\ page' # <<>>
<1> DEFINE p == Items(cursor, to)
<1>1. cursor \in 0 .. Records /\ to \in 0 .. Records /\ cursor <= to
  BY Types, RecordsAssumption DEF IInv
<1>2. /\ page' = p /\ pos' = 1 /\ delivered' = Append(delivered, p[1]) /\ returned' = "item"
      /\ UNCHANGED <<limit, err>> /\ err = "none" /\ ~ done /\ pos = Len(page)
  BY DEF Enters, Enter, Fetching
<1>3. \/ to = Records /\ done' = TRUE /\ cursor' = cursor
      \/ cursor' = to /\ done' = FALSE
  <2>1. done \in BOOLEAN
    BY DEF IInv, TypeOK, PagingTypeOK
  <2> QED BY <1>2, <2>1 DEF Enters
<1>4. /\ p \in Seq(1 .. Passed[Records]) /\ Len(p) = Passed[to] - Passed[cursor]
      /\ \A i \in 1 .. Len(p) : p[i] = Passed[cursor] + i
      /\ p # <<>>
  BY <1>1, ItemsShape DEF Enters
<1>5. /\ Passed[cursor] \in Nat /\ Passed[to] \in Nat /\ Passed[to] <= Passed[Records]
      /\ Passed[Records] \in Nat
  BY <1>1, Counts
<1> HIDE DEF p
<1>6. Len(p) \in Nat /\ Len(p) >= 1 /\ p[1] \in 1 .. Passed[Records] /\ p[1] = Passed[cursor] + 1
  <2>1. Len(p) \in Nat /\ Len(p) >= 1
    BY <1>4
  <2>2. 1 \in 1 .. Len(p)
    BY <2>1
  <2> QED BY <1>4, <2>1, <2>2, ElementOfSeq
<1>7. delivered \in Seq(1 .. Passed[Records]) /\ Len(delivered) = Passed[cursor]
  <2>1. delivered \in Seq(1 .. Passed[Records]) /\ Len(delivered) \in Nat /\ Len(page) \in Nat
    BY Types DEF IInv
  <2>2. Len(delivered) + Len(page) - Len(page) = Passed[cursor]
    BY <1>2 DEF IInv, UpToCursor, Received
  <2> QED BY <2>1, <2>2
<1>8. /\ delivered' \in Seq(1 .. Passed[Records])
      /\ Len(delivered') = Len(delivered) + 1
      /\ \A i \in 1 .. Len(delivered) : delivered'[i] = delivered[i]
      /\ delivered'[Len(delivered) + 1] = p[1]
  BY <1>2, <1>6, <1>7, AppendProperties
<1>9. TypeOK'
  <2>1. cursor' \in 0 .. Records /\ done' \in BOOLEAN
    BY <1>1, <1>3
  <2>2. 1 \in 0 .. Len(p)
    BY <1>6
  <2> QED BY <1>2, <1>4, <1>8, <2>1, <2>2 DEF IInv, TypeOK, PagingTypeOK, Nil
<1>10. InOrder'
  <2>1. ASSUME NEW i \in 1 .. Len(delivered') PROVE delivered'[i] = i
    <3>1. i \in 1 .. Len(delivered) \/ i = Len(delivered) + 1
      BY <1>5, <1>7, <1>8
    <3>2. i \in 1 .. Len(delivered) => delivered[i] = i
      BY DEF IInv, InOrder
    <3> QED BY <1>6, <1>7, <1>8, <3>1, <3>2
  <2>2. ASSUME NEW i \in 1 + 1 .. Len(p) PROVE p[i] = Passed[cursor] + 1 + i - 1
    <3>1. i \in 1 .. Len(p) /\ i \in Int
      BY <1>6
    <3>2. p[i] = Passed[cursor] + i
      BY <1>4, <3>1
    <3>3. Passed[cursor] + i = Passed[cursor] + 1 + i - 1
      BY <1>5, <3>1
    <3> QED BY <3>2, <3>3
  <2> QED BY <1>2, <1>7, <1>8, <2>1, <2>2 DEF InOrder
<1>11. UpToCursor'
  <2>1. Received' = Passed[cursor] + 1 + Len(p) - 1
    BY <1>2, <1>7, <1>8 DEF Received
  <2>2. Len(p) = Passed[to] - Passed[cursor]
    BY <1>4
  <2>3. Passed[cursor] + 1 + Len(p) - 1 = Passed[to]
    BY <1>5, <1>6, <2>2, SMTT(30)
  <2>4. Received' = Passed[to]
    BY <2>1, <2>3
  <2> QED BY <1>3, <1>5, <2>4 DEF UpToCursor
<1> QED BY <1>2, <1>4, <1>9, <1>10, <1>11 DEF IInv, EndsWhenDone

LEMMA NextFetchesInv ==
  ASSUME IInv, NextFetches
  PROVE  IInv'
<1>1. Fetching /\ started' = TRUE /\ cursor \in 0 .. Records
  BY Types DEF NextFetches, IInv
<1>2. CASE Stall
  BY <1>1, <1>2, StoppingInv DEF Stall
<1>3. ASSUME NEW to \in cursor .. Records, EmptyEnds(to),
             EmptyPages \/ Items(cursor, to) # <<>> \/ to = Records
      PROVE  IInv'
  BY <1>1, <1>3, EmptyEndsInv DEF EmptyEnds
<1>4. ASSUME NEW to \in cursor .. Records, Enters(to) PROVE IInv'
  BY <1>1, <1>4, EntersInv
<1> QED BY <1>1, <1>2, <1>3, <1>4, Outcomes

---------------------------------------------------------------------------
(* The theorems.                                                           *)

\* The iterator's fields stay consistent and what was delivered and buffered
\* are the items up to the cursor: the invariant the other theorems rest on.
THEOREM Invariance == Spec => []IInv
<1>1. Init => IInv
  <2> SUFFICES ASSUME Init PROVE IInv
    OBVIOUS
  <2>1. /\ limit \in 1 .. DefaultPageSize /\ cursor = 0 /\ page = <<>> /\ pos = 0
        /\ delivered = <<>> /\ done = FALSE /\ returned = "none"
        /\ err = "none" /\ started = FALSE
    BY PagingAssumption DEF Init, PagingInit, Nil
  <2>2. 0 \in 0 .. Records /\ Passed[0] = 0 /\ Passed[Records] \in Nat
    BY RecordsAssumption
  <2>3. /\ page \in Seq(1 .. Passed[Records]) /\ delivered \in Seq(1 .. Passed[Records])
        /\ pos \in 0 .. Len(page) /\ Len(page) = 0 /\ Len(delivered) = 0
    BY <2>1
  <2>4. TypeOK
    BY <2>1, <2>2, <2>3 DEF TypeOK, PagingTypeOK, Nil
  <2>5. InOrder
    BY <2>1, <2>3 DEF InOrder
  <2>6. UpToCursor
    BY <2>1, <2>2, <2>3 DEF UpToCursor, Received
  <2> QED BY <2>1, <2>4, <2>5, <2>6 DEF IInv, EndsWhenDone
<1>2. IInv /\ [Next]_vars => IInv'
  <2> SUFFICES ASSUME IInv, [Next]_vars PROVE IInv'
    OBVIOUS
  <2>1. ASSUME NEW n \in Sizes, PageSize(n) PROVE IInv'
    BY <2>1, PageSizeInv
  <2>2. CASE NextInPage
    BY <2>2, NextInPageInv
  <2>3. CASE NextOver
    BY <2>3, NextOverInv
  <2>4. CASE NextFetchFails
    BY <2>4, StoppingInv DEF NextFetchFails
  <2>5. CASE NextFetches
    BY <2>5, NextFetchesInv
  <2>6. CASE UNCHANGED vars
    BY <2>6 DEF vars, fields, IInv, TypeOK, PagingTypeOK, InOrder, UpToCursor, Received,
                EndsWhenDone
  <2> QED BY <2>1, <2>2, <2>3, <2>4, <2>5, <2>6 DEF Next
<1> QED BY <1>1, <1>2, PTL DEF Spec

\* Every variable keeps its type; Item never indexes past the page
\* (pagination.go:227).
THEOREM TypeCorrect == Spec => []TypeOK
<1>1. IInv => TypeOK
  BY DEF IInv
<1> QED BY <1>1, Invariance, PTL

\* What the caller has been given is a beginning of the filtered listing,
\* none skipped and none repeated, even when the service sends an empty page
\* before the end (pagination.go:189-224).
DeliveredIsPrefix == delivered = SubSeq(All, 1, Len(delivered))

THEOREM NoneSkippedNorRepeated == Spec => []DeliveredIsPrefix
<1>1. IInv => DeliveredIsPrefix
  <2> SUFFICES ASSUME IInv PROVE DeliveredIsPrefix
    OBVIOUS
  <2>1. /\ delivered \in Seq(1 .. Passed[Records]) /\ Len(delivered) \in Nat
        /\ Len(page) \in Nat /\ pos \in 0 .. Len(page)
    BY Types DEF IInv
  <2>2. Len(delivered) + Len(page) - pos <= Passed[Records] /\ Passed[Records] \in Nat
    BY RecordsAssumption DEF IInv, UpToCursor, Received
  <2>3. Len(delivered) <= Passed[Records]
    BY <2>1, <2>2
  <2>4. \A i \in 1 .. Len(delivered) : delivered[i] = i
    BY DEF IInv, InOrder
  <2> QED BY <2>1, <2>3, <2>4, CountingIsPrefix DEF DeliveredIsPrefix
<1> QED BY <1>1, Invariance, PTL

---------------------------------------------------------------------------
(* PageIterator implements Walk.                                           *)

\* An item that is delivered is the next one of the listing.
LEMMA DeliveryIsNext ==
  ASSUME IInv, NEW d \in Seq(1 .. Passed[Records]), NEW x, d = Append(delivered, x),
         Len(d) <= Passed[Records], \A i \in 1 .. Len(d) : d[i] = i
  PROVE  Len(delivered) < Len(All) /\ d = SubSeq(All, 1, Len(delivered) + 1)
<1>1. delivered \in Seq(1 .. Passed[Records]) /\ Len(delivered) \in Nat
  BY Types DEF IInv
<1>2. Len(d) = Len(delivered) + 1
  BY <1>1
<1>3. Len(All) = Passed[Records] /\ d = SubSeq(All, 1, Len(d))
  BY CountingIsPrefix
<1>4. Passed[Records] \in Nat
  BY RecordsAssumption
<1> QED BY <1>1, <1>2, <1>3, <1>4

\* A walk that is over has delivered everything.
LEMMA DoneIsWhole ==
  ASSUME IInv, done, pos = Len(page), ~ EmptyPages
  PROVE  delivered = All
<1>1. /\ delivered \in Seq(1 .. Passed[Records]) /\ Len(delivered) \in Nat
      /\ Len(page) \in Nat
  BY Types DEF IInv
<1>2. Len(delivered) + Len(page) - Len(page) = Passed[Records]
  BY DEF IInv, UpToCursor, Received
<1>3. Len(delivered) = Passed[Records] /\ Len(delivered) <= Passed[Records]
  BY <1>1, <1>2
<1>4. \A i \in 1 .. Len(delivered) : delivered[i] = i
  BY DEF IInv, InOrder
<1> QED BY <1>1, <1>3, <1>4, CountingIsPrefix

\* An ended walk has delivered everything, from a service that sends no empty
\* page before the end (pagination_test.go:245-246).
THEOREM EndsWhole == ASSUME ~ EmptyPages PROVE Spec => []EndsWithEverything
<1>1. IInv => EndsWithEverything
  BY DoneIsWhole DEF EndsWithEverything, Status, IInv, EndsWhenDone
<1> QED BY <1>1, Invariance, PTL

\* A delivery of the model is a delivery of Walk.
LEMMA Delivers ==
  ASSUME IInv, IInv', NEW x, delivered' = Append(delivered, x), page' # <<>>,
         err = "none", err' = "none", returned # "end", returned' = "item"
  PROVE  W!Deliver
<1>1. /\ delivered' \in Seq(1 .. Passed[Records]) /\ Len(delivered') \in Nat
      /\ Len(page') \in Nat /\ pos' \in 0 .. Len(page')
  BY DEF IInv, TypeOK, PagingTypeOK
<1>2. Len(delivered') + Len(page') - pos' <= Passed[Records] /\ Passed[Records] \in Nat
  BY RecordsAssumption DEF IInv, UpToCursor, Received
<1>3. \A d, n, k, r \in Nat : k \in 0 .. n /\ d + n - k <= r => d <= r
  OBVIOUS
<1>4. Len(delivered') <= Passed[Records]
  BY <1>1, <1>2, <1>3
<1>5. \A i \in 1 .. Len(delivered') : delivered'[i] = i
  BY DEF IInv, InOrder
<1>6. /\ Len(delivered) < Len(All) /\ delivered' = SubSeq(All, 1, Len(delivered) + 1)
  BY <1>1, <1>4, <1>5, DeliveryIsNext
<1>7. Status = "walking" /\ Status' = "walking"
  BY DEF Status
<1> QED BY <1>6, <1>7 DEF W!Deliver, W!Settle

LEMMA StoppingFails ==
  ASSUME IInv, Fetching, err' # "none", UNCHANGED delivered
  PROVE  W!Fail
<1>1. Status = "walking" /\ Status' = "failed"
  BY DEF Status, Fetching, IInv, EndsWhenDone
<1> QED BY <1>1 DEF W!Fail

LEMMA EndingEnds ==
  ASSUME IInv, err = "none", returned # "end", delivered' = All,
         returned' = "end", UNCHANGED <<delivered, err>>
  PROVE  W!End
<1>1. Status = "walking" /\ Status' = "ended"
  BY DEF Status
<1> QED BY <1>1 DEF W!End, W!Settle

LEMMA NextFetchesWalks ==
  ASSUME IInv, IInv', NextFetches, ~ EmptyPages
  PROVE  W!Next
<1>1. /\ Fetching /\ cursor \in 0 .. Records
      /\ err = "none" /\ returned # "end" /\ pos = Len(page) /\ started' = TRUE
  BY Types DEF NextFetches, Fetching, IInv, EndsWhenDone
<1>2. CASE Stall
  <2>1. err' # "none" /\ UNCHANGED delivered
    BY <1>2 DEF Stall
  <2> QED BY <1>1, <2>1, StoppingFails DEF W!Next
<1>3. ASSUME NEW to \in cursor .. Records, EmptyEnds(to) PROVE W!Next
  <2>1. done' /\ returned' = "end" /\ UNCHANGED <<page, pos, err, delivered>>
    BY <1>3 DEF EmptyEnds
  <2>2. Received' = Passed[Records] /\ Received' = Received
    BY <2>1 DEF IInv, UpToCursor, Received
  <2>3. /\ delivered \in Seq(1 .. Passed[Records]) /\ Len(delivered) \in Nat
        /\ Len(page) \in Nat
    BY Types DEF IInv
  <2>4. Len(delivered) = Passed[Records] /\ Len(delivered) <= Passed[Records]
    BY <1>1, <2>2, <2>3 DEF Received
  <2>5. \A i \in 1 .. Len(delivered) : delivered[i] = i
    BY DEF IInv, InOrder
  <2>6. delivered' = All
    BY <2>1, <2>3, <2>4, <2>5, CountingIsPrefix
  <2> QED BY <1>1, <2>1, <2>6, EndingEnds DEF W!Next
<1>4. ASSUME NEW to \in cursor .. Records, Enters(to) PROVE W!Next
  <2>1. /\ delivered' = Append(delivered, Items(cursor, to)[1])
        /\ returned' = "item" /\ err' = err
    BY <1>4 DEF Enters, Enter
  <2>2. page' # <<>>
    BY <1>1, <1>4, EntersInv
  <2> QED BY <1>1, <2>1, <2>2, Delivers DEF W!Next
<1> QED BY <1>1, <1>2, <1>3, <1>4, Outcomes

\* The iterator delivers every item, in order and without a repeated one, or
\* says that it failed, from any service that sends no empty page before the
\* end and never the zero UUID for a cursor (pagination.go:159-160).
THEOREM ImplementsWalk == ASSUME ~ EmptyPages PROVE Spec => WalkSpec
<1>1. Init => W!Init
  BY DEF Init, PagingInit, W!Init, Status
<1>2. IInv /\ IInv' /\ [Next]_vars => [W!Next]_(W!vars)
  <2> SUFFICES ASSUME IInv, IInv', [Next]_vars PROVE [W!Next]_(W!vars)
    OBVIOUS
  <2>1. ASSUME NEW n \in Sizes, PageSize(n) PROVE UNCHANGED W!vars
    BY <2>1 DEF PageSize, W!vars, Status
  <2>2. CASE NextInPage
    <3>1. /\ err = "none" /\ err' = "none" /\ returned' = "item"
          /\ delivered' = Append(delivered, page[pos + 1]) /\ page' = page
      BY <2>2 DEF NextInPage
    <3>2. pos + 1 \in 1 .. Len(page) /\ pos \in 0 .. Len(page) /\ page \in Seq(1 .. Passed[Records])
      BY <2>2, NextInPageInv, Types DEF IInv
    <3>3. page # <<>> /\ pos # Len(page)
      BY <3>2
    <3>4. returned # "end"
      BY <3>1, <3>3 DEF IInv, EndsWhenDone
    <3> QED BY <3>1, <3>3, <3>4, Delivers DEF W!Next
  <2>3. CASE NextOver
    <3>1. UNCHANGED <<delivered, err>> /\ returned' = "end"
      BY <2>3 DEF NextOver, fields
    <3>2. CASE err # "none" \/ returned = "end"
      BY <3>1, <3>2 DEF W!vars, Status
    <3>3. CASE err = "none" /\ returned # "end"
      <4>1. delivered = All
        BY <2>3, <3>3, DoneIsWhole DEF NextOver
      <4> QED BY <3>1, <3>3, <4>1, EndingEnds DEF W!Next
    <3> QED BY <3>2, <3>3
  <2>4. CASE NextFetchFails
    <3>1. Fetching /\ err' # "none" /\ UNCHANGED delivered
      BY <2>4 DEF NextFetchFails
    <3> QED BY <3>1, StoppingFails DEF W!Next
  <2>5. CASE NextFetches
    BY <2>5, NextFetchesWalks
  <2>6. CASE UNCHANGED vars
    BY <2>6 DEF vars, fields, W!vars, Status
  <2> QED BY <2>1, <2>2, <2>3, <2>4, <2>5, <2>6 DEF Next
<1> QED BY <1>1, <1>2, Invariance, PTL DEF Spec, WalkSpec, W!Spec
===============================================================================
