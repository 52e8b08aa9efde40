---------------------------------- MODULE Walk ----------------------------------
(***************************************************************************)
(* What an iterator promises its caller, without pages or cursors: the     *)
(* listing as it was when the walk began is delivered item by item, none   *)
(* skipped and none repeated, and the walk ends only with the last of them *)
(* or says that it failed.  Iterator and PageIterator implement it.        *)
(***************************************************************************)
EXTENDS Naturals, Sequences

CONSTANTS Listings      \* sequences of items

VARIABLES
  listing,      \* the listing the walk goes through, settled by its first item
  delivered,    \* the items Next has advanced to
  status        \* walking, ended or failed

vars == <<listing, delivered, status>>

Init ==
  /\ listing \in Listings
  /\ delivered = <<>>
  /\ status = "walking"

Settle ==
  /\ listing' \in Listings
  /\ delivered # <<>> => listing' = listing

Deliver ==
  /\ status = "walking"
  /\ Settle
  /\ Len(delivered) < Len(listing')
  /\ delivered' = SubSeq(listing', 1, Len(delivered) + 1)
  /\ UNCHANGED status

End ==
  /\ status = "walking"
  /\ Settle
  /\ delivered = listing'
  /\ status' = "ended"
  /\ UNCHANGED delivered

Fail ==
  /\ status = "walking"
  /\ status' = "failed"
  /\ UNCHANGED <<listing, delivered>>

Next == Deliver \/ End \/ Fail

Spec == Init /\ [][Next]_vars
===============================================================================
