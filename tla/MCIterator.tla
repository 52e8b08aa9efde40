------------------------------- MODULE MCIterator -------------------------------
(***************************************************************************)
(* Instances of Iterator: five transactions, the second and the fourth     *)
(* with more than one row.                                                 *)
(***************************************************************************)
EXTENDS Iterator

MCLastRow == [t \in 0 .. MaxTransactions |-> <<0, 1, 3, 4, 7, 8>>[t + 1]]
MCSizes == {-1, 0, 1, 2, 3, 4}
===============================================================================
