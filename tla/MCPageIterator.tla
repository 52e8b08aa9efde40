----------------------------- MODULE MCPageIterator -----------------------------
(***************************************************************************)
(* Instances of PageIterator: a filter that lets most records through, and *)
(* page sizes below, at and above the ceiling.                             *)
(***************************************************************************)
EXTENDS PageIterator

MCSizes == {-1, 1, 2, 3, 4}
MCPassed == [r \in 0 .. Records |-> Cardinality({1, 3, 4, 6, 7} \intersect 1 .. r)]
===============================================================================
