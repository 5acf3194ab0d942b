-------------------------------- MODULE Orders --------------------------------
(***************************************************************************)
(* Sorting by a key that no two elements share, as Python's sorted is used *)
(* here.  The place of an element is the number of elements before it.     *)
(***************************************************************************)
EXTENDS Integers, FiniteSets

InOrder(S, before(_, _)) ==
    [k \in 1..Cardinality(S) |->
        CHOOSE x \in S : Cardinality({y \in S : before(y, x)}) = k - 1]
=============================================================================
