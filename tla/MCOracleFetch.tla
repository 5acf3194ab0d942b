--------------------------- MODULE MCOracleFetch ---------------------------
(* OracleFetch on small instances: three contents, two of one length. *)
EXTENDS OracleFetch, TLC

CONSTANTS b1, b2, b3
MCBytes == {b1, b2, b3}
MCSize == b1 :> 1 @@ b2 :> 1 @@ b3 :> 2
Symmetry == Permutations(Calls)
=============================================================================
