---------------------------- MODULE MCAccounting ----------------------------
(* Amounts for the model checker; see the README for how they are chosen. *)
EXTENDS Accounting

Cash100 == FromInt(100)
NoFee == {Zero}
Tenth == {[c |-> 1, e |-> -1]}
Thirds == {-1, 1, 2}
=============================================================================
