------------------------------ MODULE MCMetrics ------------------------------
(* Amounts for the model checker, for the metrics alone.                      *)
EXTENDS Metrics

Cash20 == FromInt(20)
NoFee == {Zero}
Tenth == {[c |-> 1, e |-> -1]}
NearFlips == {-2, 1, 2}
Grid == [first |-> 0, last |-> 3, step |-> 1]
Year == [periods |-> 2, year |-> 2]
=============================================================================
