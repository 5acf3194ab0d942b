--------------------------- MODULE MCSessionStore ---------------------------
(* SessionStore on small instances.  Processes are interchangeable, which  *)
(* is sound to exploit for the runs that check no liveness.                *)
EXTENDS SessionStore, TLC

Symmetry == Permutations(Clients)
=============================================================================
