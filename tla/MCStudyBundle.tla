--------------------------- MODULE MCStudyBundle ---------------------------
(* StudyBundle on small instances. *)
EXTENDS StudyBundle, TLC

(* Bundles are interchangeable, and so are writers. *)
Symmetry == Permutations(Bundles) \cup Permutations(Writers)
=============================================================================
