---------------------------- MODULE MCAdminImport ----------------------------
(* Symmetry for the model checker: makers, and importers, are interchangeable. *)
EXTENDS AdminImport, TLC

Symmetry == Permutations(Makers) \cup Permutations(Importers)
=============================================================================
