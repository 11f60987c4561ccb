------------------------------ MODULE MCPubSub ------------------------------
(* Symmetry for the model checker: clients are interchangeable. *)
EXTENDS PubSub, TLC

Symmetry == Permutations(Clients)
=============================================================================
