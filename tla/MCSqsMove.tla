----------------------------- MODULE MCSqsMove ------------------------------
(* Instances of SqsMove for TLC. *)
EXTENDS SqsMove, TLC

\* Tasks, consumers and message ids are interchangeable (safety runs only).
Symmetry == Permutations(Tasks) \cup Permutations(Consumers) \cup Permutations(MessageIds)

=============================================================================
