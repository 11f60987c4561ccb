----------------------------- MODULE MCSqsQueue -----------------------------
(* Instances of SqsQueue for TLC. *)
EXTENDS SqsQueue, TLC

\* Consumers and message ids are interchangeable (safety runs only).
Symmetry == Permutations(Consumers) \cup Permutations(MessageIds)

=============================================================================
