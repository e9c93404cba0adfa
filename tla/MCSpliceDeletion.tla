-------------------------- MODULE MCSpliceDeletion --------------------------
(* SpliceDeletion with a small heap.                                       *)
EXTENDS SpliceDeletion, TLC

Symmetry == Permutations(Object) \cup Permutations(Connection)

=============================================================================
