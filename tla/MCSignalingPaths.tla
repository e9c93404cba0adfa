-------------------------- MODULE MCSignalingPaths --------------------------
(* SignalingPaths with small sets of interchangeable clients and keys.     *)
EXTENDS SignalingPaths, TLC

Symmetry == Permutations(Client) \cup Permutations(Key)

=============================================================================
