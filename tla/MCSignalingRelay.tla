-------------------------- MODULE MCSignalingRelay --------------------------
(* SignalingRelay with a small set of clients.                             *)
EXTENDS SignalingRelay, TLC

Symmetry == Permutations(Client)

=============================================================================
