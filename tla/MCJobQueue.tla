----------------------------- MODULE MCJobQueue -----------------------------
(* JobQueue with small sets of interchangeable coroutines and relay tasks.  *)
EXTENDS JobQueue, TLC

Symmetry == Permutations(Coroutine) \cup Permutations(RelayTask)

=============================================================================
