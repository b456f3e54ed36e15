-------------------------- MODULE MCRuntimeManager --------------------------
(* RuntimeManager for TLC: symmetric callers *)
EXTENDS RuntimeManager, TLC

Symmetry == Permutations(Calls)

=============================================================================
