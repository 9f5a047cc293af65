---------------------------- MODULE MCMCPRegistry ----------------------------
(* The model-checking instance of MCPRegistry: callers are interchangeable. *)
EXTENDS MCPRegistry, TLC

CONSTANTS c1, c2, s1, a1

Symmetry == Permutations(Callers)
=============================================================================
