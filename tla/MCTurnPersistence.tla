-------------------------- MODULE MCTurnPersistence --------------------------
(* The model-checking instance of TurnPersistence. *)
EXTENDS TurnPersistence, TLC

CONSTANTS t1, t2, t3

TurnSymmetry == Permutations(Turns)
=============================================================================
