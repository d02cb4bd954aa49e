--------------------------- MODULE MCSessionMemory ---------------------------
(* Constants of SessionMemory for model checking.                               *)
EXTENDS SessionMemory, TLC

CONSTANTS t1, t2, o1, o2, o3
Symmetry == Permutations(Task) \cup Permutations(Op)
==============================================================================
