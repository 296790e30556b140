------------------------------ MODULE MCPCQueue -----------------------------
(* Instances of PCQueue for TLC.                                           *)
EXTENDS PCQueue, TLC
Symmetry == Permutations(Thread) \cup Permutations(Item)
=============================================================================
