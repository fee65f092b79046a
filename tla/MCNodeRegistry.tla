--------------------------- MODULE MCNodeRegistry ---------------------------
(* Instances of NodeRegistry for TLC.                                       *)
EXTENDS NodeRegistry, TLC

CONSTANTS c1, c2, c3, s1, s2

StreamSymmetry == Permutations(Controls) \cup Permutations(Slots)
=============================================================================
