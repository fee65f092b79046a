---------------------------- MODULE MCTunnelSlot ----------------------------
(* Instances of TunnelSlot for TLC.                                         *)
EXTENDS TunnelSlot, TLC

CONSTANTS s1, s2, c1, c2

\* c2 is a retry of c1 and repeats its request id.
TwoCallsOneId == [c \in {c1, c2} |-> "id"]
SlotSymmetry == Permutations(Slots)
=============================================================================
