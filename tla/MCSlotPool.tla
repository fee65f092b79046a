----------------------------- MODULE MCSlotPool -----------------------------
(* Instances of SlotPool for TLC: the hints a replica sends, and the symmetry *)
(* of slot names, for the runs that check invariants only.                    *)
EXTENDS SlotPool, TLC

NoHints == {}
\* Advice to keep two slots, on a node whose budget is one.
WideHint == {[min |-> 2, max |-> 2]}
SlotSymmetry == Permutations(Slots)
=============================================================================
