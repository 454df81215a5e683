----------------------------- MODULE MCSlotHub -----------------------------
(* SlotHub for TLC: model values, all interchangeable, and the symmetry. *)
EXTENDS SlotHub, TLC

Symmetry ==
  Permutations(Watches) \cup Permutations(Streams)
============================================================================
