------------------------- MODULE MCStatePersistence -------------------------
(* Instances of StatePersistence for TLC. *)
EXTENDS StatePersistence, TLC

AllFaults == {"crash", "io"}

Symmetry == Permutations(Call) \cup Permutations(Update)

=============================================================================
