-------------------------- MODULE MCIdentityManager --------------------------
(* Instances of IdentityManager for TLC. *)
EXTENDS IdentityManager, TLC

Symmetry == Permutations(Call) \cup Permutations(Id) \cup Permutations(Hash)

=============================================================================
