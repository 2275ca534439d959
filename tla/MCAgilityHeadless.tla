-------------------------- MODULE MCAgilityHeadless --------------------------
(* Instances of AgilityHeadless for TLC. *)
EXTENDS AgilityHeadless, TLC

CONSTANTS g1, g2, r1, r2

\* Two grants with references of their own.
OwnRef == (g1 :> r1) @@ (g2 :> r2)

\* Deactivating a deck, activating it, emptying it and deleting it.
SomeEdits == {[stat |-> "inactive", perms |-> None], [stat |-> "active", perms |-> None],
              [stat |-> "keep", perms |-> {}], Delete}

EditsOverlap == {[stat |-> "active", perms |-> {}], Delete}

NoRequest == {}

\* Every request names some permission.
NonEmpty == SUBSET Perm \ {{}}

CallSymmetry == Permutations(Call)

\* Two grants whose identifiers agree in the characters the reference keeps.
SharedRef == (g1 :> r1) @@ (g2 :> r1)

=============================================================================
