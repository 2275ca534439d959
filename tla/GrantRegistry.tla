---------------------------- MODULE GrantRegistry ----------------------------
(***************************************************************************)
(* What the headless engine promises about permissions, with every call a  *)
(* single step: decks and grants are created once, a deleted deck does not *)
(* come back, and a revoked grant is revoked for good.                     *)
(***************************************************************************)
CONSTANTS Grant, Deck

VARIABLES
    deckState,   \* "unused", "present" or "deleted"
    grantState   \* "unused", "granted" or "revoked"

Init ==
    /\ deckState = [d \in Deck |-> "unused"]
    /\ grantState = [g \in Grant |-> "unused"]

CreateDeck(d) ==
    /\ deckState[d] = "unused"
    /\ deckState' = [deckState EXCEPT ![d] = "present"]
    /\ UNCHANGED grantState

DeleteDeck(d) ==
    /\ deckState[d] = "present"
    /\ deckState' = [deckState EXCEPT ![d] = "deleted"]
    /\ UNCHANGED grantState

GrantOnce(g) ==
    /\ grantState[g] = "unused"
    /\ grantState' = [grantState EXCEPT ![g] = "granted"]
    /\ UNCHANGED deckState

RevokeOnce(g) ==
    /\ grantState[g] = "granted"
    /\ grantState' = [grantState EXCEPT ![g] = "revoked"]
    /\ UNCHANGED deckState

Next ==
    \/ \E d \in Deck : CreateDeck(d) \/ DeleteDeck(d)
    \/ \E g \in Grant : GrantOnce(g) \/ RevokeOnce(g)

Spec == Init /\ [][Next]_<<deckState, grantState>>

=============================================================================
