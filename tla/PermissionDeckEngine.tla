------------------------ MODULE PermissionDeckEngine ------------------------
(***************************************************************************)
(* PermissionDeckEngine: creating, editing and deleting permission decks.  *)
(***************************************************************************)
EXTENDS HeadlessState

(* createDeck: validation, the read of the array and the write of the      *)
(* longer array are one stretch, so nothing can come between them.         *)
CreateDeck(d, perms) ==
    /\ MayStart("createDeck")
    /\ d \in Deck \ issued
    /\ perms # {}
    /\ issued' = issued \cup {d}
    /\ decks' = [decks EXCEPT ![d] = [stat |-> "active", perms |-> perms]]
    /\ UNCHANGED <<grants, expired, connected, ledgerRevoked, call, unbacked>>

(* updateDeck and deleteDeck up to `await this.getDecks()`: getDecks copies *)
(* the array at once.  updateDeck does not validate what it is given.       *)
EditDeck(c, d, edit) ==
    /\ Start(c, "editDeck",
             [Idle EXCEPT !.kind = "editDeck", !.stage = "read", !.id = d,
                          !.edit = edit, !.decks = decks])
    /\ UNCHANGED <<decks, grants, issued, expired, connected, ledgerRevoked, unbacked>>

\* Fault: an update that does not mention the status overwrites it.
EditedOverwrite(deck, edit) ==
    IF edit = Delete THEN NoDeck
    ELSE [stat  |-> edit.stat,
          perms |-> IF edit.perms = None THEN deck.perms ELSE edit.perms]

Edited(deck, edit) ==
    IF edit = Delete THEN NoDeck
    ELSE [stat  |-> IF edit.stat = "keep" THEN deck.stat ELSE edit.stat,
          perms |-> IF edit.perms = None THEN deck.perms ELSE edit.perms]

(* The array that updateDeck and deleteDeck write: the copy, edited.       *)
EditedDecks(c) == [call[c].decks EXCEPT ![call[c].id] = Edited(@, call[c].edit)]

\* Fault: a deck that is gone is written all the same.
EditDeckUpsert(c) ==
    /\ At(c, "editDeck", "read")
    /\ decks' = EditedDecks(c)
    /\ Return(c)
    /\ UNCHANGED <<grants, issued, expired, connected, ledgerRevoked, unbacked>>

(* The rest of updateDeck and deleteDeck: "Deck not found", or the write.  *)
EditDeckWrite(c) ==
    /\ At(c, "editDeck", "read")
    /\ IF call[c].decks[call[c].id].stat = "absent"
       THEN UNCHANGED decks
       ELSE decks' = EditedDecks(c)
    /\ Return(c)
    /\ UNCHANGED <<grants, issued, expired, connected, ledgerRevoked, unbacked>>

(* deckMatchesRequest, and findMatchingDeck over the array it copied.      *)
DeckMatches(deck, perms) == deck.stat = "active" /\ perms \subseteq deck.perms

SomeDeckMatches(array, perms) == \E d \in Deck : DeckMatches(array[d], perms)

=============================================================================
