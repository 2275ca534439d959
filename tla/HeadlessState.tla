---------------------------- MODULE HeadlessState ----------------------------
(***************************************************************************)
(* The state that the managers of the headless engine share, and the calls *)
(* in flight over it.                                                      *)
(*                                                                         *)
(* StateManager keeps one in-memory AgilityState; PermissionDeckEngine,    *)
(* GrantManager and ProofEngine read it, cross one or more `await`s, and   *)
(* write a whole array back.  JavaScript runs each stretch between two     *)
(* awaits without interruption, so one such stretch is one action, and     *)
(* what a stretch read and keeps for a later one is a field of its call.   *)
(*                                                                         *)
(* An array of decks or grants is a function from every identifier that    *)
(* generateDeckId or generateGrantId may ever return; an identifier that   *)
(* is not in the array has the status "absent".  The order of the array is *)
(* left out: it only decides which of several matching decks or grants a   *)
(* `find` returns.                                                         *)
(*                                                                         *)
(* The model is one session, from initialize() to reset() or the end of    *)
(* the process; the file behind StateManager is StatePersistence's.        *)
(***************************************************************************)

CONSTANTS
    Grant,       \* grant identifiers (generateGrantId)
    Deck,        \* deck identifiers (generateDeckId)
    App,         \* requesting applications
    Perm,        \* permission names
    Call,        \* slots for calls of the public API that overlap
    Ref,         \* Midnight grant references
    RefOf,       \* RefOf[g]: the reference MidnightAdapter cuts from grant id g
    None,        \* undefined or null
    Edits,       \* the updates and deletions of a deck that callers ask for
    Expiring,    \* the grants whose caller gave an expiresAt
    Wanted,      \* the sets of permissions that proof requests name
    Serialised   \* TRUE: callers await a call before starting a conflicting one

ASSUME RefAssumption == RefOf \in [Grant -> Ref]
ASSUME NoneAssumption == None \notin Grant \cup Deck \cup App \cup Ref
ASSUME DisjointAssumption == Grant \cap Deck = {}
ASSUME SerialisedAssumption == Serialised \in BOOLEAN

VARIABLES
    decks,         \* StateManager.state.decks.decks
    grants,        \* StateManager.state.grants.grants
    issued,        \* identifiers handed out so far: UUIDs do not repeat
    expired,       \* grants whose expiresAt has passed
    connected,     \* MidnightAdapter.state.connected
    ledgerRevoked, \* references whose revocation Midnight acknowledged
    call,          \* the calls in flight
    unbacked       \* history: what backed the proofs returned without a grantId

vars == <<decks, grants, issued, expired, connected, ledgerRevoked, call, unbacked>>

-----------------------------------------------------------------------------

DeckRec == [stat : {"absent", "active", "inactive"}, perms : SUBSET Perm]

\* `ref` is the midnightGrantId, undefined when the grant was never synced.
GrantRec == [stat  : {"absent", "granted", "revoked"},
             app   : App \cup {None},
             perms : SUBSET Perm,
             ref   : Ref \cup {None}]

\* The `updates` of updateDeck, field by field, or a deletion.
Delete  == [stat |-> "absent", perms |-> None]
EditRec == [stat : {"keep", "active", "inactive"}, perms : (SUBSET Perm) \cup {None}]
              \cup {Delete}

ASSUME RequestAssumption == Edits \subseteq EditRec /\ Wanted \subseteq SUBSET Perm
ASSUME ExpiringAssumption == Expiring \subseteq Grant

NoDeck   == [stat |-> "absent", perms |-> {}]
NoDecks  == [d \in Deck |-> NoDeck]
NoGrants == [g \in Grant |-> [stat |-> "absent", app |-> None,
                              perms |-> {}, ref |-> None]]

\* What the public API is doing in a slot.
Kind == {"none", "editDeck", "grant", "revoke", "proof"}

\* Where a call waits: see the actions that move it there.
Stage == {"idle", "read", "syncing", "list", "next", "matched", "proving", "proved"}

(* A call in flight: what it was asked for (id, app, perms, edit), what it *)
(* has read since (deck, decks, grants), the reference Midnight gave (ref),*)
(* the rest of the loop of revokeAllGrantsForApp (todo), and, as history,  *)
(* the grants that satisfied the check of a proof request (backing).       *)
CallRec == [kind    : Kind,
            stage   : Stage,
            id      : Grant \cup Deck \cup {None},
            app     : App \cup {None},
            perms   : SUBSET Perm,
            edit    : EditRec,
            deck    : DeckRec,
            decks   : [Deck -> DeckRec],
            grants  : [Grant -> GrantRec],
            ref     : Ref \cup {None},
            todo    : SUBSET Grant,
            backing : SUBSET Grant]

Idle == [kind |-> "none", stage |-> "idle", id |-> None, app |-> None,
         perms |-> {}, edit |-> Delete, deck |-> NoDeck, decks |-> NoDecks,
         grants |-> NoGrants, ref |-> None, todo |-> {}, backing |-> {}]

(* The calls whose overlap can lose an update: revokeGrant and updateDeck  *)
(* or deleteDeck write an array that they read before an await, the others *)
(* re-read it in the stretch that writes it.  A caller that serialises     *)
(* exactly these pairs may overlap every other pair.                       *)
Conflicts == {<<"revoke", "revoke">>, <<"revoke", "grant">>, <<"grant", "revoke">>,
              <<"editDeck", "editDeck">>, <<"createDeck", "editDeck">>}

MayStart(kind) ==
    Serialised => \A c \in Call : <<kind, call[c].kind>> \notin Conflicts

Start(c, kind, rec) ==
    /\ call[c] = Idle
    /\ MayStart(kind)
    /\ call' = [call EXCEPT ![c] = rec]

At(c, kind, stage) == call[c].kind = kind /\ call[c].stage = stage

Return(c) == call' = [call EXCEPT ![c] = Idle]

=============================================================================
