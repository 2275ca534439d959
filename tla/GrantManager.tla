---------------------------- MODULE GrantManager ----------------------------
(***************************************************************************)
(* GrantManager: granting a deck's permissions to an application and       *)
(* revoking them, with the Midnight adapter called in between.             *)
(***************************************************************************)
EXTENDS HeadlessState

(* getActiveGrants filters a copied array by the time at which it filters. *)
ActiveIn(array, g) == array[g].stat = "granted" /\ g \notin expired

ActiveForApp(array, app) == {g \in Grant : ActiveIn(array, g) /\ array[g].app = app}

(* The grants that make hasActiveGrantForApp answer true.                  *)
Backing(array, app, perms) ==
    {g \in ActiveForApp(array, app) : perms \subseteq array[g].perms}

-----------------------------------------------------------------------------
(* grantPermission *)

(* Up to `await this.deckEngine.getDeck(...)`: the deck is looked up in a  *)
(* copy made by the call itself, so the call keeps the deck as it was then.*)
GrantPermission(c, d, app) ==
    /\ Start(c, "grant",
             [Idle EXCEPT !.kind = "grant", !.stage = "read", !.app = app,
                          !.deck = decks[d]])
    /\ UNCHANGED <<decks, grants, issued, expired, connected, ledgerRevoked, unbacked>>

\* Fault: the array is replaced by the new grant alone.
AppendedAlone(g, app, perms, ref) ==
    [NoGrants EXCEPT ![g] = [stat |-> "granted", app |-> app, perms |-> perms, ref |-> ref]]

Appended(g, app, perms, ref) ==
    [grants EXCEPT ![g] = [stat |-> "granted", app |-> app, perms |-> perms, ref |-> ref]]

(* "Deck not found" or "Deck is not active": the call throws.              *)
GrantRefused(c) ==
    /\ At(c, "grant", "read")
    /\ call[c].deck.stat # "active"
    /\ Return(c)
    /\ UNCHANGED <<decks, grants, issued, expired, connected, ledgerRevoked, unbacked>>

(* The grant is built with a fresh id and a copy of the deck's permissions. *)
(* With Midnight connected the call goes on to createGrant and waits there; *)
(* otherwise it appends the grant in this same stretch.                     *)
GrantBuild(c, g) ==
    /\ At(c, "grant", "read")
    /\ call[c].deck.stat = "active"
    /\ g \in Grant \ issued
    /\ issued' = issued \cup {g}
    /\ IF connected
       THEN /\ \E ref \in {RefOf[g], None} :
                  call' = [call EXCEPT ![c].stage = "syncing", ![c].id = g,
                                       ![c].ref = ref]
            /\ UNCHANGED grants
       ELSE /\ grants' = Appended(g, call[c].app, call[c].deck.perms, None)
            /\ Return(c)
    /\ UNCHANGED <<decks, expired, connected, ledgerRevoked, unbacked>>

(* The current array is read again and written longer, in one stretch.  A  *)
(* createGrant that failed leaves the grant without a reference.           *)
GrantAppend(c) ==
    /\ At(c, "grant", "syncing")
    /\ grants' = Appended(call[c].id, call[c].app, call[c].deck.perms, call[c].ref)
    /\ Return(c)
    /\ UNCHANGED <<decks, issued, expired, connected, ledgerRevoked, unbacked>>

-----------------------------------------------------------------------------
(* revokeGrant and revokeAllGrantsForApp *)

(* revokeGrant up to `await this.getAllGrants()`, which copies the array.  *)
RevokeGrant(c, g) ==
    /\ Start(c, "revoke",
             [Idle EXCEPT !.kind = "revoke", !.stage = "read", !.id = g,
                          !.grants = grants])
    /\ UNCHANGED <<decks, grants, issued, expired, connected, ledgerRevoked, unbacked>>

(* When one revokeGrant resolves the caller returns, unless it is the loop *)
(* of revokeAllGrantsForApp with grants left.                              *)
RevokeDone(c) ==
    call' = [call EXCEPT ![c] =
        IF call[c].todo = {} THEN Idle
        ELSE [Idle EXCEPT !.kind = "revoke", !.stage = "next", !.todo = call[c].todo]]

\* Fault: revoking a grant forgets its reference.
RevokedForgotten(c) ==
    [call[c].grants EXCEPT ![call[c].id] = [@ EXCEPT !.stat = "revoked", !.ref = None]]

\* Fault: the array is written back as it was read.
RevokedUnchanged(c) == call[c].grants

(* The whole array that revokeGrant writes: its copy with one grant revoked. *)
RevokedGrants(c) == [call[c].grants EXCEPT ![call[c].id].stat = "revoked"]

(* "Grant not found": revokeGrant rejects, and a loop around it with it.   *)
RevokeNotFound(c) ==
    /\ At(c, "revoke", "read")
    /\ call[c].grants[call[c].id].stat = "absent"
    /\ Return(c)
    /\ UNCHANGED <<decks, grants, issued, expired, connected, ledgerRevoked, unbacked>>

RevokeAlready(c) ==
    /\ At(c, "revoke", "read")
    /\ call[c].grants[call[c].id].stat = "revoked"
    /\ RevokeDone(c)
    /\ UNCHANGED <<decks, grants, issued, expired, connected, ledgerRevoked, unbacked>>

(* Midnight is told first when it is connected and knows the grant; that   *)
(* it answers with a failure is only logged.  Otherwise the array is       *)
(* written in this stretch.                                                *)
RevokeProceed(c) ==
    LET ref == call[c].grants[call[c].id].ref IN
    /\ At(c, "revoke", "read")
    /\ call[c].grants[call[c].id].stat = "granted"
    /\ IF connected /\ ref # None
       THEN /\ \E told \in {ledgerRevoked, ledgerRevoked \cup {ref}} : ledgerRevoked' = told
            /\ call' = [call EXCEPT ![c].stage = "syncing"]
            /\ UNCHANGED grants
       ELSE /\ grants' = RevokedGrants(c)
            /\ RevokeDone(c)
            /\ UNCHANGED ledgerRevoked
    /\ UNCHANGED <<decks, issued, expired, connected, unbacked>>

\* Fault: an adapter that is gone when it answers aborts the revocation.
RevokeWriteConnected(c) ==
    /\ At(c, "revoke", "syncing")
    /\ grants' = IF connected THEN RevokedGrants(c) ELSE grants
    /\ RevokeDone(c)
    /\ UNCHANGED <<decks, issued, expired, connected, ledgerRevoked, unbacked>>

RevokeWrite(c) ==
    /\ At(c, "revoke", "syncing")
    /\ grants' = RevokedGrants(c)
    /\ RevokeDone(c)
    /\ UNCHANGED <<decks, issued, expired, connected, ledgerRevoked, unbacked>>

(* revokeAllGrantsForApp: the active grants of the app as one copy of the  *)
(* array shows them, then one revokeGrant after another.                   *)
RevokeAllGrantsForApp(c, app) ==
    /\ Start(c, "revoke",
             [Idle EXCEPT !.kind = "revoke", !.stage = "list", !.app = app,
                          !.grants = grants])
    /\ UNCHANGED <<decks, grants, issued, expired, connected, ledgerRevoked, unbacked>>

RevokeAllList(c) ==
    /\ At(c, "revoke", "list")
    /\ LET found == ActiveForApp(call[c].grants, call[c].app) IN
         call' = [call EXCEPT ![c] =
             IF found = {} THEN Idle
             ELSE [Idle EXCEPT !.kind = "revoke", !.stage = "next", !.todo = found]]
    /\ UNCHANGED <<decks, grants, issued, expired, connected, ledgerRevoked, unbacked>>

RevokeAllNext(c, g) ==
    /\ At(c, "revoke", "next")
    /\ g \in call[c].todo
    /\ call' = [call EXCEPT ![c] =
           [@ EXCEPT !.stage = "read", !.id = g, !.grants = grants,
                     !.todo = call[c].todo \ {g}]]
    /\ UNCHANGED <<decks, grants, issued, expired, connected, ledgerRevoked, unbacked>>

=============================================================================
