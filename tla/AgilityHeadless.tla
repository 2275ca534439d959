--------------------------- MODULE AgilityHeadless ---------------------------
(***************************************************************************)
(* The headless engine: the deck engine, the grant manager and the proof   *)
(* engine over one state, with calls of the public API that overlap.       *)
(***************************************************************************)
EXTENDS ProofEngine

Init ==
    /\ decks = NoDecks
    /\ grants = NoGrants
    /\ issued = {}
    /\ expired = {}
    /\ connected = FALSE
    /\ ledgerRevoked = {}
    /\ call = [c \in Call |-> Idle]
    /\ unbacked = {}

ConnectMidnight ==
    /\ connected' = TRUE
    /\ UNCHANGED <<decks, grants, issued, expired, ledgerRevoked, call, unbacked>>

Disconnect ==
    /\ connected' = FALSE
    /\ UNCHANGED <<decks, grants, issued, expired, ledgerRevoked, call, unbacked>>

(* Time passes the expiresAt of a grant, which may still be on its way     *)
(* into the array.                                                         *)
Expire(g) ==
    /\ g \in issued \ expired
    /\ expired' = expired \cup {g}
    /\ UNCHANGED <<decks, grants, issued, connected, ledgerRevoked, call, unbacked>>

(* What a caller starts in a free slot.                                    *)
StartCall(c) ==
    \/ \E d \in Deck, edit \in Edits : EditDeck(c, d, edit)
    \/ \E d \in Deck, app \in App : GrantPermission(c, d, app)
    \/ \E g \in Grant : RevokeGrant(c, g)
    \/ \E app \in App : RevokeAllGrantsForApp(c, app)
    \/ \E app \in App, perms \in Wanted : HandleProofRequest(c, app, perms)

(* What runs when the promise that a call awaits has settled.              *)
GrantResume(c) ==
    \/ GrantRefused(c)
    \/ \E g \in Grant : GrantBuild(c, g)
    \/ GrantAppend(c)

RevokeResume(c) ==
    \/ RevokeNotFound(c)
    \/ RevokeAlready(c)
    \/ RevokeProceed(c)
    \/ RevokeWrite(c)
    \/ RevokeAllList(c)
    \/ \E g \in Grant : RevokeAllNext(c, g)

ProofResume(c) ==
    \/ ProofGrantCheck(c)
    \/ ProofDeckCheck(c)
    \/ ProofGenerated(c)
    \/ ProofRespond(c)

Resume(c) == EditDeckWrite(c) \/ GrantResume(c) \/ RevokeResume(c) \/ ProofResume(c)

Next ==
    \/ \E d \in Deck, perms \in SUBSET Perm : CreateDeck(d, perms)
    \/ \E c \in Call : StartCall(c) \/ Resume(c)
    \/ ConnectMidnight
    \/ Disconnect
    \/ \E g \in Expiring : Expire(g)

Spec == Init /\ [][Next]_vars

(* The event loop runs every continuation whose promise has settled, and   *)
(* the promises of the in-process storage and adapters all settle.         *)
FairSpec == Spec /\ \A c \in Call : WF_vars(Resume(c))

-----------------------------------------------------------------------------
(* Properties *)

TypeOK ==
    /\ decks \in [Deck -> DeckRec]
    /\ grants \in [Grant -> GrantRec]
    /\ issued \subseteq Grant \cup Deck
    /\ expired \subseteq Grant
    /\ connected \in BOOLEAN
    /\ ledgerRevoked \subseteq Ref
    /\ call \in [Call -> CallRec]
    /\ unbacked \subseteq Grant

(* Serialised callers see the registry whose every call is one step: no    *)
(* grant is lost, no revoked grant or deleted deck comes back, although    *)
(* revokeGrant and updateDeck write arrays they read before an await.      *)
Registry == INSTANCE GrantRegistry WITH
    deckState  <- [d \in Deck |-> IF decks[d].stat # "absent" THEN "present"
                                  ELSE IF d \in issued THEN "deleted" ELSE "unused"],
    grantState <- [g \in Grant |-> IF grants[g].stat = "absent" THEN "unused"
                                   ELSE grants[g].stat]

ImplementsRegistry == Registry!Spec

(* A grant whose stored reference Midnight shows as revoked is not usable  *)
(* locally: it is revoked in the array, or the revokeGrant that told       *)
(* Midnight is still to write it.  Excepted by name are grants that share  *)
(* their reference: revoking one makes Midnight show every one of them.    *)
OwnReference(g) == \A h \in Grant : RefOf[h] = RefOf[g] => h = g

BeingRevoked(g) == \E c \in Call : At(c, "revoke", "syncing") /\ call[c].id = g

LedgerNotAhead ==
    \A g \in Grant :
        (grants[g].ref \in ledgerRevoked /\ OwnReference(g)) =>
            grants[g].stat = "revoked" \/ BeingRevoked(g)

(* A proof that is returned without a grantId is one whose backing grants  *)
(* were all withdrawn or ran out while Midnight worked, and stay so.       *)
UnbackedProofExplained ==
    \A g \in unbacked : ~ActiveIn(grants, g)

(* revokeGrant, alone or in the loop of revokeAllGrantsForApp, once it has *)
(* found the grant in its copy gets the revocation into the array, however *)
(* long Midnight takes and whatever else runs meanwhile.                   *)
Revoking(g) == \E c \in Call :
    /\ call[c].kind = "revoke" /\ call[c].stage \in {"read", "syncing"}
    /\ call[c].id = g /\ call[c].grants[g].stat = "granted"

RevocationReached == \A g \in Grant : Revoking(g) ~> grants[g].stat = "revoked"

(* Overlapping callers: an update of a grant is undone only by the write   *)
(* of a revokeGrant whose copy of the array is out of date.  Neither the   *)
(* Midnight call of grantPermission nor a proof in flight ever loses one.  *)
Undone(g) ==
    \/ grants[g].stat # "absent" /\ grants'[g].stat = "absent"
    \/ grants[g].stat = "revoked" /\ grants'[g].stat = "granted"

LossNeedsStaleRevoke ==
    [][\A g \in Grant : Undone(g) =>
           \E c \in Call : /\ call[c].kind = "revoke"
                           /\ call[c].grants[g] # grants[g]
                           /\ call'[c].grants # call[c].grants]_vars

(* Overlapping updateDeck and deleteDeck: a field of a deck changes only   *)
(* to what the call that writes was asked for, and a deleted deck stays    *)
(* away, unless that call's copy of the array is out of date.              *)
Asked(c, d) ==
    /\ call[c].id = d /\ decks[d].stat # "absent"
    /\ \/ call[c].edit = Delete /\ decks'[d] = NoDeck
       \/ /\ decks'[d].stat \in {decks[d].stat, call[c].edit.stat}
          /\ decks'[d].perms \in {decks[d].perms, call[c].edit.perms}

DeckLossNeedsStaleEdit ==
    [][\A d \in issued \cap Deck : decks'[d] # decks[d] =>
           \E c \in Call : /\ call[c].kind = "editDeck" /\ call'[c] = Idle
                           /\ Asked(c, d) \/ call[c].decks[d] # decks[d]]_vars

(* A grant keeps the application and the permissions it was given, through *)
(* every edit of its deck and every stale array that is written back.      *)
GrantContentFixed ==
    [][\A g \in Grant :
           (grants[g].stat # "absent" /\ grants'[g].stat # "absent") =>
               /\ grants'[g].app = grants[g].app
               /\ grants'[g].perms = grants[g].perms
               /\ grants'[g].ref = grants[g].ref]_grants

(* "Revoked grant: <id>": what revokeGrant reports done stays done.        *)
RevocationPermanent ==
    [][\A g \in Grant : grants[g].stat = "revoked" => grants'[g].stat = "revoked"]_grants

=============================================================================
