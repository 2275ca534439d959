----------------------------- MODULE ProofEngine -----------------------------
(***************************************************************************)
(* ProofEngine.handleProofRequest: five stretches between awaits, each of  *)
(* which looks at the state anew.                                          *)
(***************************************************************************)
EXTENDS PermissionDeckEngine, GrantManager

(* A request that has not expired reaches hasActiveGrantForApp, which      *)
(* copies the grants.  An expired one is answered at once and changes      *)
(* nothing.                                                                *)
HandleProofRequest(c, app, perms) ==
    /\ Start(c, "proof",
             [Idle EXCEPT !.kind = "proof", !.stage = "read", !.app = app,
                          !.perms = perms, !.grants = grants])
    /\ UNCHANGED <<decks, grants, issued, expired, connected, ledgerRevoked, unbacked>>

(* hasActiveGrantForApp answers; findMatchingDeck copies the decks.        *)
ProofGrantCheck(c) ==
    LET found == Backing(call[c].grants, call[c].app, call[c].perms) IN
    /\ At(c, "proof", "read")
    /\ IF found = {} THEN Return(c)
       ELSE call' = [call EXCEPT ![c] =
               [@ EXCEPT !.stage = "matched", !.backing = found,
                         !.decks = decks, !.grants = NoGrants]]
    /\ UNCHANGED <<decks, grants, issued, expired, connected, ledgerRevoked, unbacked>>

(* A matching active deck and a connected adapter, or the call fails;      *)
(* then Midnight is asked for the proof.                                   *)
ProofDeckCheck(c) ==
    /\ At(c, "proof", "matched")
    /\ IF SomeDeckMatches(call[c].decks, call[c].perms) /\ connected
       THEN call' = [call EXCEPT ![c] =
               [@ EXCEPT !.stage = "proving", !.decks = NoDecks]]
       ELSE Return(c)
    /\ UNCHANGED <<decks, grants, issued, expired, connected, ledgerRevoked, unbacked>>

(* Midnight fails, or it proves and the grants are copied once more.       *)
ProofGenerated(c) ==
    /\ At(c, "proof", "proving")
    /\ \/ Return(c)
       \/ call' = [call EXCEPT ![c] = [@ EXCEPT !.stage = "proved", !.grants = grants]]
    /\ UNCHANGED <<decks, grants, issued, expired, connected, ledgerRevoked, unbacked>>

\* Fault: any inactive grant of the application hides the active ones.
ProofRespondFirst(c) ==
    /\ At(c, "proof", "proved")
    /\ unbacked' = IF \E g \in Grant : /\ call[c].grants[g].app = call[c].app
                                       /\ ~ActiveIn(call[c].grants, g)
                   THEN unbacked \cup call[c].backing ELSE unbacked
    /\ Return(c)
    /\ UNCHANGED <<decks, grants, issued, expired, connected, ledgerRevoked>>

(* The response names a grant that is active in the new copy; when there   *)
(* is none left the proof is returned all the same, without a grantId.     *)
ProofRespond(c) ==
    /\ At(c, "proof", "proved")
    /\ unbacked' = IF Backing(call[c].grants, call[c].app, call[c].perms) = {}
                   THEN unbacked \cup call[c].backing ELSE unbacked
    /\ Return(c)
    /\ UNCHANGED <<decks, grants, issued, expired, connected, ledgerRevoked>>

=============================================================================
