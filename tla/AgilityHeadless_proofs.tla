------------------------ MODULE AgilityHeadless_proofs ------------------------
(***************************************************************************)
(* Theorems about the headless engine, for every number of decks, grants,  *)
(* applications, permissions and overlapping calls.                        *)
(***************************************************************************)
EXTENDS AgilityHeadless, TLAPS

-----------------------------------------------------------------------------
(* Type correctness *)

(* The id of a call that revokes or edits is one that it may look up.      *)
Shape(c) ==
    /\ (call[c].kind = "revoke" /\ call[c].stage \in {"read", "syncing"})
          => call[c].id \in Grant
    /\ call[c].kind = "editDeck" => call[c].id \in Deck
    /\ At(c, "grant", "syncing") => call[c].id \in Grant

CallShape == \A c \in Call : Shape(c)

LEMMA ArrayTypes == NoDecks \in [Deck -> DeckRec] /\ NoGrants \in [Grant -> GrantRec]
BY DEF NoDecks, NoGrants, NoDeck, DeckRec, GrantRec

LEMMA IdleType == Idle \in CallRec
BY ArrayTypes DEF Idle, CallRec, Kind, Stage, EditRec, NoDeck, DeckRec

LEMMA InitTypeOK == Init => TypeOK
BY ArrayTypes, IdleType DEF Init, TypeOK

LEMMA SetCall ==
  ASSUME call \in [Call -> CallRec], NEW c \in Call, NEW rec \in CallRec
  PROVE  [call EXCEPT ![c] = rec] \in [Call -> CallRec]
OBVIOUS

LEMMA CallFields ==
  ASSUME TypeOK, NEW c \in Call
  PROVE  /\ call[c] \in CallRec
         /\ call[c].app \in App \cup {None} /\ call[c].perms \in SUBSET Perm
         /\ call[c].edit \in EditRec /\ call[c].deck \in DeckRec
         /\ call[c].deck.perms \in SUBSET Perm
         /\ call[c].decks \in [Deck -> DeckRec] /\ call[c].grants \in [Grant -> GrantRec]
         /\ call[c].ref \in Ref \cup {None} /\ call[c].todo \in SUBSET Grant
         /\ call[c].backing \in SUBSET Grant
<1>1. call[c] \in CallRec
  BY DEF TypeOK
<1>2. QED BY <1>1 DEF CallRec, DeckRec

LEMMA EditedType ==
  ASSUME NEW deck \in DeckRec, NEW edit \in EditRec
  PROVE  Edited(deck, edit) \in DeckRec
BY DEF Edited, DeckRec, EditRec, Delete, NoDeck

LEMMA StartTypes ==
  ASSUME TypeOK, NEW c \in Call, StartCall(c)
  PROVE  TypeOK'
<1>1. CASE \E d \in Deck, edit \in Edits : EditDeck(c, d, edit)
  <2>1. PICK d \in Deck, edit \in Edits : EditDeck(c, d, edit)
    BY <1>1
  <2>2. [Idle EXCEPT !.kind = "editDeck", !.stage = "read", !.id = d,
                     !.edit = edit, !.decks = decks] \in CallRec
    BY IdleType, RequestAssumption DEF TypeOK, CallRec, Kind, Stage
  <2>3. QED BY <2>1, <2>2, SetCall DEF EditDeck, Start, TypeOK
<1>2. CASE \E d \in Deck, app \in App : GrantPermission(c, d, app)
  <2>1. PICK d \in Deck, app \in App : GrantPermission(c, d, app)
    BY <1>2
  <2>2. [Idle EXCEPT !.kind = "grant", !.stage = "read", !.app = app,
                     !.deck = decks[d]] \in CallRec
    BY IdleType DEF TypeOK, CallRec, Kind, Stage
  <2>3. QED BY <2>1, <2>2, SetCall DEF GrantPermission, Start, TypeOK
<1>3. CASE \E g \in Grant : RevokeGrant(c, g)
  <2>1. PICK g \in Grant : RevokeGrant(c, g)
    BY <1>3
  <2>2. [Idle EXCEPT !.kind = "revoke", !.stage = "read", !.id = g,
                     !.grants = grants] \in CallRec
    BY IdleType DEF TypeOK, CallRec, Kind, Stage
  <2>3. QED BY <2>1, <2>2, SetCall DEF RevokeGrant, Start, TypeOK
<1>4. CASE \E app \in App : RevokeAllGrantsForApp(c, app)
  <2>1. PICK app \in App : RevokeAllGrantsForApp(c, app)
    BY <1>4
  <2>2. [Idle EXCEPT !.kind = "revoke", !.stage = "list", !.app = app,
                     !.grants = grants] \in CallRec
    BY IdleType DEF TypeOK, CallRec, Kind, Stage
  <2>3. QED BY <2>1, <2>2, SetCall DEF RevokeAllGrantsForApp, Start, TypeOK
<1>5. CASE \E app \in App, perms \in Wanted : HandleProofRequest(c, app, perms)
  <2>1. PICK app \in App, perms \in Wanted : HandleProofRequest(c, app, perms)
    BY <1>5
  <2>2. [Idle EXCEPT !.kind = "proof", !.stage = "read", !.app = app,
                     !.perms = perms, !.grants = grants] \in CallRec
    BY IdleType, RequestAssumption DEF TypeOK, CallRec, Kind, Stage
  <2>3. QED BY <2>1, <2>2, SetCall DEF HandleProofRequest, Start, TypeOK
<1>6. QED BY <1>1, <1>2, <1>3, <1>4, <1>5 DEF StartCall

LEMMA ReturnType ==
  ASSUME TypeOK, NEW c \in Call, Return(c)
  PROVE  call' \in [Call -> CallRec]
BY IdleType, SetCall DEF Return, TypeOK

LEMMA RevokeDoneType ==
  ASSUME TypeOK, NEW c \in Call, RevokeDone(c)
  PROVE  call' \in [Call -> CallRec]
<1>1. [Idle EXCEPT !.kind = "revoke", !.stage = "next", !.todo = call[c].todo] \in CallRec
  BY CallFields, IdleType DEF CallRec, Kind, Stage
<1>2. QED BY <1>1, IdleType, SetCall DEF RevokeDone, TypeOK

LEMMA RevokedGrantsType ==
  ASSUME TypeOK, NEW c \in Call
  PROVE  RevokedGrants(c) \in [Grant -> GrantRec]
<1>1. call[c].grants \in [Grant -> GrantRec]
  BY CallFields
<1>2. \A g \in Grant : [call[c].grants[g] EXCEPT !.stat = "revoked"] \in GrantRec
  BY <1>1 DEF GrantRec
<1>3. QED BY <1>1, <1>2 DEF RevokedGrants

LEMMA AppendedType ==
  ASSUME TypeOK, NEW g, NEW app \in App \cup {None},
         NEW perms \in SUBSET Perm, NEW ref \in Ref \cup {None}
  PROVE  Appended(g, app, perms, ref) \in [Grant -> GrantRec]
<1>1. [stat |-> "granted", app |-> app, perms |-> perms, ref |-> ref] \in GrantRec
  BY DEF GrantRec
<1>2. QED BY <1>1 DEF Appended, TypeOK

LEMMA DeckResumeTypes ==
  ASSUME TypeOK, NEW c \in Call, EditDeckWrite(c)
  PROVE  TypeOK'
<1>2. EditedDecks(c) \in [Deck -> DeckRec]
  BY CallFields, EditedType DEF EditedDecks
<1>3. decks' \in [Deck -> DeckRec]
  BY <1>2 DEF EditDeckWrite, TypeOK
<1>4. QED BY <1>3, ReturnType DEF EditDeckWrite, TypeOK

LEMMA GrantResumeTypes ==
  ASSUME TypeOK, NEW c \in Call, GrantResume(c)
  PROVE  TypeOK'
<1>0. call[c] \in CallRec
  BY CallFields
<1>1. CASE GrantRefused(c)
  BY <1>1, ReturnType DEF GrantRefused, TypeOK
<1>2. CASE \E g \in Grant : GrantBuild(c, g)
  <2>1. PICK g \in Grant : GrantBuild(c, g)
    BY <1>2
  <2>2. CASE connected
    <3>1. PICK ref \in {RefOf[g], None} :
             call' = [call EXCEPT ![c].stage = "syncing", ![c].id = g, ![c].ref = ref]
      BY <2>1, <2>2 DEF GrantBuild
    <3>2. [call[c] EXCEPT !.stage = "syncing", !.id = g, !.ref = ref] \in CallRec
      BY <1>0, RefAssumption DEF CallRec, Stage
    <3>3. call' = [call EXCEPT ![c] =
                      [call[c] EXCEPT !.stage = "syncing", !.id = g, !.ref = ref]]
      BY <3>1, <1>0 DEF TypeOK
    <3>4. QED BY <2>1, <2>2, <3>2, <3>3, SetCall DEF GrantBuild, TypeOK
  <2>3. CASE ~connected
    <3>1. grants' \in [Grant -> GrantRec]
      <4>1. grants' = Appended(g, call[c].app, call[c].deck.perms, None)
        BY <2>1, <2>3 DEF GrantBuild
      <4>2. QED BY <4>1, CallFields, AppendedType
    <3>2. QED BY <2>1, <2>3, <3>1, ReturnType DEF GrantBuild, TypeOK
  <2>4. QED BY <2>2, <2>3
<1>3. CASE GrantAppend(c)
  <2>1. grants' \in [Grant -> GrantRec]
    BY <1>3, CallFields, AppendedType DEF GrantAppend
  <2>2. QED BY <1>3, <2>1, ReturnType DEF GrantAppend, TypeOK
<1>4. QED BY <1>1, <1>2, <1>3 DEF GrantResume

LEMMA RevokeResumeTypes ==
  ASSUME TypeOK, CallShape, NEW c \in Call, RevokeResume(c)
  PROVE  TypeOK'
<1>0. call[c] \in CallRec
  BY CallFields
<1>1. CASE RevokeNotFound(c)
  BY <1>1, ReturnType DEF RevokeNotFound, TypeOK
<1>2. CASE RevokeAlready(c)
  BY <1>2, RevokeDoneType DEF RevokeAlready, TypeOK
<1>3. CASE RevokeProceed(c)
  <2> DEFINE ref == call[c].grants[call[c].id].ref
  <2>1. CASE connected /\ ref # None
    <3>1. [call[c] EXCEPT !.stage = "syncing"] \in CallRec
      BY <1>0 DEF CallRec, Stage
    <3>2. call' \in [Call -> CallRec]
      <4>1. call' = [call EXCEPT ![c] = [call[c] EXCEPT !.stage = "syncing"]]
        BY <1>3, <2>1 DEF RevokeProceed, TypeOK
      <4>2. QED BY <3>1, <4>1, SetCall DEF TypeOK
    <3>3. ref \in Ref
      <4>1. call[c].id \in Grant
        BY <1>3 DEF RevokeProceed, At, CallShape, Shape
      <4>2. QED BY <2>1, <4>1, CallFields DEF GrantRec
    <3>4. QED BY <1>3, <2>1, <3>2, <3>3 DEF RevokeProceed, TypeOK
  <2>2. CASE ~(connected /\ ref # None)
    BY <1>3, <2>2, RevokedGrantsType, RevokeDoneType DEF RevokeProceed, TypeOK
  <2>3. QED BY <2>1, <2>2
<1>4. CASE RevokeWrite(c)
  BY <1>4, RevokedGrantsType, RevokeDoneType DEF RevokeWrite, TypeOK
<1>5. CASE RevokeAllList(c)
  <2> DEFINE found == ActiveForApp(call[c].grants, call[c].app)
  <2>1. [Idle EXCEPT !.kind = "revoke", !.stage = "next", !.todo = found] \in CallRec
    BY IdleType DEF CallRec, Kind, Stage, ActiveForApp
  <2>2. QED BY <1>5, <2>1, IdleType, SetCall DEF RevokeAllList, TypeOK
<1>6. CASE \E g \in Grant : RevokeAllNext(c, g)
  <2>1. PICK g \in Grant : RevokeAllNext(c, g)
    BY <1>6
  <2> DEFINE rec == [call[c] EXCEPT !.stage = "read", !.id = g, !.grants = grants,
                                    !.todo = call[c].todo \ {g}]
  <2>2. rec \in CallRec
    BY <1>0 DEF CallRec, Stage, TypeOK
  <2>3. call' = [call EXCEPT ![c] = rec]
    BY <2>1 DEF RevokeAllNext
  <2>4. QED BY <2>1, <2>2, <2>3, SetCall DEF RevokeAllNext, TypeOK
<1>7. QED BY <1>1, <1>2, <1>3, <1>4, <1>5, <1>6 DEF RevokeResume

LEMMA ProofResumeTypes ==
  ASSUME TypeOK, NEW c \in Call, ProofResume(c)
  PROVE  TypeOK'
<1>0. call[c] \in CallRec
  BY CallFields
<1>1. CASE ProofGrantCheck(c)
  <2> DEFINE found == Backing(call[c].grants, call[c].app, call[c].perms)
             rec == [call[c] EXCEPT !.stage = "matched", !.backing = found,
                                    !.decks = decks, !.grants = NoGrants]
  <2>1. rec \in CallRec
    BY <1>0, ArrayTypes DEF CallRec, Stage, TypeOK, Backing, ActiveForApp
  <2>2. call' \in [Call -> CallRec]
    BY <1>1, <2>1, ReturnType, SetCall DEF ProofGrantCheck, TypeOK
  <2>3. QED BY <1>1, <2>2 DEF ProofGrantCheck, TypeOK
<1>2. CASE ProofDeckCheck(c)
  <2> DEFINE rec == [call[c] EXCEPT !.stage = "proving", !.decks = NoDecks]
  <2>1. rec \in CallRec
    BY <1>0, ArrayTypes DEF CallRec, Stage
  <2>2. call' \in [Call -> CallRec]
    BY <1>2, <2>1, ReturnType, SetCall DEF ProofDeckCheck, TypeOK
  <2>3. QED BY <1>2, <2>2 DEF ProofDeckCheck, TypeOK
<1>3. CASE ProofGenerated(c)
  <2> DEFINE rec == [call[c] EXCEPT !.stage = "proved", !.grants = grants]
  <2>1. rec \in CallRec
    BY <1>0 DEF CallRec, Stage, TypeOK
  <2>2. call' \in [Call -> CallRec]
    BY <1>3, <2>1, ReturnType, SetCall DEF ProofGenerated, TypeOK
  <2>3. QED BY <1>3, <2>2 DEF ProofGenerated, TypeOK
<1>4. CASE ProofRespond(c)
  BY <1>4, CallFields, ReturnType DEF ProofRespond, TypeOK
<1>5. QED BY <1>1, <1>2, <1>3, <1>4 DEF ProofResume

LEMMA NextTypes ==
  ASSUME TypeOK, CallShape, [Next]_vars
  PROVE  TypeOK'
<1>1. CASE \E d \in Deck, perms \in SUBSET Perm : CreateDeck(d, perms)
  BY <1>1 DEF CreateDeck, TypeOK, DeckRec
<1>2. CASE \E c \in Call : StartCall(c) \/ Resume(c)
  <2>1. PICK c \in Call : StartCall(c) \/ Resume(c)
    BY <1>2
  <2>2. QED BY <2>1, StartTypes, DeckResumeTypes, GrantResumeTypes, RevokeResumeTypes,
               ProofResumeTypes DEF Resume
<1>3. CASE ConnectMidnight \/ Disconnect
  BY <1>3 DEF ConnectMidnight, Disconnect, TypeOK
<1>4. CASE \E g \in Expiring : Expire(g)
  BY <1>4, ExpiringAssumption DEF Expire, TypeOK
<1>5. CASE UNCHANGED vars
  BY <1>5 DEF vars, TypeOK
<1>6. QED BY <1>1, <1>2, <1>3, <1>4, <1>5 DEF Next

(* A call of the API and a continuation touch no slot but their own.       *)
LEMMA OwnSlot ==
  ASSUME TypeOK, NEW c \in Call, StartCall(c) \/ Resume(c)
  PROVE  \A d \in Call : d # c => call'[d] = call[d]
<1> USE DEF TypeOK
<1>1. CASE StartCall(c)
  BY <1>1 DEF StartCall, EditDeck, GrantPermission, RevokeGrant, RevokeAllGrantsForApp,
              HandleProofRequest, Start
<1>2. CASE EditDeckWrite(c)
  BY <1>2 DEF EditDeckWrite, Return
<1>3. CASE GrantResume(c)
  <2>1. CASE \E g \in Grant : GrantBuild(c, g)
    BY <2>1 DEF GrantBuild, Return
  <2>2. QED BY <1>3, <2>1 DEF GrantResume, GrantRefused, GrantAppend, Return
<1>4. CASE RevokeResume(c)
  BY <1>4 DEF RevokeResume, RevokeNotFound, RevokeAlready, RevokeProceed, RevokeWrite,
              RevokeAllList, RevokeAllNext, RevokeDone, Return
<1>5. CASE ProofResume(c)
  BY <1>5 DEF ProofResume, ProofGrantCheck, ProofDeckCheck, ProofGenerated, ProofRespond,
              Return
<1>6. QED BY <1>1, <1>2, <1>3, <1>4, <1>5 DEF Resume

(* An idle slot, and what RevokeDone leaves in one.                        *)
LEMMA ReturnIdle ==
  ASSUME TypeOK, NEW c \in Call, Return(c)
  PROVE  call'[c] = Idle
BY DEF Return, TypeOK

LEMMA RevokeDoneNext ==
  ASSUME TypeOK, NEW c \in Call, RevokeDone(c)
  PROVE  \/ call'[c] = Idle
         \/ call'[c].kind = "revoke" /\ call'[c].stage = "next"
BY DEF RevokeDone, Idle, TypeOK

(* What a call keeps when it starts.                                       *)
LEMMA Started ==
  ASSUME TypeOK, NEW c \in Call, StartCall(c)
  PROVE  /\ UNCHANGED <<decks, grants, issued, expired, connected, ledgerRevoked, unbacked>>
         /\ MayStart(call'[c].kind)
         /\ call'[c].kind # "none"
         /\ call'[c].kind = "editDeck" => call'[c].id \in Deck /\ call'[c].decks = decks
         /\ call'[c].kind = "grant" => call'[c].stage = "read"
         /\ call'[c].kind = "revoke" =>
              /\ call'[c].stage \in {"list", "read"} /\ call'[c].grants = grants
              /\ call'[c].stage = "read" => call'[c].id \in Grant
         /\ call'[c].kind = "proof" => call'[c].stage = "read" /\ call'[c].grants = grants
<1> USE DEF Start, TypeOK, Idle
<1>1. CASE \E d \in Deck, edit \in Edits : EditDeck(c, d, edit)
  BY <1>1 DEF EditDeck
<1>2. CASE \E d \in Deck, app \in App : GrantPermission(c, d, app)
  BY <1>2 DEF GrantPermission
<1>3. CASE \E g \in Grant : RevokeGrant(c, g)
  BY <1>3 DEF RevokeGrant
<1>4. CASE \E app \in App : RevokeAllGrantsForApp(c, app)
  BY <1>4 DEF RevokeAllGrantsForApp
<1>5. CASE \E app \in App, perms \in Wanted : HandleProofRequest(c, app, perms)
  BY <1>5 DEF HandleProofRequest
<1>6. QED BY <1>1, <1>2, <1>3, <1>4, <1>5 DEF StartCall

(* What the continuations of each kind of call do to their slot.           *)
LEMMA SetSlot ==
  ASSUME TypeOK, NEW c \in Call, NEW rec, call' = [call EXCEPT ![c] = rec]
  PROVE  call'[c] = rec
BY DEF TypeOK

LEMMA GrantEffect ==
  ASSUME TypeOK, NEW c \in Call, GrantResume(c)
  PROVE  /\ call[c].kind = "grant"
         /\ UNCHANGED <<decks, expired, ledgerRevoked, unbacked>>
         /\ \/ call'[c] = Idle /\ UNCHANGED <<grants, issued>>
            \/ \E g \in Grant \ issued, ref \in {RefOf[call'[c].id], None} :
                 /\ issued' = issued \cup {g} /\ UNCHANGED grants
                 /\ call'[c].kind = "grant" /\ call'[c].stage = "syncing"
                 /\ call'[c].id = g /\ call'[c].ref = ref
            \/ \E g \in Grant \ issued :
                 /\ issued' = issued \cup {g} /\ call'[c] = Idle
                 /\ grants' = Appended(g, call[c].app, call[c].deck.perms, None)
            \/ /\ At(c, "grant", "syncing") /\ call'[c] = Idle /\ UNCHANGED issued
               /\ grants' = Appended(call[c].id, call[c].app, call[c].deck.perms, call[c].ref)
<1>0. call[c] \in CallRec
  BY CallFields
<1>1. CASE GrantRefused(c)
  BY <1>1, ReturnIdle DEF GrantRefused, At
<1>2. CASE GrantAppend(c)
  BY <1>2, ReturnIdle DEF GrantAppend, At
<1>3. CASE \E g \in Grant : GrantBuild(c, g)
  <2>1. PICK g \in Grant : GrantBuild(c, g)
    BY <1>3
  <2>2. CASE connected
    <3>1. PICK ref \in {RefOf[g], None} :
             call' = [call EXCEPT ![c].stage = "syncing", ![c].id = g, ![c].ref = ref]
      BY <2>1, <2>2 DEF GrantBuild
    <3>2. /\ call'[c].kind = "grant" /\ call'[c].stage = "syncing"
          /\ call'[c].id = g /\ call'[c].ref = ref
      BY <1>0, <2>1, <3>1 DEF GrantBuild, At, TypeOK, CallRec
    <3>3. QED BY <2>1, <2>2, <3>2 DEF GrantBuild, At
  <2>3. CASE ~connected
    BY <2>1, <2>3, ReturnIdle DEF GrantBuild, At
  <2>4. QED BY <2>2, <2>3
<1>4. QED BY <1>1, <1>2, <1>3 DEF GrantResume

LEMMA RevokeEffect ==
  ASSUME TypeOK, NEW c \in Call, RevokeResume(c)
  PROVE  /\ call[c].kind = "revoke"
         /\ UNCHANGED <<decks, issued, expired, unbacked>>
         /\ \/ /\ call'[c].kind = "none" \/ (call'[c].kind = "revoke" /\ call'[c].stage = "next")
               /\ UNCHANGED ledgerRevoked
               /\ \/ UNCHANGED grants
                  \/ /\ call[c].stage \in {"read", "syncing"}
                     /\ call[c].stage = "read" => call[c].grants[call[c].id].stat = "granted"
                     /\ grants' = RevokedGrants(c)
            \/ /\ call[c].stage = "read" /\ call[c].grants[call[c].id].stat = "granted"
               /\ call'[c].kind = "revoke" /\ call'[c].stage = "syncing"
               /\ call'[c].id = call[c].id /\ call'[c].grants = call[c].grants
               /\ ledgerRevoked' \subseteq ledgerRevoked \cup {call[c].grants[call[c].id].ref}
               /\ call[c].grants[call[c].id].ref # None
               /\ UNCHANGED grants
            \/ /\ call'[c].kind = "revoke" /\ call'[c].stage = "read"
               /\ call'[c].id \in Grant /\ call'[c].grants = grants
               /\ UNCHANGED <<grants, ledgerRevoked>>
<1>0. call[c] \in CallRec /\ Idle.kind = "none"
  BY CallFields DEF Idle
<1>1. CASE RevokeNotFound(c) \/ RevokeAlready(c)
  BY <1>0, <1>1, ReturnIdle, RevokeDoneNext DEF RevokeNotFound, RevokeAlready, At
<1>2. CASE RevokeWrite(c)
  BY <1>0, <1>2, RevokeDoneNext DEF RevokeWrite, At
<1>3. CASE RevokeProceed(c)
  <2> DEFINE ref == call[c].grants[call[c].id].ref
  <2>1. CASE connected /\ ref # None
    <3> DEFINE rec == [call[c] EXCEPT !.stage = "syncing"]
    <3>0. /\ rec.kind = "revoke" /\ rec.stage = "syncing"
          /\ rec.id = call[c].id /\ rec.grants = call[c].grants
      BY <1>0, <1>3 DEF RevokeProceed, At, CallRec
    <3>1. call'[c] = rec
      BY <1>3, <2>1 DEF RevokeProceed, TypeOK
    <3>2. /\ call'[c].kind = "revoke" /\ call'[c].stage = "syncing"
          /\ call'[c].id = call[c].id /\ call'[c].grants = call[c].grants
      BY <3>0, <3>1
    <3>3. QED BY <1>3, <2>1, <3>2 DEF RevokeProceed, At
  <2>2. CASE ~(connected /\ ref # None)
    BY <1>0, <1>3, <2>2, RevokeDoneNext DEF RevokeProceed, At
  <2>3. QED BY <2>1, <2>2
<1>4. CASE RevokeAllList(c)
  <2>1. call'[c] = Idle \/ (call'[c].kind = "revoke" /\ call'[c].stage = "next")
    BY <1>0, <1>4 DEF RevokeAllList, TypeOK, Idle
  <2>2. QED BY <1>0, <1>4, <2>1 DEF RevokeAllList, At
<1>5. CASE \E g \in Grant : RevokeAllNext(c, g)
  <2>1. PICK g \in Grant : RevokeAllNext(c, g)
    BY <1>5
  <2> DEFINE rec == [call[c] EXCEPT !.stage = "read", !.id = g, !.grants = grants,
                                    !.todo = call[c].todo \ {g}]
  <2>2. rec.kind = "revoke" /\ rec.stage = "read" /\ rec.id = g /\ rec.grants = grants
    BY <1>0, <2>1 DEF RevokeAllNext, At, CallRec
  <2>3. call'[c] = rec
    BY <2>1, SetSlot DEF RevokeAllNext
  <2>4. QED BY <2>1, <2>2, <2>3 DEF RevokeAllNext, At
<1>6. QED BY <1>1, <1>2, <1>3, <1>4, <1>5 DEF RevokeResume

LEMMA ProofEffect ==
  ASSUME TypeOK, NEW c \in Call, ProofResume(c)
  PROVE  /\ call[c].kind = "proof"
         /\ UNCHANGED <<decks, grants, issued, expired, ledgerRevoked>>
         /\ \/ call'[c] = Idle /\ UNCHANGED unbacked
            \/ /\ call'[c] = Idle /\ call[c].stage = "proved"
               /\ Backing(call[c].grants, call[c].app, call[c].perms) = {}
               /\ unbacked' = unbacked \cup call[c].backing
            \/ /\ call'[c].kind = "proof"
               /\ call'[c].app = call[c].app /\ call'[c].perms = call[c].perms
               /\ UNCHANGED unbacked
               /\ \/ /\ call[c].stage = "read" /\ call'[c].stage = "matched"
                     /\ call'[c].backing = Backing(call[c].grants, call[c].app, call[c].perms)
                  \/ /\ call[c].stage = "matched" /\ call'[c].stage = "proving"
                     /\ call'[c].backing = call[c].backing
                  \/ /\ call[c].stage = "proving" /\ call'[c].stage = "proved"
                     /\ call'[c].backing = call[c].backing /\ call'[c].grants = grants
<1>0. call[c] \in CallRec
  BY CallFields
<1> DEFINE Kept(rec) ==
      rec.kind = "proof" /\ rec.app = call[c].app /\ rec.perms = call[c].perms
<1>1. CASE ProofGrantCheck(c)
  <2> DEFINE found == Backing(call[c].grants, call[c].app, call[c].perms)
             rec == [call[c] EXCEPT !.stage = "matched", !.backing = found,
                                    !.decks = decks, !.grants = NoGrants]
  <2>1. Kept(rec) /\ rec.stage = "matched" /\ rec.backing = found
    BY <1>0, <1>1 DEF ProofGrantCheck, At, CallRec
  <2>2. Return(c) \/ call'[c] = rec
    BY <1>1, SetSlot DEF ProofGrantCheck
  <2>3. QED BY <1>1, <2>1, <2>2, ReturnIdle DEF ProofGrantCheck, At
<1>2. CASE ProofDeckCheck(c)
  <2> DEFINE rec == [call[c] EXCEPT !.stage = "proving", !.decks = NoDecks]
  <2>1. Kept(rec) /\ rec.stage = "proving" /\ rec.backing = call[c].backing
    BY <1>0, <1>2 DEF ProofDeckCheck, At, CallRec
  <2>2. Return(c) \/ call'[c] = rec
    BY <1>2, SetSlot DEF ProofDeckCheck
  <2>3. QED BY <1>2, <2>1, <2>2, ReturnIdle DEF ProofDeckCheck, At
<1>3. CASE ProofGenerated(c)
  <2> DEFINE rec == [call[c] EXCEPT !.stage = "proved", !.grants = grants]
  <2>1. Kept(rec) /\ rec.stage = "proved" /\ rec.backing = call[c].backing
        /\ rec.grants = grants
    BY <1>0, <1>3 DEF ProofGenerated, At, CallRec
  <2>2. Return(c) \/ call'[c] = rec
    BY <1>3, SetSlot DEF ProofGenerated
  <2>3. QED BY <1>3, <2>1, <2>2, ReturnIdle DEF ProofGenerated, At
<1>4. CASE ProofRespond(c)
  BY <1>4, ReturnIdle DEF ProofRespond, At
<1>5. QED BY <1>1, <1>2, <1>3, <1>4 DEF ProofResume

LEMMA EditEffect ==
  ASSUME TypeOK, NEW c \in Call, EditDeckWrite(c)
  PROVE  /\ call[c].kind = "editDeck" /\ call'[c] = Idle
         /\ UNCHANGED <<grants, issued, expired, ledgerRevoked, unbacked>>
         /\ \/ UNCHANGED decks
            \/ /\ call[c].decks[call[c].id].stat # "absent"
               /\ decks' = EditedDecks(c)
BY ReturnIdle DEF EditDeckWrite, At

LEMMA KindStep ==
  ASSUME TypeOK, NEW c \in Call, Resume(c)
  PROVE  call'[c].kind \in {call[c].kind, "none"}
BY EditEffect, GrantEffect, RevokeEffect, ProofEffect DEF Resume, Idle

LEMMA ShapeStep ==
  ASSUME TypeOK, NEW c \in Call, Shape(c), StartCall(c) \/ Resume(c)
  PROVE  Shape(c)'
<1> USE DEF Shape, At
<1>0. Idle.kind = "none"
  BY DEF Idle
<1>1. CASE StartCall(c)
  BY <1>1, Started
<1>2. CASE EditDeckWrite(c)
  BY <1>0, <1>2, EditEffect
<1>3. CASE GrantResume(c)
  BY <1>0, <1>3, GrantEffect
<1>4. CASE RevokeResume(c)
  BY <1>0, <1>4, RevokeEffect
<1>5. CASE ProofResume(c)
  BY <1>0, <1>5, ProofEffect
<1>6. QED BY <1>1, <1>2, <1>3, <1>4, <1>5 DEF Resume

LEMMA NextShape ==
  ASSUME TypeOK, CallShape, [Next]_vars
  PROVE  CallShape'
<1>1. CASE \E c \in Call : StartCall(c) \/ Resume(c)
  <2>1. PICK c \in Call : StartCall(c) \/ Resume(c)
    BY <1>1
  <2>2. Shape(c)'
    BY <2>1, ShapeStep DEF CallShape
  <2>3. ASSUME NEW d \in Call, d # c PROVE Shape(d)'
    BY <2>1, <2>3, OwnSlot DEF CallShape, Shape, At
  <2>4. QED BY <2>2, <2>3 DEF CallShape
<1>2. CASE UNCHANGED call
  BY <1>2 DEF CallShape, Shape, At
<1>3. QED BY <1>1, <1>2 DEF Next, vars, CreateDeck, ConnectMidnight, Disconnect, Expire

(* In every reachable state of every instance, with or without serialised  *)
(* callers, the engine's state is well typed: the arrays hold decks and    *)
(* grants, and each call in flight holds what its handler keeps.           *)
THEOREM TypeCorrect == Spec => []TypeOK
<1>1. Init => TypeOK /\ CallShape
  BY InitTypeOK DEF Init, CallShape, Shape, At, Idle
<1>2. TypeOK /\ CallShape /\ [Next]_vars => (TypeOK /\ CallShape)'
  BY NextTypes, NextShape
<1>3. QED BY <1>1, <1>2, PTL DEF Spec

-----------------------------------------------------------------------------
(* The inductive invariant of serialised callers *)

(* Calls that may lose each other's updates do not overlap.                *)
Exclusive ==
    \A c, d \in Call : c # d => <<call[c].kind, call[d].kind>> \notin Conflicts

(* So a copy that is going to be written back is still the array, and a    *)
(* revocation that waits for Midnight is of a granted grant.               *)
RevokeInv(c) == call[c].kind = "revoke" =>
    /\ call[c].stage \in {"list", "read", "syncing"} => call[c].grants = grants
    /\ call[c].stage = "syncing" => grants[call[c].id].stat = "granted"

EditInv(c) == call[c].kind = "editDeck" => call[c].decks = decks

(* A grant that waits for Midnight has its own identifier and is in no     *)
(* array yet.                                                              *)
GrantInv(c) == At(c, "grant", "syncing") =>
    /\ call[c].id \in issued
    /\ grants[call[c].id].stat = "absent"
    /\ call[c].ref \in {RefOf[call[c].id], None}

GrantUnique == \A c, d \in Call :
    (c # d /\ At(c, "grant", "syncing") /\ At(d, "grant", "syncing")) => call[c].id # call[d].id

(* A copy of the grants is an earlier state of the array: what it holds is *)
(* still there, and what it shows revoked still is.                        *)
Holds(array, g, app, perms) ==
    array[g].stat # "absent" /\ array[g].app = app /\ perms \subseteq array[g].perms

Earlier(array) == \A g \in Grant :
    /\ array[g].stat # "absent" => /\ grants[g].stat # "absent"
                                   /\ grants[g].app = array[g].app
                                   /\ grants[g].perms = array[g].perms
    /\ array[g].stat = "revoked" => grants[g].stat = "revoked"

ProofInv(c) == call[c].kind = "proof" =>
    /\ call[c].stage \in {"read", "proved"} => Earlier(call[c].grants)
    /\ call[c].stage \in {"matched", "proving"} =>
          \A g \in call[c].backing : Holds(grants, g, call[c].app, call[c].perms)
    /\ call[c].stage = "proved" =>
          \A g \in call[c].backing : Holds(call[c].grants, g, call[c].app, call[c].perms)

CallInv(c) == RevokeInv(c) /\ EditInv(c) /\ GrantInv(c) /\ ProofInv(c)

GrantsIssued == \A g \in Grant : grants[g].stat # "absent" => g \in issued
DecksIssued  == \A d \in Deck : decks[d].stat # "absent" => d \in issued
GrantRefs    == \A g \in Grant : grants[g].ref \in {RefOf[g], None}

(* A reference that Midnight shows revoked came from a grant that is revoked *)
(* or being revoked, whichever others share it.                             *)
LedgerBacked == \A ref \in ledgerRevoked : \E g \in Grant :
    RefOf[g] = ref /\ (grants[g].stat = "revoked" \/ BeingRevoked(g))

UnbackedInv == \A g \in unbacked : grants[g].stat = "revoked" \/ g \in expired

IInv ==
    /\ TypeOK
    /\ CallShape
    /\ Exclusive
    /\ \A c \in Call : CallInv(c)
    /\ GrantUnique
    /\ GrantsIssued
    /\ DecksIssued
    /\ GrantRefs
    /\ LedgerBacked
    /\ UnbackedInv

-----------------------------------------------------------------------------
(* The steps preserve it *)

LEMMA ExclusiveStep ==
  ASSUME TypeOK, Exclusive, Serialised, NEW c \in Call, StartCall(c) \/ Resume(c)
  PROVE  Exclusive'
<1>1. \A d \in Call : d # c => call'[d] = call[d]
  BY OwnSlot
<1>2. CASE StartCall(c)
  <2>1. \A d \in Call : <<call'[c].kind, call[d].kind>> \notin Conflicts
    BY <1>2, Started DEF MayStart
  <2>2. \A d \in Call : d # c => <<call[d].kind, call'[c].kind>> \notin Conflicts
    <3>1. call'[c].kind # "createDeck" /\ \A d \in Call : call[d].kind # "createDeck"
      BY <1>2, StartTypes, CallFields DEF TypeOK, CallRec, Kind
    <3>2. QED BY <2>1, <3>1 DEF Conflicts
  <2>3. QED BY <1>1, <2>1, <2>2 DEF Exclusive
<1>3. CASE Resume(c)
  <2>1. \A d \in Call : d # c => /\ <<call'[c].kind, call[d].kind>> \notin Conflicts
                                 /\ <<call[d].kind, call'[c].kind>> \notin Conflicts
    BY <1>3, KindStep DEF Exclusive, Conflicts
  <2>2. QED BY <1>1, <2>1 DEF Exclusive
<1>4. QED BY <1>2, <1>3

(* The three ways in which the array of grants changes.                    *)
Granted(g) ==
    /\ grants[g].stat = "absent" /\ g \in issued'
    /\ \E app \in App \cup {None}, perms \in SUBSET Perm, ref \in {RefOf[g], None} :
          grants' = Appended(g, app, perms, ref)

Revoked(g) ==
    /\ grants[g].stat = "granted"
    /\ grants' = [grants EXCEPT ![g].stat = "revoked"]

GrantsStep(c) ==
    \/ UNCHANGED grants
    \/ /\ call[c].kind = "grant"
       /\ \E g \in Grant :
             /\ Granted(g)
             /\ \A d \in Call \ {c} : At(d, "grant", "syncing") => call[d].id # g
    \/ /\ call[c].kind = "revoke" /\ call[c].stage \in {"read", "syncing"}
       /\ call[c].id \in Grant /\ Revoked(call[c].id)

LEMMA GrantsStepTaken ==
  ASSUME IInv, NEW c \in Call, StartCall(c) \/ Resume(c)
  PROVE  GrantsStep(c)
<1> USE DEF GrantsStep
<1>0. TypeOK /\ CallShape /\ CallInv(c) /\ GrantUnique /\ GrantsIssued
  BY DEF IInv
<1>1. CASE StartCall(c)
  BY <1>0, <1>1, Started
<1>2. CASE EditDeckWrite(c)
  BY <1>0, <1>2, EditEffect
<1>3. CASE GrantResume(c)
  <2>1. CASE UNCHANGED grants
    BY <2>1
  <2>2. ASSUME NEW g \in Grant \ issued, issued' = issued \cup {g},
               grants' = Appended(g, call[c].app, call[c].deck.perms, None)
        PROVE  GrantsStep(c)
    <3>1. Granted(g)
      BY <1>0, <2>2, CallFields DEF Granted, GrantsIssued
    <3>2. \A d \in Call \ {c} : At(d, "grant", "syncing") => call[d].id # g
      BY <2>2 DEF IInv, CallInv, GrantInv
    <3>3. QED BY <1>0, <1>3, <3>1, <3>2, GrantEffect
  <2>3. ASSUME At(c, "grant", "syncing"), UNCHANGED issued,
               grants' = Appended(call[c].id, call[c].app, call[c].deck.perms, call[c].ref)
        PROVE  GrantsStep(c)
    <3>1. call[c].id \in Grant
      BY <1>0, <2>3 DEF CallShape, Shape
    <3>2. Granted(call[c].id)
      BY <1>0, <2>3, CallFields DEF Granted, CallInv, GrantInv
    <3>3. \A d \in Call \ {c} : At(d, "grant", "syncing") => call[d].id # call[c].id
      BY <1>0, <2>3 DEF GrantUnique
    <3>4. QED BY <2>3, <3>1, <3>2, <3>3 DEF At
  <2>4. QED BY <1>0, <1>3, <2>1, <2>2, <2>3, GrantEffect
<1>4. CASE RevokeResume(c)
  <2>1. CASE UNCHANGED grants
    BY <2>1
  <2>2. CASE ~UNCHANGED grants
    <3>1. /\ call[c].kind = "revoke" /\ call[c].stage \in {"read", "syncing"}
          /\ call[c].stage = "read" => call[c].grants[call[c].id].stat = "granted"
          /\ grants' = RevokedGrants(c)
      BY <1>0, <1>4, <2>2, RevokeEffect
    <3>2. call[c].id \in Grant /\ call[c].grants = grants
          /\ grants[call[c].id].stat = "granted"
      BY <1>0, <3>1 DEF CallShape, Shape, CallInv, RevokeInv
    <3>3. QED BY <3>1, <3>2 DEF Revoked, RevokedGrants
  <2>3. QED BY <2>1, <2>2
<1>5. CASE ProofResume(c)
  BY <1>0, <1>5, ProofEffect
<1>6. QED BY <1>1, <1>2, <1>3, <1>4, <1>5 DEF Resume

(* What no change of the array takes back.                                 *)
Kept(g) ==
    /\ grants[g].stat # "absent" =>
          /\ grants'[g].stat # "absent" /\ grants'[g].app = grants[g].app
          /\ grants'[g].perms = grants[g].perms /\ grants'[g].ref = grants[g].ref
    /\ grants[g].stat = "revoked" => grants'[g].stat = "revoked"
    /\ grants[g].stat = "absent" => grants'[g].stat # "revoked"
    /\ (grants[g].stat = "absent" /\ grants'[g].stat # "absent") =>
          g \in issued' /\ grants'[g].ref \in {RefOf[g], None}
    /\ grants[g].stat = "absent" /\ grants'[g].stat = "absent" => grants'[g] = grants[g]

LEMMA GrantedKeeps ==
  ASSUME TypeOK, NEW g \in Grant, Granted(g)
  PROVE  \A h \in Grant : Kept(h)
<1>1. PICK app \in App \cup {None}, perms \in SUBSET Perm, ref \in {RefOf[g], None} :
         grants' = Appended(g, app, perms, ref)
  BY DEF Granted
<1>2. /\ grants'[g] = [stat |-> "granted", app |-> app, perms |-> perms, ref |-> ref]
      /\ \A h \in Grant : h # g => grants'[h] = grants[h]
  BY <1>1 DEF Appended, TypeOK
<1>3. QED BY <1>2 DEF Granted, Kept

LEMMA RevokedKeeps ==
  ASSUME TypeOK, NEW g \in Grant, Revoked(g)
  PROVE  \A h \in Grant : Kept(h)
<1>1. \A h \in Grant : h # g => grants'[h] = grants[h]
  BY DEF Revoked, TypeOK
<1>2. grants'[g] = [grants[g] EXCEPT !.stat = "revoked"] /\ grants[g] \in GrantRec
  BY DEF Revoked, TypeOK
<1>3. /\ grants'[g].stat = "revoked" /\ grants'[g].app = grants[g].app
      /\ grants'[g].perms = grants[g].perms /\ grants'[g].ref = grants[g].ref
  BY <1>2 DEF GrantRec
<1>4. QED BY <1>1, <1>3 DEF Kept, Revoked

LEMMA StepKeeps ==
  ASSUME TypeOK, NEW c \in Call, GrantsStep(c)
  PROVE  \A g \in Grant : Kept(g)
<1>1. CASE UNCHANGED grants
  BY <1>1 DEF Kept
<1>2. QED BY <1>1, GrantedKeeps, RevokedKeeps DEF GrantsStep

LEMMA IssuedGrows ==
  ASSUME TypeOK, NEW c \in Call, StartCall(c) \/ Resume(c)
  PROVE  issued \subseteq issued' /\ UNCHANGED expired
BY Started, EditEffect, GrantEffect, RevokeEffect, ProofEffect DEF Resume

LEMMA DecksStepTaken ==
  ASSUME TypeOK, CallShape, NEW c \in Call, StartCall(c) \/ Resume(c)
  PROVE  \/ UNCHANGED decks
         \/ call[c].kind = "editDeck" /\ call[c].id \in Deck
            /\ call[c].decks[call[c].id].stat # "absent" /\ decks' = EditedDecks(c)
BY Started, EditEffect, GrantEffect, RevokeEffect, ProofEffect DEF Resume, CallShape, Shape

(* A slot that does not act keeps its invariant.                           *)
LEMMA OtherSlots ==
  ASSUME IInv, Serialised, NEW c \in Call, NEW d \in Call, d # c, StartCall(c) \/ Resume(c)
  PROVE  CallInv(d)'
<1>0. TypeOK /\ CallShape /\ Exclusive /\ CallInv(d) /\ GrantsIssued
  BY DEF IInv
<1>1. call'[d] = call[d]
  BY <1>0, OwnSlot
<1>2. GrantsStep(c) /\ \A g \in Grant : Kept(g)
  BY <1>0, GrantsStepTaken, StepKeeps
<1>3. RevokeInv(d)'
  <2>1. CASE call[d].kind = "revoke"
    <3>1. call[c].kind \notin {"revoke", "grant"}
      BY <1>0, <2>1 DEF Exclusive, Conflicts
    <3>2. UNCHANGED grants
      BY <1>2, <3>1 DEF GrantsStep
    <3>3. QED BY <1>0, <1>1, <3>2 DEF CallInv, RevokeInv
  <2>2. QED BY <1>1, <2>1 DEF RevokeInv
<1>4. EditInv(d)'
  <2>1. CASE call[d].kind = "editDeck"
    <3>1. call[c].kind # "editDeck"
      BY <1>0, <2>1 DEF Exclusive, Conflicts
    <3>2. UNCHANGED decks
      BY <1>0, <3>1, DecksStepTaken
    <3>3. QED BY <1>0, <1>1, <3>2 DEF CallInv, EditInv
  <2>2. QED BY <1>1, <2>1 DEF EditInv
<1>5. GrantInv(d)'
  <2>1. CASE At(d, "grant", "syncing")
    <3>1. /\ call[d].id \in Grant /\ call[d].id \in issued
          /\ grants[call[d].id].stat = "absent" /\ call[d].ref \in {RefOf[call[d].id], None}
      BY <1>0, <2>1 DEF CallShape, Shape, CallInv, GrantInv
    <3>2. ASSUME NEW g \in Grant, Granted(g), g # call[d].id
          PROVE  grants'[call[d].id] = grants[call[d].id]
      BY <1>0, <3>1, <3>2 DEF Granted, Appended, TypeOK
    <3>3. ASSUME NEW g \in Grant, Revoked(g)
          PROVE  grants'[call[d].id] = grants[call[d].id]
      BY <1>0, <3>1, <3>3 DEF Revoked, TypeOK
    <3>4. grants'[call[d].id].stat = "absent"
      BY <1>2, <2>1, <3>1, <3>2, <3>3 DEF GrantsStep
    <3>5. QED BY <1>0, <1>1, <3>1, <3>4, IssuedGrows DEF GrantInv
  <2>2. QED BY <1>1, <2>1 DEF GrantInv, At
<1>6. ProofInv(d)'
  <2>1. CASE call[d].kind = "proof"
    <3>1. ProofInv(d) /\ call[d].backing \subseteq Grant
      BY <1>0, CallFields DEF CallInv
    <3>2. call[d].stage \in {"read", "proved"} => Earlier(call[d].grants)'
      BY <1>1, <1>2, <2>1, <3>1 DEF ProofInv, Earlier, Kept
    <3>3. QED BY <1>1, <1>2, <2>1, <3>1, <3>2 DEF ProofInv, Holds, Kept, Earlier
  <2>2. QED BY <1>1, <2>1 DEF ProofInv
<1>7. QED BY <1>3, <1>4, <1>5, <1>6 DEF CallInv

(* So does the one that acts.                                              *)
LEMMA ActingSlot ==
  ASSUME IInv, Serialised, NEW c \in Call, StartCall(c) \/ Resume(c)
  PROVE  CallInv(c)'
<1>0. /\ TypeOK /\ CallShape /\ Exclusive /\ CallInv(c) /\ GrantsIssued
      /\ Idle.kind = "none"
  BY DEF IInv, Idle
<1> USE DEF CallInv, RevokeInv, EditInv, GrantInv, ProofInv
<1>1. CASE StartCall(c)
  <2>1. UNCHANGED <<decks, grants, issued>>
    BY <1>0, <1>1, Started
  <2>2. ProofInv(c)'
    BY <1>0, <1>1, <2>1, Started DEF Earlier
  <2>3. RevokeInv(c)' /\ EditInv(c)' /\ GrantInv(c)'
    BY <1>0, <1>1, <2>1, Started DEF At
  <2>4. QED BY <2>2, <2>3
<1>2. CASE EditDeckWrite(c)
  BY <1>0, <1>2, EditEffect DEF At
<1>3. CASE GrantResume(c)
  BY <1>0, <1>3, GrantEffect DEF At, GrantsIssued
<1>4. CASE RevokeResume(c)
  <2>1. CASE call'[c].kind = "revoke" /\ call'[c].stage = "syncing"
    BY <1>0, <1>4, <2>1, RevokeEffect DEF At
  <2>2. CASE call'[c].kind = "revoke" /\ call'[c].stage = "read"
    BY <1>0, <1>4, <2>2, RevokeEffect DEF At
  <2>3. QED BY <1>0, <1>4, <2>1, <2>2, RevokeEffect DEF At
<1>5. CASE ProofResume(c)
  <2>1. call[c].kind = "proof" /\ UNCHANGED grants /\ call[c].grants \in [Grant -> GrantRec]
    BY <1>0, <1>5, ProofEffect, CallFields
  <2>2. CASE call'[c].stage = "matched" /\ call'[c].kind = "proof"
    <3>1. /\ call[c].stage = "read"
          /\ call'[c].app = call[c].app /\ call'[c].perms = call[c].perms
          /\ call'[c].backing = Backing(call[c].grants, call[c].app, call[c].perms)
      BY <1>0, <1>5, <2>2, ProofEffect
    <3>2. Earlier(call[c].grants)
      BY <1>0, <2>1, <3>1
    <3>3. \A g \in call'[c].backing : Holds(grants, g, call[c].app, call[c].perms)
      BY <3>1, <3>2 DEF Earlier, Holds, Backing, ActiveForApp, ActiveIn
    <3>4. QED BY <2>1, <2>2, <3>1, <3>3 DEF At, Holds
  <2>3. CASE call'[c].stage \in {"proving", "proved"} /\ call'[c].kind = "proof"
    <3>1. /\ call[c].stage \in {"matched", "proving"}
          /\ call'[c].app = call[c].app /\ call'[c].perms = call[c].perms
          /\ call'[c].backing = call[c].backing
          /\ call'[c].stage = "proved" => call'[c].grants = grants
      BY <1>0, <1>5, <2>3, ProofEffect
    <3>2. \A g \in call[c].backing : Holds(grants, g, call[c].app, call[c].perms)
      BY <1>0, <2>1, <3>1
    <3>3. QED BY <2>1, <2>3, <3>1, <3>2 DEF At, Holds, Earlier
  <2>4. QED BY <1>0, <1>5, <2>2, <2>3, ProofEffect DEF At
<1>6. QED BY <1>1, <1>2, <1>3, <1>4, <1>5 DEF Resume

LEMMA UniqueStep ==
  ASSUME IInv, NEW c \in Call, StartCall(c) \/ Resume(c)
  PROVE  GrantUnique'
<1>0. TypeOK /\ GrantUnique /\ \A d \in Call : d # c => call'[d] = call[d]
  BY OwnSlot DEF IInv
<1>1. CASE At(c, "grant", "syncing")'
  <2>1. Idle.kind = "none" /\ GrantResume(c)
    BY <1>0, <1>1, Started, EditEffect, RevokeEffect, ProofEffect DEF Resume, At, Idle
  <2>2. call'[c].id \notin issued
    BY <1>0, <1>1, <2>1, GrantEffect DEF At
  <2>3. \A d \in Call : At(d, "grant", "syncing") => call[d].id \in issued
    BY DEF IInv, CallInv, GrantInv
  <2>4. QED BY <1>0, <2>2, <2>3 DEF GrantUnique, At
<1>2. QED BY <1>0, <1>1 DEF GrantUnique, At

LEMMA IssuedStep ==
  ASSUME IInv, NEW c \in Call, StartCall(c) \/ Resume(c)
  PROVE  GrantsIssued' /\ DecksIssued' /\ GrantRefs'
<1>0. TypeOK /\ CallShape /\ GrantsIssued /\ DecksIssued /\ GrantRefs /\ CallInv(c)
  BY DEF IInv
<1>1. issued \subseteq issued' /\ \A g \in Grant : Kept(g)
  BY <1>0, GrantsStepTaken, StepKeeps, IssuedGrows
<1>2. GrantsIssued' /\ GrantRefs'
  BY <1>0, <1>1 DEF GrantsIssued, GrantRefs, Kept
<1>3. CASE UNCHANGED decks
  BY <1>0, <1>1, <1>2, <1>3 DEF DecksIssued
<1>4. CASE ~UNCHANGED decks
  <2>1. /\ call[c].kind = "editDeck" /\ call[c].id \in Deck
        /\ call[c].decks[call[c].id].stat # "absent" /\ decks' = EditedDecks(c)
    BY <1>0, <1>4, DecksStepTaken
  <2>2. \A d \in Deck : decks'[d].stat # "absent" => decks[d].stat # "absent"
    BY <1>0, <2>1 DEF CallInv, EditInv, EditedDecks, TypeOK
  <2>3. QED BY <1>0, <1>1, <1>2, <2>2 DEF DecksIssued
<1>5. QED BY <1>2, <1>3, <1>4

LEMMA LedgerStep ==
  ASSUME IInv, Serialised, NEW c \in Call, StartCall(c) \/ Resume(c)
  PROVE  LedgerBacked'
<1>0. /\ TypeOK /\ CallShape /\ LedgerBacked /\ CallInv(c) /\ GrantRefs
      /\ Idle.kind = "none"
  BY DEF IInv, Idle
<1>1. GrantsStep(c) /\ \A g \in Grant : Kept(g)
  BY <1>0, GrantsStepTaken, StepKeeps
<1>2. \A d \in Call : d # c => call'[d] = call[d]
  BY <1>0, OwnSlot
<1> DEFINE Shown(ref) ==
      \E g \in Grant : /\ RefOf[g] = ref
                       /\ \/ grants[g].stat = "revoked"
                          \/ \E d \in Call : At(d, "revoke", "syncing") /\ call[d].id = g
<1>3. ASSUME NEW ref, Shown(ref)
      PROVE  Shown(ref)'
  <2>1. PICK g \in Grant : /\ RefOf[g] = ref
                          /\ \/ grants[g].stat = "revoked"
                             \/ \E d \in Call : At(d, "revoke", "syncing") /\ call[d].id = g
    BY <1>3
  <2>2. CASE grants[g].stat = "revoked"
    BY <1>1, <2>1, <2>2 DEF Kept
  <2>3. CASE \E d \in Call : d # c /\ At(d, "revoke", "syncing") /\ call[d].id = g
    BY <1>2, <2>1, <2>3 DEF At
  <2>4. CASE At(c, "revoke", "syncing") /\ call[c].id = g
    <3>1. RevokeWrite(c)
      BY <1>0, <2>4 DEF StartCall, EditDeck, GrantPermission, RevokeGrant,
         RevokeAllGrantsForApp, HandleProofRequest, Start, Idle, Resume, EditDeckWrite,
         GrantResume, GrantRefused, GrantBuild, GrantAppend, RevokeResume, RevokeNotFound,
         RevokeAlready, RevokeProceed, RevokeAllList, RevokeAllNext, ProofResume,
         ProofGrantCheck, ProofDeckCheck, ProofGenerated, ProofRespond, At
    <3>2. grants'[g].stat = "revoked"
      <4>1. grants' = RevokedGrants(c) /\ call[c].grants \in [Grant -> GrantRec]
        BY <1>0, <3>1, CallFields DEF RevokeWrite
      <4>2. grants'[g] = [call[c].grants[g] EXCEPT !.stat = "revoked"]
        BY <2>4, <4>1 DEF RevokedGrants
      <4>3. call[c].grants[g] \in GrantRec
        BY <4>1
      <4>4. QED BY <4>2, <4>3 DEF GrantRec
    <3>3. QED BY <2>1, <3>2
  <2>5. QED BY <2>1, <2>2, <2>3, <2>4
<1>4. ASSUME NEW ref \in ledgerRevoked' \ ledgerRevoked
      PROVE  Shown(ref)'
  <2>1. RevokeResume(c)
    BY <1>0, <1>4, Started, EditEffect, GrantEffect, ProofEffect DEF Resume
  <2>2. /\ call'[c].kind = "revoke" /\ call'[c].stage = "syncing"
        /\ call'[c].id = call[c].id /\ call[c].stage = "read" /\ call[c].kind = "revoke"
        /\ ref = call[c].grants[call[c].id].ref /\ ref # None
    BY <1>0, <1>4, <2>1, RevokeEffect
  <2>3. call[c].id \in Grant /\ RefOf[call[c].id] = ref
    BY <1>0, <2>2 DEF CallShape, Shape, CallInv, RevokeInv, GrantRefs
  <2>4. QED BY <2>2, <2>3 DEF At
<1>5. QED BY <1>0, <1>3, <1>4 DEF LedgerBacked, BeingRevoked

LEMMA UnbackedStep ==
  ASSUME IInv, NEW c \in Call, StartCall(c) \/ Resume(c)
  PROVE  UnbackedInv'
<1>0. TypeOK /\ CallShape /\ UnbackedInv /\ CallInv(c)
  BY DEF IInv
<1>1. UNCHANGED expired /\ \A g \in Grant : Kept(g)
  BY <1>0, GrantsStepTaken, StepKeeps, IssuedGrows
<1>2. \A g \in unbacked : grants'[g].stat = "revoked" \/ g \in expired'
  BY <1>0, <1>1 DEF UnbackedInv, Kept, TypeOK
<1>3. ASSUME NEW g \in unbacked' \ unbacked
      PROVE  grants'[g].stat = "revoked" \/ g \in expired'
  <2>1. ProofResume(c)
    BY <1>0, <1>3, Started, EditEffect, GrantEffect, RevokeEffect DEF Resume
  <2>2. /\ call[c].kind = "proof" /\ call[c].stage = "proved"
        /\ Backing(call[c].grants, call[c].app, call[c].perms) = {}
        /\ g \in call[c].backing /\ g \in Grant
    BY <1>0, <1>3, <2>1, ProofEffect, CallFields
  <2>3. Earlier(call[c].grants) /\ Holds(call[c].grants, g, call[c].app, call[c].perms)
    BY <1>0, <2>2 DEF CallInv, ProofInv
  <2>4. call[c].grants[g].stat = "revoked" \/ g \in expired
    <3>1. call[c].grants[g].stat \in {"absent", "granted", "revoked"}
      BY <1>0, <2>2, CallFields DEF GrantRec
    <3>2. QED BY <2>2, <2>3, <3>1 DEF Holds, Backing, ActiveForApp, ActiveIn
  <2>5. QED BY <1>1, <2>2, <2>3, <2>4 DEF Earlier, Kept
<1>4. QED BY <1>2, <1>3 DEF UnbackedInv

LEMMA CallStep ==
  ASSUME IInv, Serialised, NEW c \in Call, StartCall(c) \/ Resume(c)
  PROVE  IInv'
<1>0. TypeOK /\ CallShape /\ Exclusive
  BY DEF IInv
<1>1. TypeOK' /\ CallShape'
  BY <1>0, NextTypes, NextShape DEF Next
<1>2. Exclusive'
  BY <1>0, ExclusiveStep
<1>3. \A d \in Call : CallInv(d)'
  BY OtherSlots, ActingSlot
<1>4. GrantUnique' /\ GrantsIssued' /\ DecksIssued' /\ GrantRefs'
      /\ LedgerBacked' /\ UnbackedInv'
  BY UniqueStep, IssuedStep, LedgerStep, UnbackedStep
<1>5. QED BY <1>1, <1>2, <1>3, <1>4 DEF IInv

(* createDeck changes the decks while no edit holds a copy of them; the    *)
(* other steps that belong to no call leave the arrays alone.              *)
LEMMA CreateDeckStep ==
  ASSUME IInv, Serialised, NEW d \in Deck, NEW perms \in SUBSET Perm, CreateDeck(d, perms)
  PROVE  IInv'
<1>0. /\ TypeOK /\ CallShape /\ GrantsIssued /\ DecksIssued /\ issued \subseteq issued'
      /\ UNCHANGED <<grants, expired, ledgerRevoked, call, unbacked>>
  BY DEF IInv, CreateDeck
<1>1. TypeOK' /\ CallShape'
  BY <1>0, NextTypes, NextShape DEF Next
<1>2. \A c \in Call : call[c].kind # "editDeck"
  BY DEF CreateDeck, MayStart, Conflicts
<1>3. \A c \in Call : CallInv(c)'
  BY <1>0, <1>2 DEF IInv, CallInv, RevokeInv, EditInv, GrantInv, ProofInv, Earlier, Holds, At
<1>4. DecksIssued' /\ GrantsIssued'
  BY <1>0 DEF DecksIssued, GrantsIssued, CreateDeck, TypeOK
<1>5. Exclusive' /\ GrantUnique' /\ GrantRefs' /\ LedgerBacked' /\ UnbackedInv'
  BY <1>0 DEF IInv, Exclusive, GrantUnique, GrantRefs, LedgerBacked, BeingRevoked, UnbackedInv, At
<1>6. QED BY <1>1, <1>3, <1>4, <1>5 DEF IInv

LEMMA OtherSteps ==
  ASSUME IInv, [Next]_vars, UNCHANGED <<decks, grants, issued, ledgerRevoked, call, unbacked>>,
         expired \subseteq expired'
  PROVE  IInv'
<1>1. TypeOK' /\ CallShape'
  BY NextTypes, NextShape DEF IInv
<1>2. \A c \in Call : CallInv(c)'
  BY DEF IInv, CallInv, RevokeInv, EditInv, GrantInv, ProofInv, Earlier, Holds, At
<1>3. /\ Exclusive' /\ GrantUnique' /\ GrantsIssued' /\ DecksIssued' /\ GrantRefs'
      /\ LedgerBacked' /\ UnbackedInv'
  BY DEF IInv, Exclusive, GrantUnique, GrantsIssued, DecksIssued, GrantRefs, LedgerBacked,
         BeingRevoked, UnbackedInv, At
<1>4. QED BY <1>1, <1>2, <1>3 DEF IInv

LEMMA Inductive == Serialised /\ IInv /\ [Next]_vars => IInv'
<1> SUFFICES ASSUME Serialised, IInv, [Next]_vars
             PROVE  IInv'
  OBVIOUS
<1>1. CASE \E d \in Deck, perms \in SUBSET Perm : CreateDeck(d, perms)
  BY <1>1, CreateDeckStep
<1>2. CASE \E c \in Call : StartCall(c) \/ Resume(c)
  BY <1>2, CallStep
<1>3. CASE ConnectMidnight \/ Disconnect
  BY <1>3, OtherSteps DEF ConnectMidnight, Disconnect
<1>4. CASE \E g \in Expiring : Expire(g)
  <2>1. PICK g \in Expiring : Expire(g)
    BY <1>4
  <2>2. QED BY <2>1, OtherSteps DEF Expire
<1>5. CASE UNCHANGED vars
  BY <1>5, OtherSteps DEF vars
<1>6. QED BY <1>1, <1>2, <1>3, <1>4, <1>5 DEF Next

LEMMA InitIInv == Init => IInv
<1> SUFFICES ASSUME Init
             PROVE  IInv
  OBVIOUS
<1>1. TypeOK
  BY InitTypeOK
<1>2. /\ CallShape /\ Exclusive /\ GrantUnique /\ LedgerBacked /\ UnbackedInv
      /\ \A c \in Call : CallInv(c)
  BY DEF Init, CallShape, Shape, Exclusive, Conflicts, CallInv, RevokeInv, EditInv, GrantInv,
         ProofInv, GrantUnique, LedgerBacked, UnbackedInv, At, Idle
<1>3. GrantsIssued /\ DecksIssued /\ GrantRefs
  BY DEF Init, GrantsIssued, DecksIssued, GrantRefs, NoGrants, NoDecks, NoDeck
<1>4. QED BY <1>1, <1>2, <1>3 DEF IInv

-----------------------------------------------------------------------------
(* What serialised callers may rely on *)

LEMMA Invariant == Serialised /\ Spec => []IInv
<1>1. CASE Serialised
  <2>1. IInv /\ [Next]_vars => IInv'
    BY <1>1, Inductive
  <2>2. QED BY <2>1, InitIInv, PTL DEF Spec
<1>2. QED BY <1>1

(* Whatever overlaps and whenever Midnight connects, disconnects, answers  *)
(* or fails: a grant that shares its reference with no other, and that     *)
(* Midnight shows revoked under the reference it stores, is revoked in the *)
(* array or about to be.                                                   *)
THEOREM LedgerAgrees == Serialised /\ Spec => []LedgerNotAhead
<1>1. ASSUME IInv, NEW g \in Grant, grants[g].ref \in ledgerRevoked, OwnReference(g)
      PROVE  grants[g].stat = "revoked" \/ BeingRevoked(g)
  <2>1. RefOf[g] \in ledgerRevoked
    <3>1. grants[g].ref # None
      BY <1>1, NoneAssumption DEF IInv, TypeOK
    <3>2. QED BY <1>1, <3>1 DEF IInv, GrantRefs
  <2>2. PICK h \in Grant : RefOf[h] = RefOf[g] /\ (grants[h].stat = "revoked" \/ BeingRevoked(h))
    BY <1>1, <2>1 DEF IInv, LedgerBacked
  <2>3. h = g
    BY <1>1, <2>2 DEF OwnReference
  <2>4. QED BY <2>2, <2>3
<1>2. IInv => LedgerNotAhead
  BY <1>1 DEF LedgerNotAhead
<1>3. QED BY <1>2, Invariant, PTL

(* A proof that handleProofRequest returns without a grantId lost every    *)
(* grant that backed it to a revocation or to its expiry, for good.        *)
THEOREM UnbackedExplained == Serialised /\ Spec => []UnbackedProofExplained
<1>1. IInv => UnbackedProofExplained
  BY DEF IInv, UnbackedInv, UnbackedProofExplained, ActiveIn
<1>2. QED BY <1>1, Invariant, PTL

(* What revokeGrant has reported done stays done when callers serialise.   *)
THEOREM RevokedForGood == Serialised /\ Spec => RevocationPermanent
<1>1. ASSUME IInv, NEW c \in Call, StartCall(c) \/ Resume(c)
      PROVE  \A g \in Grant : grants[g].stat = "revoked" => grants'[g].stat = "revoked"
  BY <1>1, GrantsStepTaken, StepKeeps DEF IInv, Kept
<1>2. IInv /\ [Next]_vars
        => [\A g \in Grant : grants[g].stat = "revoked" => grants'[g].stat = "revoked"]_grants
  BY <1>1 DEF Next, vars, CreateDeck, ConnectMidnight, Disconnect, Expire
<1>3. QED BY <1>2, Invariant, PTL DEF Spec, RevocationPermanent

-----------------------------------------------------------------------------
(* The registry whose every call is one step *)

DeckStateOf(d) == IF decks[d].stat # "absent" THEN "present"
                  ELSE IF d \in issued THEN "deleted" ELSE "unused"

GrantStateOf(g) == IF grants[g].stat = "absent" THEN "unused" ELSE grants[g].stat

LEMMA RegistryGrantStep ==
  ASSUME IInv, NEW c \in Call, GrantsStep(c),
         \A d \in Deck : DeckStateOf(d)' = DeckStateOf(d)
  PROVE  [Registry!Next]_<<[d \in Deck |-> DeckStateOf(d)], [g \in Grant |-> GrantStateOf(g)]>>
<1> DEFINE D == [d \in Deck |-> DeckStateOf(d)]
           G == [g \in Grant |-> GrantStateOf(g)]
<1>0. TypeOK /\ D' = D
  BY DEF IInv
<1>1. CASE UNCHANGED grants
  BY <1>0, <1>1 DEF GrantStateOf
<1>2. ASSUME NEW g \in Grant, Granted(g)
      PROVE  Registry!GrantOnce(g)
  <2>1. grants'[g].stat = "granted" /\ \A h \in Grant : h # g => grants'[h] = grants[h]
    BY <1>0, <1>2 DEF Granted, Appended, TypeOK
  <2>2. G[g] = "unused" /\ G' = [G EXCEPT ![g] = "granted"]
    BY <1>2, <2>1 DEF GrantStateOf, Granted
  <2>3. QED BY <1>0, <2>2 DEF Registry!GrantOnce, DeckStateOf, GrantStateOf
<1>3. ASSUME NEW g \in Grant, Revoked(g)
      PROVE  Registry!RevokeOnce(g)
  <2>1. /\ grants[g].stat = "granted" /\ grants'[g].stat = "revoked"
        /\ \A h \in Grant : h # g => grants'[h] = grants[h]
    <3>1. grants[g] \in GrantRec
      BY <1>0 DEF TypeOK
    <3>2. grants'[g] = [grants[g] EXCEPT !.stat = "revoked"]
      BY <1>0, <1>3 DEF Revoked, TypeOK
    <3>3. QED BY <1>0, <1>3, <3>1, <3>2 DEF Revoked, TypeOK, GrantRec
  <2>2. G[g] = "granted" /\ G' = [G EXCEPT ![g] = "revoked"]
    BY <2>1 DEF GrantStateOf
  <2>3. QED BY <1>0, <2>2 DEF Registry!RevokeOnce, DeckStateOf, GrantStateOf
<1>4. QED BY <1>1, <1>2, <1>3 DEF GrantsStep, Registry!Next

LEMMA RegistryCallStep ==
  ASSUME IInv, NEW c \in Call, StartCall(c) \/ Resume(c)
  PROVE  [Registry!Next]_<<[d \in Deck |-> DeckStateOf(d)], [g \in Grant |-> GrantStateOf(g)]>>
<1> DEFINE D == [d \in Deck |-> DeckStateOf(d)]
           G == [g \in Grant |-> GrantStateOf(g)]
<1>0. /\ TypeOK /\ CallShape /\ CallInv(c) /\ DecksIssued
  BY DEF IInv
<1>1. CASE UNCHANGED decks
  <2>1. \A d \in Deck : d \in issued' <=> d \in issued
    BY <1>0, Started, EditEffect, GrantEffect, RevokeEffect, ProofEffect, DisjointAssumption
    DEF Resume
  <2>2. \A d \in Deck : DeckStateOf(d)' = DeckStateOf(d)
    BY <1>1, <2>1 DEF DeckStateOf
  <2>3. QED BY <2>2, GrantsStepTaken, RegistryGrantStep
<1>2. CASE ~UNCHANGED decks
  <2>1. /\ call[c].kind = "editDeck" /\ call[c].id \in Deck
        /\ call[c].decks[call[c].id].stat # "absent" /\ decks' = EditedDecks(c)
    BY <1>0, <1>2, DecksStepTaken
  <2>2. EditDeckWrite(c)
    BY <1>0, <1>2, <2>1, Started, GrantEffect, RevokeEffect, ProofEffect DEF Resume
  <2>3. UNCHANGED <<grants, issued>>
    BY <1>0, <2>2, EditEffect
  <2>4. G' = G
    BY <2>3 DEF GrantStateOf
  <2>. PICK d \in Deck : d = call[c].id
    BY <2>1
  <2>5. decks[d].stat # "absent" /\ \A e \in Deck : e # d => decks'[e] = decks[e]
    BY <1>0, <2>1 DEF CallInv, EditInv, EditedDecks, TypeOK
  <2>6. D[d] = "present" /\ d \in issued'
    BY <1>0, <2>1, <2>3, <2>5 DEF DeckStateOf, DecksIssued
  <2>7. CASE decks'[d].stat = "absent"
    <3>1. D' = [D EXCEPT ![d] = "deleted"]
      BY <2>1, <2>3, <2>5, <2>6, <2>7 DEF DeckStateOf
    <3>2. Registry!DeleteDeck(d)
      BY <2>1, <2>4, <2>6, <3>1 DEF Registry!DeleteDeck, DeckStateOf, GrantStateOf
    <3>3. Registry!Next
      BY <2>1, <3>2 DEF Registry!Next
    <3>4. QED BY <3>3
  <2>8. CASE decks'[d].stat # "absent"
    BY <2>3, <2>4, <2>5, <2>8 DEF DeckStateOf, GrantStateOf
  <2>9. QED BY <2>7, <2>8
<1>3. QED BY <1>1, <1>2

(* Although revokeGrant and updateDeck write arrays that they read before  *)
(* an await, callers that serialise the conflicting calls, and only those, *)
(* see a registry whose every call is one step: no grant is lost, no       *)
(* revoked grant or deleted deck comes back.                               *)
THEOREM RegistryImplemented == Serialised /\ Spec => ImplementsRegistry
<1> DEFINE D == [d \in Deck |-> DeckStateOf(d)]
           G == [g \in Grant |-> GrantStateOf(g)]
<1>1. Init => Registry!Init
  BY DEF Init, Registry!Init, NoDecks, NoDeck, NoGrants
<1>2. ASSUME IInv, [Next]_vars
      PROVE  [Registry!Next]_<<D, G>>
  <2>1. CASE \E c \in Call : StartCall(c) \/ Resume(c)
    BY <1>2, <2>1, RegistryCallStep
  <2>2. CASE \E d \in Deck, perms \in SUBSET Perm : CreateDeck(d, perms)
    <3>1. PICK d \in Deck, perms \in SUBSET Perm : CreateDeck(d, perms)
      BY <2>2
    <3>2. decks[d].stat = "absent" /\ d \notin issued /\ decks \in [Deck -> DeckRec]
      BY <1>2, <3>1 DEF IInv, DecksIssued, CreateDeck, TypeOK
    <3>3. D[d] = "unused" /\ D' = [D EXCEPT ![d] = "present"] /\ G' = G
      BY <3>1, <3>2 DEF CreateDeck, DeckStateOf, GrantStateOf
    <3>4. Registry!CreateDeck(d)
      BY <3>3 DEF Registry!CreateDeck, DeckStateOf, GrantStateOf
    <3>5. QED BY <3>4 DEF Registry!Next
  <2>3. CASE ConnectMidnight \/ Disconnect
    BY <2>3 DEF ConnectMidnight, Disconnect, DeckStateOf, GrantStateOf
  <2>4. CASE \E g \in Expiring : Expire(g)
    BY <2>4 DEF Expire, DeckStateOf, GrantStateOf
  <2>5. CASE UNCHANGED vars
    BY <2>5 DEF vars, DeckStateOf, GrantStateOf
  <2>6. QED BY <1>2, <2>1, <2>2, <2>3, <2>4, <2>5 DEF Next
<1>3. IInv /\ [Next]_vars
        => [Registry!Next]_<<[d \in Deck |-> IF decks[d].stat # "absent" THEN "present"
                                              ELSE IF d \in issued THEN "deleted" ELSE "unused"],
                             [g \in Grant |-> IF grants[g].stat = "absent" THEN "unused"
                                               ELSE grants[g].stat]>>
  BY <1>2 DEF DeckStateOf, GrantStateOf
<1>4. QED BY <1>1, <1>3, Invariant, PTL DEF Spec, ImplementsRegistry, Registry!Spec

-----------------------------------------------------------------------------
(* Callers that overlap as they like                                       *)
(*                                                                         *)
(* revokeGrant may now write back an array that is no longer the current   *)
(* one, so nothing holds of the current array alone: what is kept is a     *)
(* relation among it and every copy that a call may still write.           *)

(* The array of grants and the copies of it that calls hold.               *)
Arrays == {grants} \cup {call[c].grants : c \in Call}

(* Two arrays that both hold a grant say the same of it, but for whether   *)
(* it is revoked.                                                          *)
Agree(a, b) == \A g \in Grant :
    (a[g].stat # "absent" /\ b[g].stat # "absent") =>
        a[g].app = b[g].app /\ a[g].perms = b[g].perms /\ a[g].ref = b[g].ref

ArraysAgree == \A a, b \in Arrays : Agree(a, b)

NowhereIn(g) == \A a \in Arrays : a[g].stat = "absent"

UnissuedNowhere == \A g \in Grant \ issued : NowhereIn(g)

(* A grant that waits for Midnight is in no array, not even an old copy:   *)
(* nothing but its own call can bring it in.                               *)
PendingNowhere == \A c \in Call :
    At(c, "grant", "syncing") => call[c].id \in issued /\ NowhereIn(call[c].id)

(* What waits for Midnight to be told is a grant that its copy shows       *)
(* granted.                                                                *)
RevokesGranted == \A c \in Call :
    At(c, "revoke", "syncing") => call[c].grants[call[c].id].stat = "granted"

OInv == /\ TypeOK /\ CallShape /\ ArraysAgree /\ UnissuedNowhere /\ PendingNowhere
        /\ GrantUnique /\ RevokesGranted

LEMMA Copied ==
  ASSUME TypeOK, NEW c \in Call, StartCall(c) \/ Resume(c)
  PROVE  call'[c].grants \in {call[c].grants, grants, NoGrants}
<1>0. call[c] \in CallRec /\ Idle.grants = NoGrants
  BY CallFields DEF Idle
<1>1. CASE StartCall(c)
  <2>2. CASE \E d \in Deck, edit \in Edits : EditDeck(c, d, edit)
    BY <2>2 DEF EditDeck, Start, Idle, TypeOK
  <2>3. CASE \E d \in Deck, app \in App : GrantPermission(c, d, app)
    BY <2>3 DEF GrantPermission, Start, Idle, TypeOK
  <2>4. CASE \E app \in App, perms \in Wanted : HandleProofRequest(c, app, perms)
    BY <2>4 DEF HandleProofRequest, Start, Idle, TypeOK
  <2>5. CASE \E g \in Grant : RevokeGrant(c, g)
    BY <2>5 DEF RevokeGrant, Start, Idle, TypeOK
  <2>6. CASE \E app \in App : RevokeAllGrantsForApp(c, app)
    BY <2>6 DEF RevokeAllGrantsForApp, Start, Idle, TypeOK
  <2> QED
    BY <1>1, <2>2, <2>3, <2>4, <2>5, <2>6 DEF StartCall
<1>2. CASE EditDeckWrite(c)
  BY <1>0, <1>2, EditEffect
<1>3. CASE GrantRefused(c) \/ GrantAppend(c)
  BY <1>0, <1>3, ReturnIdle DEF GrantRefused, GrantAppend
<1>4. CASE \E g \in Grant : GrantBuild(c, g)
  <2>1. PICK g \in Grant : GrantBuild(c, g)
    BY <1>4
  <2>2. CASE connected
    BY <1>0, <2>1, <2>2 DEF GrantBuild, TypeOK, CallRec
  <2>3. CASE ~connected
    BY <1>0, <2>1, <2>3, ReturnIdle DEF GrantBuild
  <2> QED
    BY <2>2, <2>3
<1>5. CASE RevokeNotFound(c)
  BY <1>0, <1>5, ReturnIdle DEF RevokeNotFound
<1>6. CASE RevokeDone(c)
  BY <1>0, <1>6 DEF RevokeDone, TypeOK, Idle
<1>7. CASE RevokeProceed(c) /\ ~RevokeDone(c)
  BY <1>0, <1>7 DEF RevokeProceed, TypeOK, CallRec
<1>8. CASE RevokeAllList(c)
  BY <1>0, <1>8 DEF RevokeAllList, TypeOK, Idle
<1>9. CASE \E g \in Grant : RevokeAllNext(c, g)
  BY <1>0, <1>9 DEF RevokeAllNext, TypeOK, CallRec
<1>10. CASE ProofGrantCheck(c)
  <2> DEFINE found == Backing(call[c].grants, call[c].app, call[c].perms)
             rec == [call[c] EXCEPT !.stage = "matched", !.backing = found,
                                    !.decks = decks, !.grants = NoGrants]
  <2>1. rec.grants = NoGrants
    BY <1>0 DEF CallRec
  <2>2. Return(c) \/ call'[c] = rec
    BY <1>10, SetSlot DEF ProofGrantCheck
  <2> QED
    BY <1>0, <2>1, <2>2, ReturnIdle
<1>11. CASE ProofDeckCheck(c)
  <2> DEFINE rec == [call[c] EXCEPT !.stage = "proving", !.decks = NoDecks]
  <2>1. rec.grants = call[c].grants
    BY <1>0 DEF CallRec
  <2>2. Return(c) \/ call'[c] = rec
    BY <1>11, SetSlot DEF ProofDeckCheck
  <2> QED
    BY <1>0, <2>1, <2>2, ReturnIdle
<1>12. CASE ProofGenerated(c)
  BY <1>0, <1>12, ReturnIdle DEF ProofGenerated, TypeOK, CallRec
<1>13. CASE ProofRespond(c)
  BY <1>0, <1>13, ReturnIdle DEF ProofRespond
<1> QED
  BY <1>1, <1>2, <1>3, <1>4, <1>5, <1>6, <1>7, <1>8, <1>9, <1>10, <1>11, <1>12, <1>13
  DEF Resume, GrantResume, RevokeResume, ProofResume, RevokeAlready, RevokeWrite

(* The ways in which the array changes when calls overlap: a grant that no *)
(* array holds comes in, or a copy comes back with one grant revoked.      *)
ComesIn(c, g) ==
    /\ NowhereIn(g) /\ g \in issued' /\ ~At(c, "grant", "syncing")'
    /\ \A d \in Call \ {c} : At(d, "grant", "syncing") => call[d].id # g
    /\ \E app, perms, ref : grants' = Appended(g, app, perms, ref)

ComesBack(c) ==
    /\ call[c].kind = "revoke" /\ call[c].id \in Grant
    /\ call[c].grants[call[c].id].stat = "granted"
    /\ grants' = RevokedGrants(c) /\ call'[c].grants = NoGrants

LEMMA ArrayMoves ==
  ASSUME OInv, NEW c \in Call, StartCall(c) \/ Resume(c)
  PROVE  \/ UNCHANGED grants
         \/ \E g \in Grant : ComesIn(c, g)
         \/ ComesBack(c)
<1>0. TypeOK /\ CallShape
  BY DEF OInv
<1>1. CASE StartCall(c) \/ EditDeckWrite(c) \/ ProofResume(c)
  BY <1>0, <1>1, Started, EditEffect, ProofEffect
<1>2. CASE GrantResume(c)
  <2>0. ~At(c, "grant", "syncing")' \/ UNCHANGED grants
    BY <1>0, <1>2, GrantEffect DEF At, Idle
  <2>1. ASSUME NEW g \in Grant \ issued, issued' = issued \cup {g}, ~UNCHANGED grants,
               grants' = Appended(g, call[c].app, call[c].deck.perms, None)
        PROVE  ComesIn(c, g)
    BY <2>0, <2>1 DEF OInv, UnissuedNowhere, PendingNowhere, ComesIn
  <2>2. ASSUME At(c, "grant", "syncing"), UNCHANGED issued, ~UNCHANGED grants,
               grants' = Appended(call[c].id, call[c].app, call[c].deck.perms, call[c].ref)
        PROVE  call[c].id \in Grant /\ ComesIn(c, call[c].id)
    BY <2>0, <2>2 DEF OInv, PendingNowhere, GrantUnique, CallShape, Shape, ComesIn
  <2> QED
    BY <1>0, <1>2, <2>1, <2>2, GrantEffect
<1>3. CASE RevokeResume(c)
  <2>1. CASE RevokeProceed(c) \/ RevokeWrite(c)
    <3>1. call[c].kind = "revoke" /\ call[c].id \in Grant
          /\ call[c].grants[call[c].id].stat = "granted"
      BY <2>1 DEF RevokeProceed, RevokeWrite, OInv, RevokesGranted, CallShape, Shape, At
    <3>2. UNCHANGED grants \/ (grants' = RevokedGrants(c) /\ RevokeDone(c))
      BY <2>1 DEF RevokeProceed, RevokeWrite
    <3>3. RevokeDone(c) => call'[c].grants = NoGrants
      BY <1>0 DEF RevokeDone, Idle, TypeOK
    <3> QED
      BY <3>1, <3>2, <3>3 DEF ComesBack
  <2> QED
    BY <1>3, <2>1
    DEF RevokeResume, RevokeNotFound, RevokeAlready, RevokeAllList, RevokeAllNext
<1> QED
  BY <1>1, <1>2, <1>3 DEF Resume

(* So a next array is an old one, an old one but for what is revoked in it,*)
(* or the current one with a grant that none held.                         *)
Alike(a, b) == \A g \in Grant :
    /\ a[g].stat = "absent" <=> b[g].stat = "absent"
    /\ a[g].app = b[g].app /\ a[g].perms = b[g].perms /\ a[g].ref = b[g].ref

LEMMA ArraysNext ==
  ASSUME OInv, NEW c \in Call, StartCall(c) \/ Resume(c)
  PROVE  \A a \in Arrays' : \/ a \in Arrays \cup {NoGrants}
                            \/ a = grants' /\ \E b \in Arrays : Alike(a, b)
                            \/ a = grants' /\ \E g \in Grant : ComesIn(c, g)
<1>0. TypeOK
  BY DEF OInv
<1> SUFFICES ASSUME NEW a \in Arrays'
             PROVE  \/ a \in Arrays \cup {NoGrants}
                    \/ a = grants' /\ \E b \in Arrays : Alike(a, b)
                    \/ a = grants' /\ \E g \in Grant : ComesIn(c, g)
  OBVIOUS
<1>1. a = grants' \/ \E d \in Call : a = call'[d].grants
  BY DEF Arrays
<1>2. CASE \E d \in Call : a = call'[d].grants
  BY <1>0, <1>2, OwnSlot, Copied DEF Arrays
<1>3. CASE a = grants' /\ ComesBack(c)
  <2>1. call[c].grants \in Arrays /\ call[c].grants \in [Grant -> GrantRec]
    BY <1>0, CallFields DEF Arrays
  <2>2. /\ \A g \in Grant \ {call[c].id} : a[g] = call[c].grants[g]
        /\ a[call[c].id] = [call[c].grants[call[c].id] EXCEPT !.stat = "revoked"]
    BY <1>3, <2>1 DEF ComesBack, RevokedGrants
  <2>3. Alike(a, call[c].grants)
    BY <1>3, <2>1, <2>2 DEF ComesBack, Alike, GrantRec
  <2> QED
    BY <1>3, <2>1, <2>3
<1> QED
  BY <1>1, <1>2, <1>3, ArrayMoves DEF Arrays

(* The grant that comes in differs from no array, and changes no other.    *)
LEMMA InComes ==
  ASSUME OInv, NEW c \in Call, NEW g \in Grant, ComesIn(c, g)
  PROVE  /\ \A b \in Arrays : b[g].stat = "absent"
         /\ \A h \in Grant \ {g} : grants'[h] = grants[h]
BY DEF OInv, TypeOK, ComesIn, NowhereIn, Appended

LEMMA AgreeStep ==
  ASSUME OInv, NEW c \in Call, StartCall(c) \/ Resume(c)
  PROVE  ArraysAgree'
<1> DEFINE Old(a) == a \in Arrays \cup {NoGrants} \/ \E b \in Arrays : Alike(a, b)
<1>0. ArraysAgree /\ grants \in Arrays
  BY DEF OInv, Arrays
<1>1. \A a \in Arrays' : Old(a) \/ (a = grants' /\ \E g \in Grant : ComesIn(c, g))
  BY ArraysNext
<1>2. ASSUME NEW a, NEW b, Old(a), Old(b) PROVE Agree(a, b)
  <2>1. \A x, y \in Arrays \cup {NoGrants} : Agree(x, y)
    BY <1>0 DEF ArraysAgree, Agree, NoGrants
  <2>2. \E x \in Arrays \cup {NoGrants} : Alike(a, x)
    BY <1>2 DEF Alike
  <2>3. \E x \in Arrays \cup {NoGrants} : Alike(b, x)
    BY <1>2 DEF Alike
  <2> QED
    BY <2>1, <2>2, <2>3 DEF Agree, Alike
<1>3. ASSUME NEW a, NEW g \in Grant, Old(a), ComesIn(c, g)
      PROVE  Agree(a, grants') /\ Agree(grants', a)
  <2>1. Agree(a, grants) /\ Agree(grants, a)
    BY <1>0, <1>2, <1>3
  <2>2. a[g].stat = "absent"
    BY <1>3, InComes DEF Alike, NoGrants
  <2>3. \A h \in Grant \ {g} : grants'[h] = grants[h]
    BY <1>3, InComes
  <2> QED
    BY <2>1, <2>2, <2>3 DEF Agree
<1>4. Agree(grants', grants')
  BY DEF Agree
<1> QED
  BY <1>1, <1>2, <1>3, <1>4 DEF ArraysAgree, Agree

(* A grant that no array holds stays out of them, unless it comes in.      *)
LEMMA NowhereStays ==
  ASSUME OInv, NEW c \in Call, StartCall(c) \/ Resume(c),
         NEW h \in Grant, NowhereIn(h), ~ComesIn(c, h)
  PROVE  NowhereIn(h)'
<1>1. ASSUME NEW g \in Grant, ComesIn(c, g) PROVE grants'[h].stat = "absent"
  BY <1>1, InComes DEF NowhereIn, Arrays
<1>2. \A a \in Arrays' : a[h].stat = "absent"
  BY <1>1, ArraysNext DEF NowhereIn, Alike, NoGrants
<1> QED
  BY <1>2 DEF NowhereIn

LEMMA PendingStep ==
  ASSUME OInv, NEW c \in Call, StartCall(c) \/ Resume(c)
  PROVE  UnissuedNowhere' /\ PendingNowhere' /\ GrantUnique'
<1>0. TypeOK /\ CallShape /\ issued \subseteq issued'
      /\ \A d \in Call : d # c => call'[d] = call[d]
  BY OwnSlot, IssuedGrows DEF OInv
<1>1. UnissuedNowhere'
  <2>1. \A h \in Grant \ issued' : NowhereIn(h) /\ ~ComesIn(c, h)
    BY <1>0 DEF OInv, UnissuedNowhere, ComesIn
  <2> QED
    BY <2>1, NowhereStays DEF UnissuedNowhere
<1>2. CASE At(c, "grant", "syncing")'
  <2>1. GrantResume(c)
    BY <1>0, <1>2, Started, EditEffect, RevokeEffect, ProofEffect DEF Resume, At, Idle
  <2>2. call'[c].id \in Grant \ issued /\ call'[c].id \in issued'
    BY <1>0, <1>2, <2>1, GrantEffect DEF At, Idle
  <2>3. NowhereIn(call'[c].id)
    BY <2>2 DEF OInv, UnissuedNowhere
  <2>4. \A h \in Grant : ~ComesIn(c, h)
    BY <1>2 DEF ComesIn
  <2> DEFINE id == call'[c].id
  <2>5. \A a \in Arrays' : a[id].stat = "absent"
    <3> HIDE DEF id
    <3>1. ASSUME NEW h \in Grant, NowhereIn(h) PROVE \A a \in Arrays' : a[h].stat = "absent"
      BY <2>4, <3>1, NowhereStays DEF NowhereIn
    <3>2. id \in Grant /\ NowhereIn(id)
      BY <2>2, <2>3 DEF id
    <3> QED
      BY <3>1, <3>2
  <2>6. call'[c].id \in issued' /\ \A a \in Arrays' : a[call'[c].id].stat = "absent"
    BY <2>2, <2>5
  <2>7. ASSUME NEW d \in Call, d # c, At(d, "grant", "syncing")'
        PROVE  /\ call'[d].id # call'[c].id /\ call'[d].id \in issued'
               /\ \A a \in Arrays' : a[call'[d].id].stat = "absent"
    <3>1. /\ At(d, "grant", "syncing") /\ call'[d].id = call[d].id /\ call[d].id \in Grant
          /\ call[d].id \in issued /\ NowhereIn(call[d].id)
      BY <1>0, <2>7 DEF At, OInv, PendingNowhere, CallShape, Shape
    <3>2. \A a \in Arrays' : a[call[d].id].stat = "absent"
      BY <2>4, <3>1, NowhereStays DEF NowhereIn
    <3> QED
      BY <1>0, <2>2, <3>1, <3>2
  <2> QED
    BY <1>0, <1>1, <2>6, <2>7 DEF PendingNowhere, GrantUnique, NowhereIn, OInv, At
<1>3. CASE ~At(c, "grant", "syncing")'
  <2>1. ASSUME NEW d \in Call, At(d, "grant", "syncing")'
        PROVE  /\ d # c /\ At(d, "grant", "syncing") /\ call'[d].id = call[d].id
               /\ call'[d].id \in issued' /\ \A a \in Arrays' : a[call'[d].id].stat = "absent"
    <3>1. d # c /\ At(d, "grant", "syncing") /\ call'[d].id = call[d].id
      BY <1>0, <1>3, <2>1 DEF At
    <3>2. call[d].id \in Grant /\ call[d].id \in issued /\ NowhereIn(call[d].id)
      BY <1>0, <3>1 DEF OInv, PendingNowhere, CallShape, Shape
    <3>3. ~ComesIn(c, call[d].id)
      BY <3>1 DEF ComesIn
    <3>4. \A a \in Arrays' : a[call[d].id].stat = "absent"
      BY <3>2, <3>3, NowhereStays DEF NowhereIn
    <3> QED
      BY <1>0, <3>1, <3>2, <3>4
  <2> QED
    BY <1>1, <2>1 DEF PendingNowhere, GrantUnique, NowhereIn, OInv
<1> QED
  BY <1>2, <1>3

LEMMA RevokesStep ==
  ASSUME OInv, NEW c \in Call, StartCall(c) \/ Resume(c)
  PROVE  RevokesGranted'
<1>0. TypeOK /\ RevokesGranted /\ \A d \in Call : d # c => call'[d] = call[d]
  BY OwnSlot DEF OInv
<1>1. CASE At(c, "revoke", "syncing")'
  <2>1. RevokeResume(c)
    BY <1>0, <1>1, Started, EditEffect, GrantEffect, ProofEffect DEF Resume, At, Idle
  <2>2. call[c].grants[call[c].id].stat = "granted"
        /\ call'[c].id = call[c].id /\ call'[c].grants = call[c].grants
    BY <1>0, <1>1, <2>1, RevokeEffect DEF At
  <2> QED
    BY <1>0, <2>2 DEF RevokesGranted, At
<1> QED
  BY <1>0, <1>1 DEF RevokesGranted, At

LEMMA OInductive == OInv /\ [Next]_vars => OInv'
<1> SUFFICES ASSUME OInv, [Next]_vars
             PROVE  OInv'
  OBVIOUS
<1>0. TypeOK' /\ CallShape'
  BY NextTypes, NextShape DEF OInv
<1>1. CASE \E c \in Call : StartCall(c) \/ Resume(c)
  BY <1>0, <1>1, AgreeStep, PendingStep, RevokesStep DEF OInv
<1>2. CASE UNCHANGED <<grants, call>> /\ issued \subseteq issued'
  <2>1. Arrays' = Arrays
    BY <1>2 DEF Arrays
  <2>2. ArraysAgree' /\ UnissuedNowhere' /\ PendingNowhere'
    BY <1>2, <2>1 DEF OInv, ArraysAgree, Agree, UnissuedNowhere, PendingNowhere, NowhereIn, At
  <2>3. GrantUnique' /\ RevokesGranted'
    BY <1>2 DEF OInv, GrantUnique, RevokesGranted, At
  <2> QED
    BY <1>0, <2>2, <2>3 DEF OInv
<1> QED
  BY <1>1, <1>2 DEF Next, vars, CreateDeck, ConnectMidnight, Disconnect, Expire

LEMMA InitOInv == Init => OInv
<1> SUFFICES ASSUME Init
             PROVE  OInv
  OBVIOUS
<1>1. TypeOK
  BY InitTypeOK
<1>2. /\ CallShape /\ GrantUnique /\ PendingNowhere /\ RevokesGranted
  BY DEF Init, CallShape, Shape, GrantUnique, PendingNowhere, RevokesGranted, At, Idle
<1>3. \A a \in Arrays : a = NoGrants
  BY DEF Init, Arrays, Idle
<1>4. ArraysAgree /\ UnissuedNowhere
  BY <1>3 DEF ArraysAgree, Agree, UnissuedNowhere, NowhereIn, NoGrants
<1> QED
  BY <1>1, <1>2, <1>4 DEF OInv

LEMMA OverlapInvariant == Spec => []OInv
BY InitOInv, OInductive, PTL DEF Spec

(* However calls overlap, a grant in the array keeps the application, the  *)
(* permissions and the reference that grantPermission gave it: neither an  *)
(* edit of the deck it came from nor an outdated array that revokeGrant    *)
(* writes back changes them.                                               *)
THEOREM ContentFixed == Spec => GrantContentFixed
<1> DEFINE Content(g) == (grants[g].stat # "absent" /\ grants'[g].stat # "absent") =>
                             /\ grants'[g].app = grants[g].app
                             /\ grants'[g].perms = grants[g].perms
                             /\ grants'[g].ref = grants[g].ref
<1>1. ASSUME OInv, NEW c \in Call, StartCall(c) \/ Resume(c)
      PROVE  \A g \in Grant : Content(g)
  <2>1. ASSUME NEW g \in Grant, ComesIn(c, g) PROVE \A h \in Grant : Content(h)
    BY <1>1, <2>1, InComes DEF Arrays
  <2>2. ASSUME ComesBack(c) PROVE \A h \in Grant : Content(h)
    <3>1. Agree(call[c].grants, grants)
      BY <1>1 DEF OInv, ArraysAgree, Arrays
    <3>2. call[c].grants \in [Grant -> GrantRec] /\ call[c].id \in Grant
          /\ grants' = RevokedGrants(c) /\ call[c].grants[call[c].id].stat = "granted"
      BY <1>1, <2>2, CallFields DEF OInv, ComesBack
    <3>3. Alike(grants', call[c].grants)
      BY <3>2 DEF Alike, RevokedGrants, GrantRec
    <3> QED
      BY <3>1, <3>3 DEF Agree, Alike
  <2> QED
    BY <1>1, <2>1, <2>2, ArrayMoves
<1>2. OInv /\ [Next]_vars => [\A g \in Grant : Content(g)]_grants
  BY <1>1 DEF Next, vars, CreateDeck, ConnectMidnight, Disconnect, Expire
<1> QED
  BY <1>2, OverlapInvariant, PTL DEF Spec, GrantContentFixed

(* However calls overlap, the only step that takes a grant or a revocation *)
(* out of the array is the write of a revokeGrant whose copy shows that    *)
(* grant otherwise: neither the Midnight call of a grantPermission nor a   *)
(* proof in flight can undo one.                                           *)
THEOREM LossOnlyByStaleRevoke == Spec => LossNeedsStaleRevoke
<1> DEFINE Explained(g) == Undone(g) =>
               \E c \in Call : /\ call[c].kind = "revoke"
                               /\ call[c].grants[g] # grants[g]
                               /\ call'[c].grants # call[c].grants
<1>1. ASSUME OInv, NEW c \in Call, StartCall(c) \/ Resume(c)
      PROVE  \A g \in Grant : Explained(g)
  <2>1. ASSUME NEW g \in Grant, ComesIn(c, g) PROVE \A h \in Grant : ~Undone(h)
    BY <1>1, <2>1, InComes DEF Arrays, Undone
  <2>2. ASSUME ComesBack(c), NEW h \in Grant, Undone(h)
        PROVE  call[c].grants[h] # grants[h]
    <3>1. call[c].grants \in [Grant -> GrantRec] /\ call[c].id \in Grant
          /\ grants' = RevokedGrants(c) /\ call[c].grants[call[c].id].stat = "granted"
      BY <1>1, <2>2, CallFields DEF OInv, ComesBack
    <3>2. grants'[h] \in {call[c].grants[h], [call[c].grants[h] EXCEPT !.stat = "revoked"]}
          /\ (grants'[h] # call[c].grants[h] => call[c].grants[h].stat = "granted")
      BY <3>1 DEF RevokedGrants
    <3> QED
      BY <2>2, <3>1, <3>2 DEF Undone, GrantRec
  <2>3. ASSUME ComesBack(c)
        PROVE  call[c].kind = "revoke" /\ call'[c].grants # call[c].grants
    BY <2>3 DEF ComesBack, NoGrants
  <2>4. UNCHANGED grants => \A h \in Grant : ~Undone(h)
    BY DEF Undone
  <2> QED
    BY <1>1, <2>1, <2>2, <2>3, <2>4, ArrayMoves
<1>2. UNCHANGED grants => \A g \in Grant : Explained(g)
  BY DEF Undone
<1>3. OInv /\ [Next]_vars => [\A g \in Grant : Explained(g)]_vars
  BY <1>1, <1>2 DEF Next, vars, CreateDeck, ConnectMidnight, Disconnect, Expire
<1> QED
  BY <1>3, OverlapInvariant, PTL DEF Spec, LossNeedsStaleRevoke

(* However calls overlap, a deck gets what an updateDeck or a deleteDeck   *)
(* was asked for and nothing else, unless that call writes back an array   *)
(* that is out of date.                                                    *)
THEOREM DeckLossOnlyByStaleEdit == Spec => DeckLossNeedsStaleEdit
<1> DEFINE Explained(d) == decks'[d] # decks[d] =>
               \E c \in Call : /\ call[c].kind = "editDeck" /\ call'[c] = Idle
                               /\ Asked(c, d) \/ call[c].decks[d] # decks[d]
<1>1. ASSUME OInv, NEW c \in Call, StartCall(c) \/ Resume(c)
      PROVE  \A d \in Deck : Explained(d)
  <2>0. TypeOK /\ CallShape
    BY <1>1 DEF OInv
  <2>1. ASSUME NEW d \in Deck, decks'[d] # decks[d]
        PROVE  /\ call[c].kind = "editDeck" /\ call'[c] = Idle
               /\ Asked(c, d) \/ call[c].decks[d] # decks[d]
    <3>1. /\ call[c].kind = "editDeck" /\ call[c].id \in Deck
          /\ call[c].decks[call[c].id].stat # "absent" /\ decks' = EditedDecks(c)
      BY <1>1, <2>0, <2>1, DecksStepTaken
    <3>2. EditDeckWrite(c)
      BY <1>1, <2>0, <2>1, <3>1, Started, GrantEffect, RevokeEffect, ProofEffect DEF Resume
    <3>3. call'[c] = Idle
      BY <2>0, <3>2, EditEffect
    <3>4. /\ call[c].decks \in [Deck -> DeckRec] /\ call[c].edit \in EditRec
          /\ decks \in [Deck -> DeckRec]
      BY <2>0, CallFields DEF TypeOK
    <3>5. CASE d # call[c].id
      <4>1. decks'[d] = call[c].decks[d]
        BY <3>1, <3>4, <3>5 DEF EditedDecks
      <4>2. QED BY <2>1, <3>1, <3>3, <4>1
    <3>6. CASE d = call[c].id /\ call[c].decks[d] = decks[d]
      <4>1. decks'[d] = Edited(decks[d], call[c].edit) /\ decks[d].stat # "absent"
        BY <3>1, <3>4, <3>6 DEF EditedDecks
      <4>2. Asked(c, d)
        BY <3>4, <3>6, <4>1 DEF Asked, Edited, DeckRec, EditRec
      <4>3. QED BY <3>1, <3>3, <4>2
    <3>7. QED BY <3>1, <3>3, <3>5, <3>6
  <2>2. QED BY <2>1
<1>2. ASSUME NEW e \in Deck, NEW perms \in SUBSET Perm, CreateDeck(e, perms), OInv
      PROVE  \A d \in issued \cap Deck : Explained(d)
  BY <1>2 DEF CreateDeck, OInv, TypeOK
<1>3. UNCHANGED decks => \A d \in Deck : Explained(d)
  OBVIOUS
<1>4. OInv /\ [Next]_vars => [\A d \in issued \cap Deck : Explained(d)]_vars
  BY <1>1, <1>2, <1>3 DEF Next, vars, ConnectMidnight, Disconnect, Expire
<1> QED
  BY <1>4, OverlapInvariant, PTL DEF Spec, DeckLossNeedsStaleEdit

===============================================================================
