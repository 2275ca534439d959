----------------------------- MODULE LocalProver -----------------------------
(***************************************************************************)
(* The wallet side (LocalProver) and the requester's and legacy side       *)
(* (ProofProtocol) as the steps of a command: each step ends where the     *)
(* code hands the store to writeFileSync, so other commands run between    *)
(* them. Documents are the JSON texts that commands print and read.        *)
(***************************************************************************)
EXTENDS JsonPersistence

CONSTANTS
    Wallet,   \* who signed a grant in the wallet
    Legacy    \* "agility-headless", the prover of the older prove command

VARIABLES
    printed,   \* the documents that were printed or written with --out
    accepted,  \* history: proof |-> how many commands have accepted it
    switched   \* history: initialize() has changed a key under an object's feet

walletVars == <<printed, accepted, switched>>

WalletInit == printed = {} /\ accepted = <<>> /\ switched = FALSE

\* The documents.
Request(id, audience, required) ==
    [type |-> "request", id |-> id, audience |-> audience, required |-> required]
Grant(id, request, permissions, signer) ==
    [type |-> "grant", id |-> id, request |-> request,
     permissions |-> permissions, signer |-> signer]
\* from: what the permissions shown were taken from: the grant, those of a
\* deck, or the credential that the binding has the hash of.
Proof(id, request, satisfied, by, from) ==
    [type |-> "proof", id |-> id, request |-> request, satisfied |-> satisfied,
     verified |-> satisfied = request.required, by |-> by, from |-> from]
DeckPermissionsGiven(permissions) == [type |-> "deckPermissions", permissions |-> permissions]
CredentialHash(credential) == [type |-> "credentialHash", of |-> credential]

Holds(r, type) == type \in DOMAIN r.doc
Keep(r, type, d) == [r EXCEPT !.doc = Over([t \in {type} |-> d], @)]

-----------------------------------------------------------------------------
(* LocalProver.initialize(), after persistence.initialize() *)

\* The prover, issuer or adapter of the process holds a key that the store it
\* now has does not have.
Switches(r, store) ==
    \/ r.root # None /\ Rec("rootKeyPair", "root", r.root) \notin store
    \/ r.midnight # None /\ Rec("midnightKey", "key", r.midnight) \notin store

Initialize(p) ==
    /\ InitializePersistence(p)
    /\ switched' = (switched \/ Switches(proc[p], Reread(proc[p], disk[proc[p].dir]).mem[proc[p].dir]))
    /\ UNCHANGED <<printed, accepted>>

\* pairwiseCache takes over what is stored: audience |-> the root key that the
\* pairwise id was derived from.
LoadPairwiseIds(r) ==
    [r EXCEPT !.pairwise = [a \in Audiences |->
        IF Has(r, r.dir, "pairwiseIds", a) THEN DataOf(r, r.dir, "pairwiseIds", a) ELSE @[a]]]

\* A key pair is generated whether or not there is one.
Fault_AlwaysGenerateKeys(p) ==
    LET r == proc[p]
    IN  /\ At(p, "rootKey")
        /\ Save(p, LoadPairwiseIds([Put(r, r.dir, Rec("rootKeyPair", "root", Fresh))
                                     EXCEPT !.root = Fresh]), r.dir)
        /\ serial' = serial + 1
        /\ UNCHANGED walletVars

LoadOrGenerateKeys(p) ==
    LET r == proc[p]
        fresh == Put(r, r.dir, Rec("rootKeyPair", "root", Fresh))
    IN  /\ At(p, "rootKey")
        /\ IF Has(r, r.dir, "rootKeyPair", "root")
           THEN Continue(p, LoadPairwiseIds(
                     [r EXCEPT !.root = DataOf(r, r.dir, "rootKeyPair", "root")]))
           ELSE /\ Save(p, LoadPairwiseIds([fresh EXCEPT !.root = Fresh]), r.dir)
                /\ serial' = serial + 1
        /\ UNCHANGED walletVars

\* getPairwiseId(audience): sha256(rootId:audience), kept per audience.
GetPairwiseId(p) ==
    LET r == proc[p]
        a == r.doc["request"].audience
        new == Put(r, r.dir, Rec("pairwiseIds", a, r.root))
    IN  /\ At(p, "pairwise")
        /\ IF r.pairwise[a] # None
           THEN Continue(p, r)
           ELSE /\ Save(p, [new EXCEPT !.pairwise[a] = r.root], r.dir)
                /\ UNCHANGED serial
        /\ UNCHANGED walletVars

-----------------------------------------------------------------------------
(* Requests, grants and proofs: made, validated, saved and printed *)

Publish(p, kind, type, d) ==
    LET r == proc[p]
    IN  /\ Save(p, Keep(Put(r, r.dir, Rec(kind, Fresh, None)), type, d), r.dir)
        /\ serial' = serial + 1
        /\ printed' = printed \cup {d}
        /\ UNCHANGED <<accepted, switched>>

\* createRequest, for the audience and the permissions of the command.
CreateRequest(p) ==
    LET ask == proc[p].doc["ask"]
    IN  /\ At(p, "createRequest")
        /\ Publish(p, "proofRequests", "request", Request(Fresh, ask.audience, ask.required))

\* The permissions a caller consents to: those it passes, which need not be
\* all that the request asks for, or else the request's.
Granted(r) == IF Holds(r, "consent") THEN r.doc["consent"].permissions
              ELSE r.doc["request"].required

CreateConsentGrant(p) ==
    LET request == proc[p].doc["request"]
    IN  /\ At(p, "createConsentGrant")
        /\ Publish(p, "consentGrants", "grant",
                   Grant(Fresh, request, Granted(proc[p]),
                         proc[p].pairwise[request.audience]))

\* createConsentGrantWithSigner awaits the wallet; a refusal, a timeout or an
\* answer without a hash is an exception and ends the command.
CreateConsentGrantWithSigner(p) ==
    LET request == proc[p].doc["request"]
    IN  /\ At(p, "signConsent")
        /\ \/ Publish(p, "consentGrants", "grant",
                      Grant(Fresh, request, Granted(proc[p]), Wallet))
           \/ Exit(p) /\ UNCHANGED walletVars

\* The audiences are compared and the ids are not.
Fault_CheckGrantAudience(p) ==
    LET r == proc[p]
    IN  /\ At(p, "checkGrant")
        /\ IF r.doc["grant"].request.audience = r.doc["request"].audience
           THEN Continue(p, r) ELSE Exit(p)
        /\ UNCHANGED walletVars

\* The id, the nonce drawn with it, and the audience; what the request asks for
\* is not compared.
Binds(grant, request) ==
    /\ grant.request.id = request.id
    /\ grant.request.audience = request.audience

\* generateProof and generateProofFromCredential throw unless they agree.
CheckGrant(p) ==
    LET r == proc[p]
    IN  /\ At(p, "checkGrant")
        /\ IF Binds(r.doc["grant"], r.doc["request"]) THEN Continue(p, r) ELSE Exit(p)
        /\ UNCHANGED walletVars

\* Permissions of a deck, when a caller passes them, take the place of those
\* of the grant.
AvailablePermissions(r) ==
    IF Holds(r, "deckPermissions") THEN r.doc["deckPermissions"] ELSE r.doc["grant"]

GenerateProof(p) ==
    LET r == proc[p]
        request == r.doc["request"]
        available == AvailablePermissions(r)
    IN  /\ At(p, "generateProof")
        /\ Publish(p, "proofs", "proof",
                   Proof(Fresh, request, request.required \cap available.permissions,
                         r.pairwise[request.audience], available))

\* saveReceipt, when the ledger took the receipt; a failure is only reported.
SubmitReceipt(p) ==
    LET r == proc[p]
    IN  /\ At(p, "submitReceipt")
        /\ \/ /\ Save(p, Put(r, r.dir, Rec("receipts", Fresh, None)), r.dir)
              /\ serial' = serial + 1
           \/ Continue(p, r)
        /\ UNCHANGED walletVars

\* getOrCreateLocalSigner of the legacy grant command.
GetOrCreateLocalSigner(p) ==
    LET r == proc[p]
    IN  /\ At(p, "localSigner")
        /\ IF Has(r, r.dir, "localKeys", "default")
           THEN Continue(p, r)
           ELSE /\ Save(p, Put(r, r.dir, Rec("localKeys", "default", Fresh)), r.dir)
                /\ serial' = serial + 1
        /\ UNCHANGED walletVars

\* ProofProtocol.createGrant signs with the id of the local signer.
CreateGrant(p) ==
    LET request == proc[p].doc["request"]
        r == proc[p]
    IN  /\ At(p, "createGrant")
        /\ Publish(p, "consentGrants", "grant",
                   Grant(Fresh, request, Granted(proc[p]),
                         DataOf(r, r.dir, "localKeys", "default")))

\* Requests come from outside: a requester sends one again, with the same id
\* and nonce, that asks for something else. Bound: once.
ResendRequest ==
    \E d \in printed, required \in SUBSET Permissions \ {{}} :
        /\ d.type = "request"
        /\ required # d.required
        /\ \A x, y \in printed :
              x.type = "request" /\ y.type = "request" /\ x.id = y.id => x = y
        /\ printed' = printed \cup {[d EXCEPT !.required = required]}
        /\ UNCHANGED <<persistVars, accepted, switched>>

-----------------------------------------------------------------------------
(* The replay cache, data/replay-cache.json (module ReplayStore has its     *)
(* clock; here it is the file that the commands share)                      *)

\* What verify() asks of a grant, when it is given one: one that a wallet has
\* signed carries the hash of its request.
GrantValid(grant, request) ==
    /\ Binds(grant, request)
    /\ request.required \subseteq grant.permissions
    /\ grant.signer = Wallet => grant.request = request

\* The checks of verify() before the replay check; the proof is bound to the
\* hash of its request.
Verifiable(r) ==
    /\ r.doc["proof"].request = r.doc["request"]
    /\ r.doc["request"].required \subseteq r.doc["proof"].satisfied
    /\ Holds(r, "grant") => GrantValid(r.doc["grant"], r.doc["request"])

\* The replay key is made of the prover's id and the hash of the request.
ReplayRec(proof) == Rec("keys", proof.request, proof.by)

Times(k) == IF k \in DOMAIN accepted THEN accepted[k] ELSE 0

\* verify, where a process first asks for the replay store. A verdict against
\* the proof is printed, and is the exit code.
Verify(p) ==
    LET r == Loaded(proc[p], "replay")
        k == ReplayRec(proc[p].doc["proof"])
    IN  /\ At(p, "verify")
        /\ IF Verifiable(r) /\ k \notin r.mem["replay"]
           THEN /\ Save(p, [r EXCEPT !.mem["replay"] = @ \cup {k}], "replay")
                /\ accepted' = Over([x \in {k} |-> Times(k) + 1], accepted)
                /\ UNCHANGED serial
           ELSE Continue(p, r) /\ UNCHANGED accepted
        /\ UNCHANGED <<printed, switched>>

\* demo phase1 begins with replayStore.clear().
ClearReplayCache(p) ==
    LET r == Loaded(proc[p], "replay")
    IN  /\ At(p, "clearReplay")
        /\ Save(p, [r EXCEPT !.mem["replay"] = {}, !.seen["replay"] = {}], "replay")
        /\ UNCHANGED <<serial, printed, accepted, switched>>
=============================================================================
