----------------------------- MODULE CommandLine -----------------------------
(***************************************************************************)
(* The command line tool: each command is a process that takes the steps   *)
(* of its function in cli.ts, in order, on the files of the directory it   *)
(* runs in. Commands overlap, end early, and are killed. The commands that *)
(* use AgilityHeadless alone (identity:create, deck:create,                *)
(* request:simulate) work on agility_state.json: module StatePersistence.  *)
(***************************************************************************)
EXTENDS StubLaceAdapter

CONSTANTS
    Sessions,     \* kinds of session: its commands, the bound `most` on how many
                  \* are started, and its AGILITY_STORAGE_PATH: "agilityData", or
                  \* the directory "cliTest" that the other commands have built in
    Claimed       \* the claims, and the permissions, that commands are given

VARIABLES
    session,      \* the kind of this session
    started,      \* how many commands have been started
    blame         \* history: what could have lost a record

cliVars == <<session, started, blame>>
vars == <<persistVars, walletVars, credentialVars, cliVars>>

-----------------------------------------------------------------------------
(* The checks pipeline of `run`: saves what its AgilityHeadless made, and in *)
(* its `finally` resets that AgilityHeadless, which deletes the file         *)
(* agility_state.json and leaves persistence.json alone.                     *)

Check(p, op, kind) ==
    LET r == proc[p]
    IN  /\ At(p, op)
        /\ \/ /\ Save(p, Put(r, r.dir, Rec(kind, Fresh, None)), r.dir)
              /\ serial' = serial + 1
           \/ /\ proc' = [proc EXCEPT ![p].todo = <<"cleanup">>]   \* the check fails
              /\ UNCHANGED <<disk, serial, last>>
        /\ UNCHANGED <<walletVars, credentialVars, cliVars>>

checkIdentity(p) == Check(p, "checkIdentity", "identities")
checkAnchor(p)   == Check(p, "checkAnchor", "anchors")
checkDeck(p)     == Check(p, "checkDeck", "decks")
checkGrant(p)    == Check(p, "checkGrantSaved", "grants")
checkProof(p)    == Check(p, "checkProof", "proofs")
checkReceipt(p)  == Check(p, "checkReceipt", "receipts")

\* The checks that save nothing here: the storage round trip, deck matching.
checkOnly(p) ==
    /\ At(p, "checkOnly")
    /\ \/ Continue(p, proc[p])
       \/ /\ proc' = [proc EXCEPT ![p].todo = <<"cleanup">>]
          /\ UNCHANGED <<disk, serial, last>>
    /\ UNCHANGED <<walletVars, credentialVars, cliVars>>

cleanup(p) ==
    /\ At(p, "cleanup")
    /\ Continue(p, proc[p])
    /\ UNCHANGED <<walletVars, credentialVars, cliVars>>

run == <<"initialize", "checkOnly", "checkIdentity", "checkAnchor", "checkDeck",
         "checkOnly", "checkGrantSaved", "checkProof", "checkReceipt", "cleanup">>

-----------------------------------------------------------------------------
(* The commands. LocalProver.initialize and CredentialIssuer.initialize      *)
(* begin with persistence.initialize().                                      *)

proverInitialize == <<"initialize", "rootKey">>
localGrant       == <<"pairwise", "createConsentGrant">>
localProof       == <<"checkGrant", "pairwise", "generateProof">>
scenario         == <<"createRequest">> \o localGrant \o localProof
credentialProof  == <<"checkGrant", "checkCredential", "pairwise", "credentialProof">>

request     == <<"initialize", "createRequest">>
grant       == <<"initialize", "localSigner", "createGrant">>
prove(real) == <<"initialize", "createProof">> \o (IF real THEN <<"submitReceipt">> ELSE <<>>)
verify      == <<"initialize", "verify">>

proverInit == proverInitialize
proverGrant(signer) ==
    proverInitialize \o (IF signer = "xaman" THEN <<"signConsent">> ELSE localGrant)
proverProve(real) ==
    proverInitialize \o localProof \o (IF real THEN <<"submitReceipt">> ELSE <<>>)

\* Scenarios 3 to 5 of phase 1 are requests whose times are wrong: their
\* proofs are saved and then refused.
demoPhase1 == <<"clearReplay", "initialize">> \o proverInitialize \o scenario
              \o <<"verify", "verify">> \o scenario \o scenario \o scenario
demoPhase2 == <<"initialize">> \o proverInitialize \o scenario \o <<"verify">>
demoPhase4 == <<"initialize", "createRequest">> \o proverInitialize \o <<"pairwise">>
              \o localGrant \o localProof \o <<"verify">>
demoPhase5(signer) ==
    <<"initialize", "createRequest">> \o proverInitialize
    \o (IF signer = "xaman" THEN <<"signConsent">> ELSE localGrant)
    \o localProof \o <<"verify">>
demoPhase6 == <<"initialize", "initialize", "issuerKey">> \o proverInitialize
              \o <<"issueCredential", "createRequest">> \o localGrant
              \o credentialProof \o <<"verify">>
demoPhase7 == <<"initialize", "midnightKey", "laceInit", "laceConnect">> \o proverInitialize
              \o <<"initialize", "issuerKey", "issueCredential", "storeCredential",
                   "loadCredential", "createRequest">> \o localGrant
              \o credentialProof \o <<"verify", "laceSign">>
demoOffline == <<"initialize">> \o proverInitialize \o <<"createRequest">> \o localGrant
               \o <<"createProof", "verify">>
\* Without ENABLE_XRPL_CONSENT_TX_VERIFY; with it, only a table is printed.
demoXrpl == demoOffline

credentialIssue  == <<"initialize", "initialize", "issuerKey", "issueCredential">>
credentialList   == <<"initialize">>
credentialVerify == <<"initialize", "initialize", "issuerKey", "verifyCredential">>

midnightStatus   == <<"initialize", "midnightKey">>
midnightEncrypt  == <<"initialize", "midnightKey", "encrypt">>
midnightDecrypt  == <<"initialize", "midnightKey", "decrypt">>
midnightCredPut  == <<"initialize", "midnightKey", "storeCredential">>
midnightCredList == <<"initialize", "midnightKey">>
midnightCredGet  == <<"initialize", "midnightKey", "loadCredential">>

laceStatus       == <<"laceInit">>
laceCapabilities == <<"laceInit">>
laceConnect      == <<"laceInit", "laceConnect">>
laceNetwork      == <<"laceInit", "laceConnect">>
laceAddresses    == <<"laceInit", "laceConnect", "laceAddresses">>
laceSign         == <<"laceInit", "laceConnect", "laceSign">>

deckList      == <<"deckList">>
deckShow      == <<"deckShow">>
deckInit      == <<"deckCreate">>
deckAddSource == <<"addSource">>
deckExport    == <<"deckExport">>
deckImport    == <<"deckCreate", "importSources">>

\* What an application can do with the SDK in the same directory.
sdkAnchor == <<"initialize", "anchorCredential">>
sdkDelete == <<"initialize", "midnightKey", "deleteCredential">>
sdkStored == proverInitialize \o <<"findCredential">> \o credentialProof
sdkProve  == proverInitialize \o localProof
sdkCredentialProve == proverInitialize \o credentialProof
sdkGrant(signer) ==
    IF signer = "legacy" THEN grant
    ELSE proverInitialize \o (IF signer = "xaman" THEN <<"signConsent">> ELSE localGrant)
sdkDid    == proverInitialize \o <<"pairwiseDid">>
sdkSign   == <<"laceAddresses", "laceSign">>

\* main(): the program of a command.
Programs ==
    [run |-> run, request |-> request, grant |-> grant,
     prove |-> prove(FALSE), proveReal |-> prove(TRUE), verify |-> verify,
     proverInit |-> proverInit, proverGrant |-> proverGrant("local"),
     proverGrantXaman |-> proverGrant("xaman"), proverProve |-> proverProve(FALSE),
     proverProveReal |-> proverProve(TRUE),
     demoPhase1 |-> demoPhase1, demoPhase2 |-> demoPhase2, demoPhase4 |-> demoPhase4,
     demoPhase5 |-> demoPhase5("xaman"), demoPhase5Local |-> demoPhase5("local"),
     demoPhase6 |-> demoPhase6, demoPhase7 |-> demoPhase7, demoOffline |-> demoOffline,
     demoXrpl |-> demoXrpl,
     credentialIssue |-> credentialIssue, credentialList |-> credentialList,
     credentialVerify |-> credentialVerify,
     midnightStatus |-> midnightStatus, midnightEncrypt |-> midnightEncrypt,
     midnightDecrypt |-> midnightDecrypt, midnightCredPut |-> midnightCredPut,
     midnightCredList |-> midnightCredList, midnightCredGet |-> midnightCredGet,
     laceConnect |-> laceConnect, laceAddresses |-> laceAddresses, laceSign |-> laceSign,
     laceStatus |-> laceStatus, laceNetwork |-> laceNetwork,
     laceCapabilities |-> laceCapabilities,
     deckList |-> deckList, deckShow |-> deckShow, deckInit |-> deckInit, deckAddSource |-> deckAddSource, deckExport |-> deckExport,
     deckImport |-> deckImport, proveInstance |-> prove(FALSE),
     sdkAnchor |-> sdkAnchor, sdkDelete |-> sdkDelete, sdkStored |-> sdkStored,
     sdkDid |-> sdkDid, sdkSign |-> sdkSign, verifyGrant |-> verify,
     sdkProve |-> sdkProve, sdkCredentialProve |-> sdkCredentialProve,
     sdkGrant |-> sdkGrant("local"), sdkGrantXaman |-> sdkGrant("xaman"),
     sdkGrantLegacy |-> sdkGrant("legacy")]

Commands == DOMAIN Programs

ASSUME SessionAssumption ==
    \A s \in Sessions : /\ s.commands \subseteq Commands
                        /\ s.most \in Nat
                        /\ s.storagePath \in {"agilityData", "cliTest"}

\* credential and midnight commands take the directory from the environment,
\* the others have it built in.
StoragePathCommands ==
    {"credentialIssue", "credentialList", "credentialVerify", "midnightStatus",
     "midnightEncrypt", "midnightDecrypt", "midnightCredPut", "midnightCredList",
     "midnightCredGet"}
Dir(c) == IF c \in StoragePathCommands THEN session.storagePath
          ELSE IF c \in {"demoOffline", "demoXrpl"} THEN "offline" ELSE "cliTest"

\* The documents a command is given: --request, --grant and so on. Without one
\* of them the command prints its usage and ends.
Needs(c) ==
    CASE c \in {"grant", "proverGrant", "proverGrantXaman",
                "sdkGrant", "sdkGrantXaman", "sdkGrantLegacy"} -> {"request"}
      [] c \in {"prove", "proveReal", "proverProve", "proverProveReal",
                "sdkStored", "sdkProve"} -> {"request", "grant"}
      [] c = "sdkCredentialProve" -> {"request", "grant", "credential"}
      [] c = "verifyGrant" -> {"request", "proof", "grant"}
      [] c = "proveInstance" -> {"request", "grant", "instance"}
      [] c = "verify" -> {"request", "proof"}
      [] c \in {"credentialVerify", "midnightCredPut", "sdkAnchor"} -> {"credential"}
      [] c \in {"midnightCredGet", "sdkDelete"} -> {"ref"}
      [] c = "midnightDecrypt" -> {"ciphertext"}
      [] c \in {"deckAddSource", "deckExport", "deckShow"} -> {"instance"}
      [] c = "deckImport" -> {"export"}
      [] OTHER -> {}

Given(c) ==
    {given \in [Needs(c) -> {d \in printed : d.type \in Needs(c)}] :
        \A type \in Needs(c) : given[type].type = type}

\* The arguments that are not documents.
Demo(c) == c \in {"demoPhase1", "demoPhase2", "demoPhase4", "demoPhase5",
                  "demoPhase5Local", "demoPhase6", "demoPhase7", "demoOffline", "demoXrpl"}
DemoAudience == CHOOSE a \in Audiences : TRUE

Asks(c) ==
    CASE c = "request" ->
           {[ask |-> [audience |-> a, required |-> required]] :
               a \in Audiences, required \in Claimed}
      [] c = "sdkDid" -> {[ask |-> [audience |-> DemoAudience]]}
      [] Demo(c) ->
           {[ask |-> [audience |-> DemoAudience, required |-> Permissions],
             claims |-> [claims |-> Permissions, expires |-> TRUE]]}
      [] c = "credentialIssue" ->
           {[claims |-> [subject |-> s, claims |-> claims, expires |-> e]] :
               s \in {None} \cup {x.data : x \in {y \in last["cliTest"] : y.kind = "rootKeyPair"}},
               claims \in Claimed, e \in BOOLEAN}
      [] c = "deckInit" -> {[deck |-> [id |-> deck]] : deck \in DOMAIN DeckDefinitions \cup {None}}
      [] c = "deckAddSource" ->
           {[source |-> [permission |-> x, ref |-> ref]] : x \in Permissions, ref \in SourceRefs}
      [] c \in {"sdkGrant", "sdkGrantXaman", "sdkGrantLegacy"} ->
           {[consent |-> [permissions |-> granted]] : granted \in SUBSET Permissions \ {{}}}
      [] c = "sdkProve" ->
           {[deckPermissions |-> DeckPermissionsGiven(given)] : given \in SUBSET Permissions}
      [] c = "deckImport" -> {[deck |-> [id |-> d.deck]] : d \in {x \in printed : x.type = "export"}}
      [] OTHER -> {<<>>}

Start(p, c) ==
    /\ proc[p] = Idle
    /\ started < session.most
    /\ \E given \in Given(c), ask \in Asks(c) :
          proc' = [proc EXCEPT ![p] = [Idle EXCEPT !.todo = Programs[c], !.dir = Dir(c),
                                                   !.doc = Over(given, ask)]]
    /\ started' = started + 1
    /\ blame' = IF \E q \in Procs : proc[q] # Idle THEN blame \cup {"overlap"} ELSE blame
    /\ UNCHANGED <<disk, serial, last, walletVars, credentialVars, session>>

-----------------------------------------------------------------------------

WalletStep(p) ==
    /\ \/ Initialize(p) \/ LoadOrGenerateKeys(p) \/ GetPairwiseId(p)
       \/ CreateRequest(p) \/ CreateConsentGrant(p) \/ CreateConsentGrantWithSigner(p)
       \/ CheckGrant(p) \/ GenerateProof(p) \/ SubmitReceipt(p)
       \/ GetOrCreateLocalSigner(p) \/ CreateGrant(p) \/ Verify(p)
    /\ UNCHANGED <<credentialVars, cliVars>>

ClearStep(p) ==
    /\ ClearReplayCache(p)
    /\ blame' = blame \cup {"clear"}
    /\ UNCHANGED <<credentialVars, session, started>>

CredentialStep(p) ==
    /\ \/ LoadOrGenerateIssuerKey(p) \/ IssueCredential(p) \/ VerifyCredential(p)
       \/ FindCredential(p) \/ CheckCredential(p) \/ GenerateProofFromCredential(p)
       \/ AnchorCredential(p) \/ InitMidnight(p) \/ StoreCredential(p)
       \/ LoadCredential(p) \/ DeleteCredential(p) \/ Encrypt(p) \/ Decrypt(p)
    /\ UNCHANGED cliVars

DeckStep(p) ==
    /\ \/ DeckList(p) \/ DeckShow(p) \/ DeckCreate(p) \/ DeckAddSource(p) \/ DeckExport(p) \/ DeckImport(p)
       \/ CreateProof(p) \/ GetOrCreateDid(p)
       \/ LaceInit(p) \/ LaceConnect(p) \/ LaceAddresses(p) \/ LaceSign(p)
    /\ UNCHANGED cliVars

CheckStep(p) ==
    \/ checkOnly(p) \/ checkIdentity(p) \/ checkAnchor(p) \/ checkDeck(p)
    \/ checkGrant(p) \/ checkProof(p) \/ checkReceipt(p) \/ cleanup(p)

WriteStep(p) ==
    /\ WriteReturns(p)
    /\ UNCHANGED <<walletVars, credentialVars, cliVars>>

CrashStep(p) ==
    /\ "crash" \notin blame
    /\ Crash(p)
    /\ blame' = blame \cup {"crash"}
    /\ UNCHANGED <<walletVars, credentialVars, session, started>>

User ==
    /\ \/ EditCredential \/ CredentialsExpire
       \/ ResendRequest /\ UNCHANGED credentialVars
    /\ UNCHANGED cliVars

Init ==
    /\ PersistInit /\ WalletInit /\ CredentialInit
    /\ session \in Sessions
    /\ started = 0
    /\ blame = {}

Step(p) ==
    \/ \E c \in session.commands : Start(p, c)
    \/ WalletStep(p) \/ ClearStep(p) \/ CredentialStep(p) \/ DeckStep(p)
    \/ CheckStep(p) \/ WriteStep(p) \/ CrashStep(p)

Next == User \/ \E p \in Procs : Step(p)

Spec == Init /\ [][Next]_vars

-----------------------------------------------------------------------------
(* Properties *)

\* Every variable has its type.
TypeOK ==
    /\ \A f \in Files : Whole(disk[f]) =>
          \A x \in disk[f] : DOMAIN x = {"kind", "id", "data"} /\ x.kind \in Kinds
    /\ \A p \in Procs :
          /\ DOMAIN proc[p] = DOMAIN Idle
          /\ proc[p].writing \in Files \cup {None}
          /\ proc[p] = Idle \/ proc[p].todo # <<>> \/ proc[p].writing # None
    /\ serial \in Nat /\ started \in 0..session.most
    /\ \A k \in DOMAIN accepted : accepted[k] \in Nat
    /\ blame \subseteq {"overlap", "crash", "clear"}
    /\ late \in BOOLEAN /\ rekeyed \in BOOLEAN /\ switched \in BOOLEAN

\* KeysAgree: whatever commands overlap, are killed or start again, a store
\* that parses holds pairwise ids of its own root key, and credentials sealed
\* under its own midnight key: a later command can prove and decrypt with it.
\* Only a process whose initialize() changes the store under an object that has
\* taken its key already (the demos do) can write another one.
KeysAgree ==
    \A f \in Files : Whole(disk[f]) /\ ~switched =>
        \A x \in disk[f] :
           /\ x.kind = "pairwiseIds" => Rec("rootKeyPair", "root", x.data) \in disk[f]
           /\ x.kind = "midnightCredentials" => Rec("midnightKey", "key", x.data) \in disk[f]

\* LossExplained: a store that is whole again has lost a record only if the
\* process that wrote it had not read the record, or if the record is a source
\* of a deck instance and was given a new reference, or if it is a pairwise id
\* of another root key than the writer's, whose store was changed under it.
\* What a command has read it writes back.
LossExplained ==
    [][\A f \in Files : \A x \in last[f] \ last'[f] :
          \E p \in Procs :
             /\ proc[p].writing = f
             /\ \/ x \notin proc[p].seen[f]
                \/ x.kind = "pairwiseIds" /\ x.data # proc[p].root /\ switched
                \/ /\ x.kind \in Permissions
                   /\ \E y \in last'[f] : y.kind = x.kind /\ y.id = x.id]_vars

\* AcceptedOnceAlone: one proof is accepted by two commands only if they ran at
\* once, if a command was killed, or if demo phase1 cleared the replay cache.
AcceptedOnceAlone ==
    \A k \in DOMAIN accepted : accepted[k] > 1 => blame # {}

\* VerdictsAgree: two runs of `credential verify` that answer differently about
\* one credential have its expiry or another issuer key between them; a
\* credential that was edited is never valid.
VerdictsAgree ==
    /\ \A v, w \in verdicts : v[1] = w[1] /\ v[2] # w[2] =>
          (late /\ v[1].expires) \/ rekeyed
    /\ \A v \in verdicts : v[2] => v[1].claims = v[1].signed

\* ProofsConsented: a proof that the prover has made answers a request, named
\* by its id and audience, that a consent grant was made for. Made from the
\* grant, it shows nothing beyond what that grant gives, however the request
\* was changed after the consent; made from the permissions of a deck or from a
\* credential, it may, for then those of the grant are not looked at.
ProofsConsented ==
    \A d \in printed : d.type = "proof" /\ d.by # Legacy =>
        /\ \E g \in printed : g.type = "grant" /\ Binds(g, d.request)
        /\ d.from.type = "grant" =>
              /\ d.from \in printed /\ Binds(d.from, d.request)
              /\ d.satisfied \subseteq d.from.permissions

\* CredentialProofsOwn: a proof made from a credential shows claims of that
\* credential, and the pairwise id that it is made under was derived from the
\* root key that the credential was issued to: nobody proves with somebody
\* else's credential, whatever commands overlap, unless a key was switched.
CredentialProofsOwn ==
    \A d \in printed : d.type = "proof" /\ d.from.type = "credentialHash" =>
        /\ d.satisfied \subseteq d.from.of.claims
        /\ switched \/ d.by = d.from.of.subject
=============================================================================
