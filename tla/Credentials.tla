----------------------------- MODULE Credentials -----------------------------
(***************************************************************************)
(* Issuing and checking credentials (CredentialIssuer, CredentialStore,    *)
(* CredentialAnchor), their encrypted copies (LocalEncryptedMidnightAdapter*)
(* behind MidnightCredentialStore), and proofs made from a credential.     *)
(***************************************************************************)
EXTENDS LocalProver

VARIABLES
    late,      \* the credentials issued with --ttl have expired
    verdicts,  \* history: <<credential, valid>> of each `credential verify`
    rekeyed    \* history: a command took another issuer key than the one that
               \* some credential was issued with

credentialVars == <<late, verdicts, rekeyed>>
CredentialInit == late = FALSE /\ verdicts = {} /\ rekeyed = FALSE

\* The claims of a credential that count: true, a number, a non-empty text.
\* `signed` are the claims the signature was made over.
Credential(id, issuer, subject, claims, expires) ==
    [type |-> "credential", id |-> id, issuer |-> issuer, subject |-> subject,
     claims |-> claims, signed |-> claims, expires |-> expires]

Expired(c) == c.expires /\ late

-----------------------------------------------------------------------------
(* CredentialIssuer *)

\* loadOrGenerateKeys: `credential verify` runs it too, and so may generate
\* the key it then verifies with.
LoadOrGenerateIssuerKey(p) ==
    LET r == proc[p]
        stored == Has(r, r.dir, "issuerKeys", "default")
        key == IF stored THEN DataOf(r, r.dir, "issuerKeys", "default") ELSE Fresh
    IN  /\ At(p, "issuerKey")
        /\ IF stored
           THEN Continue(p, [r EXCEPT !.issuer = key])
           ELSE /\ Save(p, [Put(r, r.dir, Rec("issuerKeys", "default", key))
                              EXCEPT !.issuer = key], r.dir)
                /\ serial' = serial + 1
        /\ rekeyed' = (rekeyed \/ \E c \in printed : c.type = "credential" /\ c.issuer # key)
        /\ UNCHANGED <<walletVars, late, verdicts>>

IssueCredential(p) ==
    LET r == proc[p]
        ask == r.doc["claims"]
    IN  /\ At(p, "issueCredential")
        /\ Publish(p, "credentials", "credential",
                   Credential(Fresh, r.issuer,
                              IF "subject" \in DOMAIN ask THEN ask.subject ELSE r.root,
                              ask.claims, ask.expires))
        /\ UNCHANGED credentialVars

\* The signature over the claims is not looked at.
Fault_SignatureByIssuer(r, c) == c.issuer = r.issuer

SignatureValid(r, c) == c.issuer = r.issuer /\ c.signed = c.claims

VerifyCredential(p) ==
    LET r == proc[p]
        c == r.doc["credential"]
    IN  /\ At(p, "verifyCredential")
        /\ Continue(p, r)
        /\ verdicts' = verdicts \cup {<<c, SignatureValid(r, c) /\ ~Expired(c)>>}
        /\ UNCHANGED <<walletVars, late, rekeyed>>

\* CredentialStore: what a wallet finds for a subject and the claims it needs
\* among the credentials of its store.
Stored(r) == {c \in printed : /\ c.type = "credential"
                              /\ c.signed = c.claims
                              /\ Has(r, r.dir, "credentials", c.id)}
CredentialsBySubject(r, subject) == {c \in Stored(r) : c.subject = subject}
ValidCredentials(r, subject) == {c \in CredentialsBySubject(r, subject) : ~Expired(c)}
WithClaims(r, subject, required) ==
    {c \in ValidCredentials(r, subject) : required \subseteq c.claims}

FindCredential(p) ==
    LET r == proc[p]
        found == WithClaims(r, r.root, r.doc["request"].required)
    IN  /\ At(p, "findCredential")
        /\ IF found = {} THEN Exit(p) ELSE \E c \in found : Continue(p, Keep(r, "credential", c))
        /\ UNCHANGED <<walletVars, credentialVars>>

\* The holder edits the file of a credential by hand.
EditCredential ==
    \E c \in printed, claims \in SUBSET Permissions \ {{}} :
        /\ c.type = "credential"
        /\ claims # c.claims
        /\ ~ \E d \in printed : d.type = "credential" /\ d.signed # d.claims
        /\ printed' = printed \cup {[c EXCEPT !.claims = claims]}
        /\ UNCHANGED <<persistVars, accepted, switched, credentialVars>>

CredentialsExpire ==
    /\ ~late
    /\ \E c \in printed : c.type = "credential" /\ c.expires
    /\ late' = TRUE
    /\ UNCHANGED <<persistVars, walletVars, verdicts, rekeyed>>

\* The subject is not compared with the prover.
Fault_AnySubject(r, c) == c.subject \in {None, r.root}

\* generateProofFromCredential, after the comparison of grant and request: the
\* subject has to be this prover's root id, and the claims have to cover all
\* that is asked for. Neither the permissions of the grant nor the signature of
\* the credential are looked at.
SubjectMatches(r, c) == c.subject = r.root

CheckCredential(p) ==
    LET r == proc[p]
        c == r.doc["credential"]
    IN  /\ At(p, "checkCredential")
        /\ IF /\ SubjectMatches(r, c)
              /\ r.doc["request"].required \subseteq c.claims
           THEN Continue(p, r) ELSE Exit(p)
        /\ UNCHANGED <<walletVars, credentialVars>>

GenerateProofFromCredential(p) ==
    LET r == proc[p]
        request == r.doc["request"]
    IN  /\ At(p, "credentialProof")
        /\ Publish(p, "proofs", "proof",
                   Proof(Fresh, request, request.required, r.pairwise[request.audience],
                         CredentialHash(r.doc["credential"])))
        /\ UNCHANGED credentialVars

\* anchorCredential: the transaction hash is made up; the anchor is appended.
AnchorCredential(p) ==
    LET r == proc[p]
    IN  /\ At(p, "anchorCredential")
        /\ Save(p, Put(r, r.dir, Rec("anchors", r.doc["credential"].id, Fresh)), r.dir)
        /\ serial' = serial + 1
        /\ UNCHANGED <<walletVars, credentialVars>>

-----------------------------------------------------------------------------
(* LocalEncryptedMidnightAdapter and MidnightCredentialStore *)

\* init() without a passphrase: the key of the store, or a new one saved there.
InitMidnight(p) ==
    LET r == proc[p]
    IN  /\ At(p, "midnightKey")
        /\ IF Has(r, r.dir, "midnightKey", "key")
           THEN Continue(p, [r EXCEPT !.midnight = DataOf(r, r.dir, "midnightKey", "key")])
           ELSE /\ Save(p, [Put(r, r.dir, Rec("midnightKey", "key", Fresh))
                              EXCEPT !.midnight = Fresh], r.dir)
                /\ serial' = serial + 1
        /\ UNCHANGED <<walletVars, credentialVars>>

Ref(id, credential) == [type |-> "ref", id |-> id, credential |-> credential]

\* storeCredential: AES-GCM under the adapter's key; the data of the record is
\* the key that opens it.
StoreCredential(p) ==
    LET r == proc[p]
        ref == Ref(Fresh, r.doc["credential"])
    IN  /\ At(p, "storeCredential")
        /\ Save(p, Keep(Put(r, r.dir, Rec("midnightCredentials", Fresh, r.midnight)), "ref", ref),
                r.dir)
        /\ serial' = serial + 1
        /\ printed' = printed \cup {ref}
        /\ UNCHANGED <<accepted, switched, credentialVars>>

\* loadCredential throws for an unknown ref, and the authentication tag makes
\* decryption with another key throw.
LoadCredential(p) ==
    LET r == proc[p]
        ref == r.doc["ref"]
    IN  /\ At(p, "loadCredential")
        /\ IF Rec("midnightCredentials", ref.id, r.midnight) \in r.mem[r.dir]
           THEN Continue(p, Keep(r, "credential", ref.credential))
           ELSE Exit(p)
        /\ UNCHANGED <<walletVars, credentialVars>>

\* deleteCredential: the array is filtered into one of the store's own.
DeleteCredential(p) ==
    LET r == proc[p]
        gone == {x \in r.mem[r.dir] : x.kind = "midnightCredentials" /\ x.id = r.doc["ref"].id}
    IN  /\ At(p, "deleteCredential")
        /\ Save(p, [r EXCEPT !.mem[r.dir] = @ \ gone, !.seen[r.dir] = @ \ gone], r.dir)
        /\ UNCHANGED <<serial, walletVars, credentialVars>>

\* midnight encrypt and decrypt: a text is opened by the key it was made with.
Ciphertext(key) == [type |-> "ciphertext", key |-> key]

Encrypt(p) ==
    /\ At(p, "encrypt")
    /\ Continue(p, proc[p])
    /\ printed' = printed \cup {Ciphertext(proc[p].midnight)}
    /\ UNCHANGED <<accepted, switched, credentialVars>>

Decrypt(p) ==
    LET r == proc[p]
    IN  /\ At(p, "decrypt")
        /\ IF r.doc["ciphertext"].key = r.midnight THEN Continue(p, r) ELSE Exit(p)
        /\ UNCHANGED <<walletVars, credentialVars>>
=============================================================================
