------------------------- MODULE CommandLine_proofs -------------------------
(***************************************************************************)
(* Theorems about the command line, for every number of processes,         *)
(* sessions of every kind, and any interleaving of commands: the proofs    *)
(* bound neither the preemptions nor the records of a file.                *)
(***************************************************************************)
EXTENDS CommandLine, TLAPS

-----------------------------------------------------------------------------
(* The inductive invariant: the stores                                     *)

Dirs == {"cliTest", "agilityData", "offline"}

\* What each file may hold.
KindsOf(f) ==
    IF f \in Dirs THEN Scalars \cup Collections
    ELSE IF f = "decks" THEN Permissions \cup {"instances"}
    ELSE IF f = "didMap" THEN {"entries"} ELSE {"keys"}

\* Records that are saved under an id drawn for them.
Drawn == {"identities", "decks", "grants", "proofRequests", "consentGrants",
          "credentials", "midnightCredentials", "instances"}

RecordOK(f, x, n) ==
    /\ x = Rec(x.kind, x.id, x.data)
    /\ x.kind \in KindsOf(f)
    /\ x.kind = "rootKeyPair" => x.id = "root" /\ x.data \in Nat
    /\ x.kind = "midnightKey" => x.id = "key" /\ x.data \in Nat
    /\ x.kind \in Drawn => x.id \in 1..n

OneKey(S) == \A x, y \in S : x.kind \in Scalars /\ y.kind = x.kind => x = y

\* What KeysAgree says of one store.
Agree(S) == \A x \in S :
    /\ x.kind = "pairwiseIds" => Rec("rootKeyPair", "root", x.data) \in S
    /\ x.kind = "midnightCredentials" => Rec("midnightKey", "key", x.data) \in S

\* A store when n ids have been drawn; sw: a key has been switched.
StoreOK(f, S, n, sw) ==
    /\ \A x \in S : RecordOK(f, x, n)
    /\ OneKey(S)
    /\ sw \/ Agree(S)

-----------------------------------------------------------------------------
(* The inductive invariant: one process                                    *)

Fields(r) ==
    /\ DOMAIN r = DOMAIN Idle
    /\ Len(r.todo) \in Nat
    /\ r.dir \in Dirs
    /\ DOMAIN r.mem = Files /\ DOMAIN r.seen = Files
    /\ DOMAIN r.pairwise = Audiences
    /\ r.loaded \subseteq Files
    /\ r.writing \in Files \cup {None}
    /\ r.root \in Nat \cup {None} /\ r.midnight \in Nat \cup {None}

\* The arrays of EMPTY_STORE, which a file that does not parse will give back.
EmptyOK(r, n, sw) == \A x \in r.empty :
    /\ RecordOK("cliTest", x, n) /\ x.kind \in Collections
    /\ ~sw /\ x.kind = "pairwiseIds" => r.root # None
    /\ ~sw /\ x.kind = "midnightCredentials" => r.midnight # None

\* The keys that the objects hold are those of the store.
HeldOK(r, sw) == sw \/
    /\ r.root # None => Rec("rootKeyPair", "root", r.root) \in r.mem[r.dir]
    /\ r.midnight # None => Rec("midnightKey", "key", r.midnight) \in r.mem[r.dir]

\* What has been read is still there, but for what LossExplained names.
KeptOK(r, sw) == \A f \in Files : \A x \in r.seen[f] \ r.mem[f] :
    \/ x.kind = "pairwiseIds" /\ r.root # None /\ x.data # r.root /\ sw
    \/ /\ x.kind \in Permissions
       /\ \E y \in r.mem[f] : y.kind = x.kind /\ y.id = x.id

ProcessOK(r, n, sw) ==
    /\ Fields(r)
    /\ \A f \in Files : StoreOK(f, r.mem[f], n, sw)
    /\ EmptyOK(r, n, sw)
    /\ HeldOK(r, sw)
    /\ KeptOK(r, sw)

Busy(r) == r = Idle \/ r.todo # <<>> \/ r.writing # None

StoresInv ==
    /\ serial \in Nat /\ switched \in BOOLEAN
    /\ DOMAIN proc = Procs /\ DOMAIN disk = Files
    /\ \A f \in Files : Whole(disk[f]) => StoreOK(f, disk[f], serial, switched)
    /\ \A p \in Procs : ProcessOK(proc[p], serial, switched) /\ Busy(proc[p])

-----------------------------------------------------------------------------
(* The inductive invariant: the order of the steps                         *)

\* Before each op there is a step of ops, unless what it brings is there.
Follows(s, op, ops, there) ==
    \A i \in 1..Len(s) : s[i] = op => there \/ \E j \in 1..(i - 1) : s[j] \in ops

\* At most one rootKey, and none when there is a key.
OneRootKey(s, none) ==
    \A i \in 1..Len(s) : s[i] = "rootKey" =>
        none /\ \A j \in 1..(i - 1) : s[j] # "rootKey"

\* A proof is made of the grant that was last compared with the request.
Between == {"pairwise", "checkCredential"}
Checked(s, same) ==
    \A i \in 1..Len(s) : s[i] \in {"generateProof", "credentialProof"} =>
        \/ same /\ \A k \in 1..(i - 1) : s[k] \in Between
        \/ \E j \in 1..(i - 1) : /\ s[j] = "checkGrant"
                                 /\ \A k \in (j + 1)..(i - 1) : s[k] \in Between

\* A credential is verified as it was given, after the issuer's key is loaded.
Verifies(s, there, same) ==
    \A i \in 1..Len(s) : s[i] = "verifyCredential" =>
        /\ there
        /\ \A k \in 1..i : s[k] \in {"initialize", "issuerKey", "verifyCredential"}
        /\ same \/ \E j \in 1..(i - 1) : s[j] = "issuerKey"

Imports(s, there) == \A i \in 1..Len(s) : s[i] = "importSources" => there

Planned(s, root, midnight, granted, same, export, credential, issued) ==
    /\ Follows(s, "pairwise", {"rootKey"}, root)
    /\ OneRootKey(s, ~root)
    /\ Follows(s, "storeCredential", {"midnightKey"}, midnight)
    /\ Follows(s, "checkGrant", {"createConsentGrant", "signConsent"}, granted)
    /\ Checked(s, same)
    /\ Imports(s, export)
    /\ Verifies(s, credential, issued)

SameRequest(r) == /\ Holds(r, "grant")
                  /\ Binds(r.doc["grant"], r.doc["request"])

HasDoc(r, type, docs) == Holds(r, type) /\ r.doc[type] \in docs /\ r.doc[type].type = type

\* docs: what is printed; rk: rekeyed.
OrderOK(r, docs, rk) ==
    Planned(r.todo, r.root # None, r.midnight # None, Holds(r, "grant"), SameRequest(r),
            Holds(r, "export"), HasDoc(r, "credential", docs),
            rk \/ r.doc["credential"].issuer = r.issuer)

\* The grants and exports at hand have been printed; the permissions of a deck
\* are no grant.
DocsOK(r, docs) ==
    /\ \A type \in {"grant", "export"} : Holds(r, type) => HasDoc(r, type, docs)
    /\ Holds(r, "deckPermissions") => r.doc["deckPermissions"].type = "deckPermissions"

\* Exports hold sources, and there is a grant for each proof of the wallet, the
\* one it was made from if it was made from one (ProofsConsented).
DocumentOK(d, docs) ==
    /\ "type" \in DOMAIN d
    /\ d.type = "export" => \A x \in d.sources :
          x = Rec(x.kind, x.id, x.data) /\ x.kind \in Permissions
    /\ d.type = "proof" /\ d.by # Legacy =>
          /\ \E g \in docs : g.type = "grant" /\ Binds(g, d.request)
          /\ d.from.type = "grant" => /\ d.from \in docs /\ Binds(d.from, d.request)
                                     /\ d.satisfied \subseteq d.from.permissions

\* A verdict says whether the signature is over the claims, unless the key was
\* another one or the credential has expired.
VerdictOK(v, rk, lt) ==
    LET over == v[1].signed = v[1].claims
    IN  /\ v[2] \in BOOLEAN
        /\ v[2] => over
        /\ rk \/ (lt /\ v[1].expires) \/ (v[2] <=> over)

PrintedInv ==
    /\ \A d \in printed : DocumentOK(d, printed)
    /\ \A v \in verdicts : VerdictOK(v, rekeyed, late)

OrderInv ==
    /\ PrintedInv
    /\ \A p \in Procs : OrderOK(proc[p], printed, rekeyed) /\ DocsOK(proc[p], printed)

-----------------------------------------------------------------------------
(* The inductive invariant: the replay cache, while nothing overlaps       *)

ReplayInv == blame = {} =>
    /\ \A p, q \in Procs : p # q => proc[p] = Idle \/ proc[q] = Idle
    /\ \A p \in Procs : "replay" \in proc[p].loaded =>
          DOMAIN accepted \subseteq proc[p].mem["replay"]
    /\ \A p \in Procs : proc[p].writing = "replay" =>
          "replay" \in proc[p].loaded /\ disk["replay"] = Partial
    /\ (\A p \in Procs : proc[p].writing # "replay") =>
          \/ Whole(disk["replay"]) /\ DOMAIN accepted \subseteq disk["replay"]
          \/ disk["replay"] = Absent /\ DOMAIN accepted = {}
    /\ \A k \in DOMAIN accepted : accepted[k] \in Nat /\ accepted[k] <= 1

-----------------------------------------------------------------------------
(* Lemmas: stores and processes                                            *)

LEMMA KindsApart ==
  /\ \A x \in Permissions : /\ x \notin Scalars /\ x \notin Collections /\ x \notin Drawn
                            /\ x \notin Appended
                            /\ x \notin {"instances", "entries", "keys"}
  /\ Drawn \subseteq Collections \cup {"instances"}
  /\ Appended \subseteq Collections
  /\ Scalars \cap Collections = {}
  /\ None \notin Nat /\ None \notin Files
  /\ Dirs \subseteq Files
  /\ \A f \in Dirs : KindsOf(f) = Scalars \cup Collections
BY PersistenceAssumption
   DEF Scalars, Collections, Drawn, Appended, Dirs, Files, KindsOf

LEMMA RecFields ==
  ASSUME NEW kind, NEW id, NEW data
  PROVE  /\ DOMAIN Rec(kind, id, data) = {"kind", "id", "data"}
         /\ Rec(kind, id, data).kind = kind
         /\ Rec(kind, id, data).id = id
         /\ Rec(kind, id, data).data = data
BY DEF Rec

LEMMA IdleFields ==
  /\ DOMAIN Idle = {"todo", "dir", "mem", "seen", "loaded", "writing", "empty", "shared",
                    "root", "issuer", "midnight", "pairwise", "doc"}
  /\ Idle.todo = <<>> /\ Idle.dir = "cliTest" /\ Idle.loaded = {}
  /\ Idle.writing = None /\ Idle.empty = {} /\ Idle.shared = TRUE
  /\ Idle.root = None /\ Idle.issuer = None /\ Idle.midnight = None /\ Idle.doc = <<>>
  /\ Idle.mem = [f \in Files |-> {}] /\ Idle.seen = [f \in Files |-> {}]
  /\ Idle.pairwise = [a \in Audiences |-> None]
BY DEF Idle

LEMMA EmptyStoreOK ==
  ASSUME NEW f, NEW n, NEW sw
  PROVE  StoreOK(f, {}, n, sw)
BY DEF StoreOK, OneKey, Agree

LEMMA IdleOK ==
  ASSUME NEW n, NEW sw
  PROVE  ProcessOK(Idle, n, sw)
BY IdleFields, EmptyStoreOK
   DEF ProcessOK, Fields, EmptyOK, HeldOK, KeptOK, Dirs

LEMMA StoreGrows ==
  ASSUME NEW f, NEW S, NEW n \in Nat, NEW m \in Nat, n <= m, NEW sw, NEW sx, sw => sx,
         StoreOK(f, S, n, sw)
  PROVE  StoreOK(f, S, m, sx)
BY DEF StoreOK, RecordOK

LEMMA ProcessGrows ==
  ASSUME NEW r, NEW n \in Nat, NEW m \in Nat, n <= m, NEW sw, NEW sx, sw => sx,
         ProcessOK(r, n, sw)
  PROVE  ProcessOK(r, m, sx)
<1>1. \A f \in Files : StoreOK(f, r.mem[f], m, sx)
  BY StoreGrows DEF ProcessOK
<1>2. EmptyOK(r, m, sx)
  BY DEF ProcessOK, EmptyOK, RecordOK
<1>3. HeldOK(r, sx) /\ KeptOK(r, sx)
  BY DEF ProcessOK, HeldOK, KeptOK
<1> QED BY <1>1, <1>2, <1>3 DEF ProcessOK

\* A change of the fields that the stores do not depend on.
LEMMA SameStores ==
  ASSUME NEW r, NEW q, NEW n, NEW sw, ProcessOK(r, n, sw), Fields(q),
         q.dir = r.dir, q.mem = r.mem, q.seen = r.seen, q.empty = r.empty,
         q.root = r.root, q.midnight = r.midnight
  PROVE  ProcessOK(q, n, sw)
BY DEF ProcessOK, EmptyOK, HeldOK, KeptOK

\* The record fits into the store that a process has of f.
Fits(r, f, rec, n) ==
    /\ f \in Files /\ RecordOK(f, rec, n)
    /\ rec.kind \in Scalars => \A x \in r.mem[f] : x.kind # rec.kind
    /\ rec.kind = "pairwiseIds" => f = r.dir /\ r.root # None /\ rec.data = r.root
    /\ rec.kind = "midnightCredentials" => f = r.dir /\ r.midnight # None /\ rec.data = r.midnight
    /\ \A x \in r.mem[f] : x.kind = rec.kind /\ x.id = rec.id =>
          x = rec \/ rec.kind \in Appended \cup Permissions \cup {"pairwiseIds"}

LEMMA PutFields ==
  ASSUME NEW r, NEW f, NEW rec, Fields(r), f \in Files
  PROVE  LET q == Put(r, f, rec)
         IN  /\ Fields(q)
             /\ q.mem[f] = With(r.mem[f], rec)
             /\ \A g \in Files : g # f => q.mem[g] = r.mem[g]
             /\ q.empty = IF r.shared /\ rec.kind \in Collections
                          THEN With(r.empty, rec) ELSE r.empty
             /\ q.todo = r.todo /\ q.dir = r.dir /\ q.seen = r.seen /\ q.loaded = r.loaded
             /\ q.writing = r.writing /\ q.root = r.root /\ q.issuer = r.issuer
             /\ q.midnight = r.midnight /\ q.pairwise = r.pairwise /\ q.doc = r.doc
             /\ q.shared = r.shared
BY IdleFields DEF Put, Fields

LEMMA WithOK ==
  ASSUME NEW r, NEW f, NEW rec, NEW n, NEW sw, ProcessOK(r, n, sw), Fits(r, f, rec, n)
  PROVE  StoreOK(f, With(r.mem[f], rec), n, sw)
<1> DEFINE S == r.mem[f]
           T == With(S, rec)
<1>1. StoreOK(f, S, n, sw) /\ HeldOK(r, sw)
  BY DEF ProcessOK, Fits
<1>2. \A x \in T : x \in S \/ x = rec
  BY DEF With
<1>3. \A x \in S : x \in T \/ (x.kind = rec.kind /\ x.id = rec.id)
  BY DEF With
<1>4. rec \in T
  BY DEF With
<1>5. \A x \in T : RecordOK(f, x, n)
  BY <1>1, <1>2 DEF StoreOK, Fits
<1>6. OneKey(T)
  BY <1>1, <1>2 DEF StoreOK, OneKey, Fits
<1>7. \A x \in S : x.kind \in Scalars => x \in T
  BY <1>3 DEF Fits
<1>8. Agree(T) \/ sw
  <2> SUFFICES ASSUME ~sw PROVE Agree(T)
    OBVIOUS
  <2>1. \A x \in S : x.kind = "pairwiseIds" => Rec("rootKeyPair", "root", x.data) \in T
    BY <1>1, <1>7, RecFields DEF StoreOK, Agree, Scalars
  <2>2. \A x \in S : x.kind = "midnightCredentials" => Rec("midnightKey", "key", x.data) \in T
    BY <1>1, <1>7, RecFields DEF StoreOK, Agree, Scalars
  <2>3. rec.kind = "pairwiseIds" => Rec("rootKeyPair", "root", rec.data) \in T
    BY <1>1, <1>7, RecFields DEF HeldOK, Fits, Scalars
  <2>4. rec.kind = "midnightCredentials" => Rec("midnightKey", "key", rec.data) \in T
    BY <1>1, <1>7, RecFields DEF HeldOK, Fits, Scalars
  <2> QED BY <1>2, <2>1, <2>2, <2>3, <2>4 DEF Agree
<1> QED BY <1>5, <1>6, <1>8 DEF StoreOK

LEMMA PutOK ==
  ASSUME NEW r, NEW f, NEW rec, NEW n, NEW sw, ProcessOK(r, n, sw), Fits(r, f, rec, n)
  PROVE  ProcessOK(Put(r, f, rec), n, sw)
<1> DEFINE q == Put(r, f, rec)
<1>0. f \in Files /\ Fields(r)
  BY DEF Fits, ProcessOK
<1>1. Fields(q) /\ q.mem[f] = With(r.mem[f], rec)
  BY <1>0, PutFields
<1>2. \A g \in Files : g # f => q.mem[g] = r.mem[g]
  BY <1>0, PutFields
<1>3. /\ q.dir = r.dir /\ q.seen = r.seen /\ q.root = r.root /\ q.midnight = r.midnight
      /\ q.empty = IF r.shared /\ rec.kind \in Collections THEN With(r.empty, rec) ELSE r.empty
  BY <1>0, PutFields
<1>4. \A g \in Files : StoreOK(g, q.mem[g], n, sw)
  BY <1>1, <1>2, WithOK DEF ProcessOK
<1>5. EmptyOK(q, n, sw)
  <2>1. EmptyOK(r, n, sw)
    BY DEF ProcessOK
  <2>2. \A x \in q.empty : x \in r.empty \/ (x = rec /\ rec.kind \in Collections)
    BY <1>3 DEF With
  <2>3. rec.kind \in Collections => RecordOK("cliTest", rec, n)
    BY KindsApart DEF Fits, RecordOK, Dirs
  <2> QED BY <1>3, <2>1, <2>2, <2>3 DEF EmptyOK, Fits
<1>6. \A x \in r.mem[f] : x \in With(r.mem[f], rec) \/
         (x.kind = rec.kind /\ x.id = rec.id /\ x # rec /\ x.kind \notin Appended)
  BY DEF With
<1>7. HeldOK(q, sw)
  <2>1. \A x \in r.mem[f] : x.kind \in Scalars => x \in With(r.mem[f], rec)
    BY <1>6 DEF Fits
  <2>2. \A x \in r.mem[r.dir] : x.kind \in Scalars => x \in q.mem[r.dir]
    BY <1>0, <1>1, <1>2, <2>1, KindsApart DEF Fields
  <2> QED BY <1>3, <2>2, RecFields DEF HeldOK, ProcessOK, Scalars
<1>8. KeptOK(q, sw)
  <2> SUFFICES ASSUME NEW g \in Files, NEW x \in q.seen[g] \ q.mem[g]
               PROVE  \/ x.kind = "pairwiseIds" /\ q.root # None /\ x.data # q.root /\ sw
                      \/ /\ x.kind \in Permissions
                         /\ \E y \in q.mem[g] : y.kind = x.kind /\ y.id = x.id
    BY DEF KeptOK
  <2>1. CASE g # f
    BY <1>2, <1>3, <2>1 DEF ProcessOK, KeptOK
  <2>2. CASE g = f /\ x \notin r.mem[f]
    <3>1. CASE x.kind = "pairwiseIds"
      BY <1>3, <2>2, <3>1, KindsApart DEF ProcessOK, KeptOK, Collections
    <3>2. CASE x.kind # "pairwiseIds"
      <4>1. PICK y \in r.mem[f] : y.kind = x.kind /\ y.id = x.id /\ x.kind \in Permissions
        BY <1>3, <2>2, <3>2 DEF ProcessOK, KeptOK
      <4>2. y \in q.mem[f] \/ (y.kind = rec.kind /\ y.id = rec.id)
        BY <1>1, <1>6
      <4> QED BY <1>1, <2>2, <4>1, <4>2 DEF With
    <3> QED BY <3>1, <3>2
  <2>3. CASE g = f /\ x \in r.mem[f]
    <3>1. x.kind = rec.kind /\ x.id = rec.id /\ x # rec /\ x.kind \notin Appended
      BY <1>1, <1>6, <2>3
    <3>2. CASE x.kind \in Permissions
      BY <1>1, <2>3, <3>1, <3>2 DEF With
    <3>3. CASE x.kind = "pairwiseIds"
      <4>1. f = r.dir /\ r.root # None /\ rec.data = r.root
        BY <3>1, <3>3 DEF Fits
      <4>2. x = Rec(x.kind, x.id, x.data) /\ rec = Rec(rec.kind, rec.id, rec.data)
        BY <1>0, <2>3 DEF ProcessOK, StoreOK, RecordOK, Fits
      <4>3. x.data # r.root
        BY <3>1, <4>1, <4>2
      <4>4. ASSUME ~sw PROVE FALSE
        <5>1. Rec("rootKeyPair", "root", x.data) \in r.mem[f]
          BY <1>0, <2>3, <3>3, <4>4 DEF ProcessOK, StoreOK, Agree
        <5>2. Rec("rootKeyPair", "root", r.root) \in r.mem[f]
          BY <4>1, <4>4 DEF ProcessOK, HeldOK
        <5>3. Rec("rootKeyPair", "root", x.data) = Rec("rootKeyPair", "root", r.root)
          BY <1>0, <5>1, <5>2, RecFields DEF ProcessOK, StoreOK, OneKey, Scalars
        <5> QED BY <4>3, <5>3, RecFields
      <4> QED BY <1>3, <3>3, <4>1, <4>3, <4>4
    <3> QED BY <2>3, <3>1, <3>2, <3>3 DEF Fits
  <2> QED BY <2>1, <2>2, <2>3
<1> QED BY <1>1, <1>4, <1>5, <1>7, <1>8 DEF ProcessOK

LEMMA KeepFields ==
  ASSUME NEW r, NEW type, NEW d, Fields(r)
  PROVE  LET q == Keep(r, type, d)
         IN  /\ Fields(q)
             /\ DOMAIN q.doc = DOMAIN r.doc \cup {type}
             /\ q.doc[type] = d
             /\ \A t \in DOMAIN r.doc : t # type => q.doc[t] = r.doc[t]
             /\ q.mem = r.mem /\ q.empty = r.empty
             /\ q.todo = r.todo /\ q.dir = r.dir /\ q.seen = r.seen /\ q.loaded = r.loaded
             /\ q.writing = r.writing /\ q.root = r.root /\ q.issuer = r.issuer
             /\ q.midnight = r.midnight /\ q.pairwise = r.pairwise
BY IdleFields DEF Keep, Over, Fields

LEMMA KeepOK ==
  ASSUME NEW r, NEW type, NEW d, NEW n, NEW sw, ProcessOK(r, n, sw)
  PROVE  ProcessOK(Keep(r, type, d), n, sw)
<1>1. Fields(r)
  BY DEF ProcessOK
<1> QED BY <1>1, KeepFields, SameStores

\* The key records of a store.
LEMMA KeyOfStore ==
  ASSUME NEW r, NEW n, NEW sw, NEW f \in Files, ProcessOK(r, n, sw),
         NEW kind \in Scalars, NEW id, Has(r, f, kind, id)
  PROVE  LET k == DataOf(r, f, kind, id)
         IN  Rec(kind, id, k) \in r.mem[f] /\ k \in Nat
<1>1. PICK x \in Get(r, f, kind, id) : DataOf(r, f, kind, id) = x.data
  BY DEF DataOf, Has
<1>2. x \in r.mem[f] /\ x.kind = kind /\ x.id = id
  BY <1>1 DEF Get
<1>3. RecordOK(f, x, n)
  BY <1>2 DEF ProcessOK, StoreOK
<1> QED BY <1>1, <1>2, <1>3 DEF RecordOK, Scalars

LEMMA NoKeyOfStore ==
  ASSUME NEW r, NEW n, NEW sw, NEW f \in Files, ProcessOK(r, n, sw),
         NEW kind, NEW id, ~ Has(r, f, kind, id),
         <<kind, id>> \in {<<"rootKeyPair", "root">>, <<"midnightKey", "key">>}
  PROVE  \A x \in r.mem[f] : x.kind # kind
BY DEF Has, Get, ProcessOK, StoreOK, RecordOK

LEMMA PairwiseLoaded ==
  ASSUME NEW r, NEW n, NEW sw, ProcessOK(r, n, sw)
  PROVE  ProcessOK(LoadPairwiseIds(r), n, sw)
<1>1. Fields(r)
  BY DEF ProcessOK
<1>2. LET q == LoadPairwiseIds(r)
      IN  /\ Fields(q) /\ q.dir = r.dir /\ q.mem = r.mem /\ q.seen = r.seen
          /\ q.empty = r.empty /\ q.root = r.root /\ q.midnight = r.midnight
  BY <1>1, IdleFields DEF LoadPairwiseIds, Fields
<1> QED BY <1>2, SameStores

LEMMA RootTaken ==
  ASSUME NEW r, NEW n, NEW sw, ProcessOK(r, n, sw), r.root = None,
         NEW k \in Nat, Rec("rootKeyPair", "root", k) \in r.mem[r.dir]
  PROVE  ProcessOK([r EXCEPT !.root = k], n, sw)
<1> DEFINE q == [r EXCEPT !.root = k]
<1>1. /\ Fields(q) /\ q.dir = r.dir /\ q.mem = r.mem /\ q.seen = r.seen
      /\ q.empty = r.empty /\ q.root = k /\ q.midnight = r.midnight
  BY IdleFields DEF ProcessOK, Fields
<1>2. k # None
  BY KindsApart
<1> HIDE DEF q
<1>3. \A f \in Files : StoreOK(f, q.mem[f], n, sw)
  BY <1>1 DEF ProcessOK
<1>4. EmptyOK(q, n, sw) /\ HeldOK(q, sw) /\ KeptOK(q, sw)
  BY <1>1, <1>2 DEF ProcessOK, EmptyOK, HeldOK, KeptOK
<1> QED BY <1>1, <1>3, <1>4 DEF ProcessOK, q

LEMMA MidnightTaken ==
  ASSUME NEW r, NEW n, NEW sw, ProcessOK(r, n, sw),
         NEW k \in Nat, Rec("midnightKey", "key", k) \in r.mem[r.dir]
  PROVE  ProcessOK([r EXCEPT !.midnight = k], n, sw)
<1> DEFINE q == [r EXCEPT !.midnight = k]
<1>1. /\ Fields(q) /\ q.dir = r.dir /\ q.mem = r.mem /\ q.seen = r.seen
      /\ q.empty = r.empty /\ q.root = r.root /\ q.midnight = k
  BY IdleFields DEF ProcessOK, Fields
<1>2. k # None
  BY KindsApart
<1> HIDE DEF q
<1>3. \A f \in Files : StoreOK(f, q.mem[f], n, sw)
  BY <1>1 DEF ProcessOK
<1>4. EmptyOK(q, n, sw) /\ HeldOK(q, sw) /\ KeptOK(q, sw)
  BY <1>1, <1>2 DEF ProcessOK, EmptyOK, HeldOK, KeptOK
<1> QED BY <1>1, <1>3, <1>4 DEF ProcessOK, q

\* The store of f, and what was read of it, replaced by content.
LEMMA ReadOK ==
  ASSUME NEW r, NEW q, NEW n, NEW sw, NEW f \in Files, NEW content,
         ProcessOK(r, n, sw), StoreOK(f, content, n, sw), Fields(q),
         q.dir = r.dir, q.empty = r.empty, q.root = r.root, q.midnight = r.midnight,
         q.mem[f] = content, q.seen[f] = content,
         \A g \in Files : g # f => q.mem[g] = r.mem[g] /\ q.seen[g] = r.seen[g],
         HeldOK(q, sw)
  PROVE  ProcessOK(q, n, sw)
<1>1. \A g \in Files : StoreOK(g, q.mem[g], n, sw)
  BY DEF ProcessOK, Fields
<1>2. EmptyOK(q, n, sw)
  BY DEF ProcessOK, EmptyOK
<1>3. KeptOK(q, sw)
  BY DEF ProcessOK, KeptOK, Fields
<1> QED BY <1>1, <1>2, <1>3 DEF ProcessOK

LEMMA LoadedFields ==
  ASSUME NEW r, NEW f \in Files, Fields(r)
  PROVE  LET q == Loaded(r, f)
         IN  /\ Fields(q) /\ f \in q.loaded
             /\ q.loaded = r.loaded \cup {f}
             /\ f \notin r.loaded => q.mem[f] = (IF Whole(disk[f]) THEN disk[f] ELSE {})
             /\ f \in r.loaded => q.mem[f] = r.mem[f]
             /\ \A g \in Files : g # f => q.mem[g] = r.mem[g]
             /\ q.empty = r.empty /\ q.doc = r.doc /\ q.shared = r.shared
             /\ q.todo = r.todo /\ q.dir = r.dir
             /\ q.writing = r.writing /\ q.root = r.root /\ q.issuer = r.issuer
             /\ q.midnight = r.midnight /\ q.pairwise = r.pairwise
BY IdleFields DEF Loaded, Fields

LEMMA LoadedOK ==
  ASSUME NEW r, NEW f \in Files \ Dirs, StoresInv, ProcessOK(r, serial, switched)
  PROVE  ProcessOK(Loaded(r, f), serial, switched)
<1> DEFINE q == Loaded(r, f)
<1>1. CASE f \in r.loaded
  BY <1>1 DEF Loaded
<1>2. CASE f \notin r.loaded
  <2> DEFINE content == IF Whole(disk[f]) THEN disk[f] ELSE {}
  <2>1. StoreOK(f, content, serial, switched)
    BY EmptyStoreOK DEF StoresInv
  <2>2. Fields(r)
    BY DEF ProcessOK
  <2>3. Fields(q) /\ q.dir = r.dir /\ q.empty = r.empty /\ q.root = r.root
        /\ q.midnight = r.midnight
    BY <2>2, LoadedFields
  <2>4. /\ q.mem[f] = content /\ q.seen[f] = content
        /\ \A g \in Files : g # f => q.mem[g] = r.mem[g] /\ q.seen[g] = r.seen[g]
    BY <1>2, <2>2, IdleFields DEF Loaded, Fields
  <2>5. HeldOK(q, switched)
    BY <2>2, <2>3, <2>4, KindsApart DEF HeldOK, ProcessOK, Fields
  <2> QED BY <2>1, <2>2, <2>3, <2>4, <2>5, ReadOK
<1> QED BY <1>1, <1>2

\* A step taken, and the end of a process.
LEMMA DoneFields ==
  ASSUME NEW r, Fields(r), r.todo # <<>>
  PROVE  /\ Len(r.todo) > 0 /\ Len(Tail(r.todo)) = Len(r.todo) - 1
         /\ \A i \in 1..(Len(r.todo) - 1) : Tail(r.todo)[i] = r.todo[i + 1]
         /\ Head(r.todo) = r.todo[1]
         /\ LET q == Done(r)
            IN  /\ Fields(q) /\ q.todo = Tail(r.todo)
                /\ q.mem = r.mem /\ q.empty = r.empty
                /\ q.dir = r.dir /\ q.seen = r.seen /\ q.loaded = r.loaded
                /\ q.writing = r.writing /\ q.root = r.root /\ q.issuer = r.issuer
                /\ q.midnight = r.midnight /\ q.pairwise = r.pairwise /\ q.doc = r.doc
<1>1. Len(r.todo) > 0
  BY DEF Fields
<1>2. Len(Tail(r.todo)) = Len(r.todo) - 1
  BY <1>1 DEF Fields
<1>3. \A i \in 1..(Len(r.todo) - 1) : Tail(r.todo)[i] = r.todo[i + 1]
  BY <1>1 DEF Fields
<1>4. Head(r.todo) = r.todo[1]
  BY <1>1 DEF Fields
<1>5. Len(r.todo) - 1 \in Nat
  BY <1>1 DEF Fields
<1> QED BY <1>1, <1>2, <1>3, <1>4, <1>5, IdleFields DEF Done, Fields

LEMMA DoneOK ==
  ASSUME NEW r, NEW n, NEW sw, ProcessOK(r, n, sw), r.todo # <<>>
  PROVE  ProcessOK(Rest(Done(r)), n, sw)
<1>1. Fields(r)
  BY DEF ProcessOK
<1>2. ProcessOK(Done(r), n, sw)
  BY <1>1, DoneFields, SameStores
<1> QED BY <1>2, IdleOK DEF Rest

-----------------------------------------------------------------------------
(* Lemmas: the steps on the stores                                         *)

LEMMA RestBusy ==
  ASSUME NEW r
  PROVE  Busy(Rest(r))
BY DEF Busy, Rest

LEMMA ContinueStores ==
  ASSUME StoresInv, NEW p \in Procs, NEW r, Continue(p, r), r.todo # <<>>,
         switched' \in BOOLEAN, switched => switched',
         ProcessOK(r, serial, switched')
  PROVE  StoresInv'
<1>1. ProcessOK(Rest(Done(r)), serial, switched')
  BY DoneOK
<1>2. \A q \in Procs : ProcessOK(proc'[q], serial, switched') /\ Busy(proc'[q])
  BY <1>1, RestBusy, ProcessGrows DEF StoresInv, Continue
<1>3. \A f \in Files : Whole(disk[f]) => StoreOK(f, disk[f], serial, switched')
  BY StoreGrows DEF StoresInv
<1> QED BY <1>2, <1>3 DEF StoresInv, Continue

LEMMA SaveStores ==
  ASSUME StoresInv, NEW p \in Procs, NEW r, NEW f \in Files, Save(p, r, f), r.todo # <<>>,
         switched' = switched, serial' \in Nat, serial <= serial',
         ProcessOK(r, serial', switched)
  PROVE  StoresInv'
<1> DEFINE q == [Done(r) EXCEPT !.writing = f]
<1>1. Fields(r)
  BY DEF ProcessOK
<1>2. /\ Fields(q) /\ q.writing = f /\ q.mem = r.mem /\ q.empty = r.empty
      /\ q.dir = r.dir /\ q.seen = r.seen /\ q.root = r.root /\ q.midnight = r.midnight
  BY <1>1, DoneFields, IdleFields DEF Fields
<1>3. ProcessOK(q, serial', switched) /\ Busy(q)
  BY <1>2, SameStores, KindsApart DEF Busy
<1>4. \A s \in Procs : ProcessOK(proc'[s], serial', switched') /\ Busy(proc'[s])
  BY <1>3, ProcessGrows DEF StoresInv, Save
<1>5. \A g \in Files : Whole(disk'[g]) => StoreOK(g, disk'[g], serial', switched')
  BY StoreGrows DEF StoresInv, Save, Whole
<1> QED BY <1>4, <1>5 DEF StoresInv, Save

LEMMA ExitStores ==
  ASSUME StoresInv, NEW p \in Procs, Exit(p), switched' = switched
  PROVE  StoresInv'
<1>1. \A s \in Procs : ProcessOK(proc'[s], serial', switched') /\ Busy(proc'[s])
  BY IdleOK DEF StoresInv, Exit, Busy
<1> QED BY <1>1 DEF StoresInv, Exit

LEMMA AtFields ==
  ASSUME StoresInv, NEW p \in Procs, NEW op, At(p, op)
  PROVE  /\ ProcessOK(proc[p], serial, switched)
         /\ ProcessOK(proc[p], Fresh, switched)
         /\ Fields(proc[p]) /\ proc[p].todo # <<>> /\ proc[p].writing = None
         /\ proc[p] # Idle /\ proc[p].todo[1] = op
         /\ proc[p].dir \in Files /\ proc[p].dir \in Dirs
         /\ serial \in Nat /\ Fresh \in Nat /\ Fresh = serial + 1
<1>1. ProcessOK(proc[p], serial, switched) /\ serial \in Nat
  BY DEF StoresInv
<1>2. Fresh \in Nat /\ serial <= Fresh /\ Fresh = serial + 1
  BY <1>1 DEF Fresh
<1>3. ProcessOK(proc[p], Fresh, switched)
  BY <1>1, <1>2, ProcessGrows
<1>4. Fields(proc[p])
  BY <1>1 DEF ProcessOK
<1>5. proc[p].todo # <<>> /\ proc[p].writing = None /\ Head(proc[p].todo) = op
  BY DEF At, Active
<1> QED BY <1>1, <1>2, <1>3, <1>4, <1>5, DoneFields, IdleFields, KindsApart DEF Fields

\* A record under an id just drawn fits everywhere.
LEMMA FreshFits ==
  ASSUME StoresInv, NEW p \in Procs, NEW op, At(p, op), NEW f \in Files, NEW kind, NEW data,
         kind \in KindsOf(f), kind \in Drawn \cup Appended, kind # "midnightCredentials"
  PROVE  Fits(proc[p], f, Rec(kind, Fresh, data), Fresh)
<1> DEFINE rec == Rec(kind, Fresh, data)
<1>1. rec.kind = kind /\ rec.id = Fresh /\ rec.data = data /\ rec = Rec(rec.kind, rec.id, rec.data)
  BY RecFields
<1>2. ProcessOK(proc[p], serial, switched) /\ serial \in Nat /\ Fresh = serial + 1
  BY AtFields
<1>3. RecordOK(f, rec, Fresh)
  BY <1>1, <1>2, KindsApart DEF RecordOK, Drawn, Appended
<1>4. \A x \in proc[p].mem[f] : x.kind \in Drawn => x.id # Fresh
  BY <1>2 DEF ProcessOK, StoreOK, RecordOK
<1>5. kind \notin Scalars /\ kind # "pairwiseIds"
  BY KindsApart DEF Drawn, Appended, Scalars
<1> QED BY <1>1, <1>3, <1>4, <1>5 DEF Fits

LEMMA PublishStores ==
  ASSUME StoresInv, NEW p \in Procs, NEW op, At(p, op), NEW kind, NEW type, NEW d,
         kind \in (Drawn \cup Appended) \cap Collections, kind # "midnightCredentials",
         Publish(p, kind, type, d)
  PROVE  StoresInv'
<1> DEFINE r == proc[p]
           q == Keep(Put(r, r.dir, Rec(kind, Fresh, None)), type, d)
<1>1. /\ ProcessOK(r, Fresh, switched) /\ Fields(r) /\ r.todo # <<>> /\ r.dir \in Files
      /\ r.dir \in Dirs /\ Fresh \in Nat /\ serial <= Fresh
  BY AtFields
<1>2. Fits(r, r.dir, Rec(kind, Fresh, None), Fresh)
  BY <1>1, FreshFits, KindsApart
<1>3. ProcessOK(Put(r, r.dir, Rec(kind, Fresh, None)), Fresh, switched)
  BY <1>1, <1>2, PutOK
<1>4. ProcessOK(q, Fresh, switched)
  BY <1>3, KeepOK
<1>5. q.todo = r.todo
  BY <1>1, <1>3, PutFields, KeepFields DEF ProcessOK
<1>6. Save(p, q, r.dir) /\ serial' = Fresh /\ switched' = switched
  BY DEF Publish, Fresh
<1> QED BY <1>1, <1>4, <1>5, <1>6, SaveStores

\* save<Kind>() of the legacy and demo steps that print nothing.
LEMMA PutStores ==
  ASSUME StoresInv, NEW p \in Procs, NEW op, At(p, op), NEW f \in Files, NEW rec,
         Fits(proc[p], f, rec, serial'), serial' \in {serial, Fresh},
         Save(p, Put(proc[p], f, rec), f), switched' = switched
  PROVE  StoresInv'
<1> DEFINE r == proc[p]
<1>1. /\ ProcessOK(r, serial', switched) /\ Fields(r) /\ r.todo # <<>>
      /\ serial' \in Nat /\ serial <= serial'
  BY AtFields
<1>2. ProcessOK(Put(r, f, rec), serial', switched) /\ Put(r, f, rec).todo = r.todo
  BY <1>1, PutOK, PutFields
<1> QED BY <1>1, <1>2, SaveStores

-----------------------------------------------------------------------------
(* The stores: one lemma per group of actions                              *)

LEMMA AbsentPartial ==
  Absent # Partial /\ ~ Whole(Absent) /\ ~ Whole(Partial)
BY RecFields DEF Absent, Partial, Whole

\* initialize() as a step from process to process.
Reader(p) == Reread(proc[p], disk[proc[p].dir])
Initialized(p) == [Reader(p) EXCEPT !.seen[Reader(p).dir] = Reader(p).mem[Reader(p).dir],
                                    !.loaded = @ \cup {Reader(p).dir}]

LEMMA ReaderFields ==
  ASSUME NEW p \in Procs, Fields(proc[p]), proc[p].dir \in Files
  PROVE  LET r == proc[p]
             f == r.dir
             q == Reader(p)
         IN  /\ DOMAIN q = DOMAIN r /\ q.dir = f /\ q.todo = r.todo /\ q.seen = r.seen
             /\ q.empty = r.empty /\ q.root = r.root /\ q.midnight = r.midnight
             /\ q.loaded = r.loaded /\ q.writing = r.writing /\ q.pairwise = r.pairwise
             /\ q.doc = r.doc /\ q.issuer = r.issuer
             /\ DOMAIN q.mem = Files /\ \A g \in Files : g # f => q.mem[g] = r.mem[g]
             /\ \/ q.mem[f] = r.mem[f]
                \/ q.mem[f] = r.empty
                \/ q.mem[f] = disk[f] /\ Whole(disk[f])
<1> DEFINE r == proc[p]
           f == r.dir
<1>1. CASE disk[f] = Absent
  <2>1. Reader(p) = r
    BY <1>1, AbsentPartial DEF Reader, Reread
  <2> QED BY <2>1 DEF Fields
<1>2. CASE disk[f] = Partial
  <2>1. Reader(p) = [r EXCEPT !.mem[r.dir] = r.empty, !.shared = TRUE]
    BY <1>2, AbsentPartial DEF Reader, Reread
  <2> QED BY <2>1, IdleFields DEF Fields
<1>3. CASE Whole(disk[f])
  <2>1. Reader(p) = [r EXCEPT !.mem[r.dir] = disk[f], !.shared = FALSE]
    BY <1>3 DEF Reader, Reread, Whole
  <2> QED BY <1>3, <2>1, IdleFields DEF Fields
<1> QED BY <1>1, <1>2, <1>3 DEF Whole

LEMMA InitializedFields ==
  ASSUME NEW p \in Procs, Fields(proc[p]), proc[p].dir \in Files
  PROVE  LET r == proc[p]
             f == r.dir
             z == Initialized(p)
         IN  /\ Fields(z) /\ z.dir = f /\ z.todo = r.todo /\ z.loaded = r.loaded \cup {f}
             /\ z.empty = r.empty /\ z.root = r.root /\ z.midnight = r.midnight
             /\ z.writing = r.writing /\ z.pairwise = r.pairwise
             /\ z.doc = r.doc /\ z.issuer = r.issuer
             /\ z.mem[f] = Reader(p).mem[f] /\ z.seen[f] = Reader(p).mem[f]
             /\ \A g \in Files : g # f => z.mem[g] = r.mem[g] /\ z.seen[g] = r.seen[g]
<1> DEFINE r == proc[p]
           f == r.dir
           q == Reader(p)
<1>1. /\ DOMAIN q = DOMAIN r /\ q.dir = f /\ q.todo = r.todo /\ q.seen = r.seen
      /\ q.empty = r.empty /\ q.root = r.root /\ q.midnight = r.midnight
      /\ q.loaded = r.loaded /\ q.writing = r.writing /\ q.pairwise = r.pairwise
      /\ q.doc = r.doc /\ q.issuer = r.issuer
      /\ DOMAIN q.mem = Files /\ \A g \in Files : g # f => q.mem[g] = r.mem[g]
  BY ReaderFields
<1>2. Fields(q)
  BY <1>1 DEF Fields
<1> HIDE DEF q
<1>3. LET z == [q EXCEPT !.seen[q.dir] = q.mem[q.dir], !.loaded = @ \cup {q.dir}]
      IN  /\ Fields(z) /\ z.dir = f /\ z.todo = r.todo /\ z.loaded = r.loaded \cup {f}
          /\ z.empty = r.empty /\ z.root = r.root /\ z.midnight = r.midnight
          /\ z.writing = r.writing /\ z.pairwise = r.pairwise
          /\ z.doc = r.doc /\ z.issuer = r.issuer
          /\ z.mem = q.mem /\ z.seen = [q.seen EXCEPT ![f] = q.mem[f]]
  BY <1>1, <1>2, IdleFields DEF Fields
<1> QED BY <1>1, <1>2, <1>3 DEF Initialized, q, Fields

LEMMA InitializedOK ==
  ASSUME StoresInv, NEW p \in Procs, At(p, "initialize"), NEW sw \in BOOLEAN,
         sw <=> switched \/ Switches(proc[p], Reader(p).mem[proc[p].dir])
  PROVE  ProcessOK(Initialized(p), serial, sw)
<1> DEFINE r == proc[p]
           f == r.dir
           content == Reader(p).mem[f]
           z == Initialized(p)
<1>1. /\ ProcessOK(r, serial, switched) /\ Fields(r) /\ f \in Files /\ f \in Dirs
      /\ serial \in Nat
  BY AtFields
<1>2. ProcessOK(r, serial, sw)
  BY <1>1, ProcessGrows
<1>3. /\ Fields(z) /\ z.dir = f /\ z.empty = r.empty /\ z.root = r.root
      /\ z.midnight = r.midnight
      /\ z.mem[f] = content /\ z.seen[f] = content
      /\ \A g \in Files : g # f => z.mem[g] = r.mem[g] /\ z.seen[g] = r.seen[g]
  BY <1>1, InitializedFields
<1>4. StoreOK(f, content, serial, sw)
  <2>1. CASE content = r.mem[f]
    BY <1>1, <1>2, <2>1 DEF ProcessOK
  <2>2. CASE content = disk[f] /\ Whole(disk[f])
    BY <1>1, <2>2, StoreGrows DEF StoresInv
  <2>3. CASE content = r.empty
    <3>1. \A x \in r.empty : RecordOK(f, x, serial) /\ x.kind \notin Scalars
      BY <1>1, KindsApart DEF ProcessOK, EmptyOK, RecordOK, Dirs
    <3>2. sw \/ Agree(r.empty)
      <4> SUFFICES ASSUME ~sw PROVE Agree(r.empty)
        OBVIOUS
      <4>1. r.root = None /\ r.midnight = None
        BY <2>3, <3>1, RecFields DEF Switches, Scalars
      <4> QED BY <1>1, <4>1 DEF ProcessOK, EmptyOK, Agree
    <3> QED BY <2>3, <3>1, <3>2 DEF StoreOK, OneKey
  <2> QED BY <1>1, ReaderFields, <2>1, <2>2, <2>3
<1>5. HeldOK(z, sw)
  BY <1>3 DEF HeldOK, Switches
<1> QED BY <1>1, <1>2, <1>3, <1>4, <1>5, ReadOK

LEMMA InitializeStores ==
  ASSUME StoresInv, NEW p \in Procs, Initialize(p)
  PROVE  StoresInv'
<1>1. /\ At(p, "initialize") /\ Continue(p, Initialized(p))
      /\ switched' = (switched \/ Switches(proc[p], Reader(p).mem[proc[p].dir]))
  BY DEF Initialize, InitializePersistence, Initialized, Reader
<1>2. switched' \in BOOLEAN /\ (switched => switched')
  BY <1>1 DEF StoresInv
<1>3. ProcessOK(Initialized(p), serial, switched')
  BY <1>1, <1>2, InitializedOK
<1>4. Initialized(p).todo # <<>>
  <2>1. Fields(proc[p]) /\ proc[p].dir \in Files /\ proc[p].todo # <<>>
    BY <1>1, AtFields
  <2> QED BY <2>1, InitializedFields
<1> QED BY <1>1, <1>2, <1>3, <1>4, ContinueStores

LEMMA RootKeyStores ==
  ASSUME StoresInv, NEW p \in Procs, proc[p].root = None, LoadOrGenerateKeys(p)
  PROVE  StoresInv'
<1> DEFINE r == proc[p]
           rec == Rec("rootKeyPair", "root", Fresh)
           fresh == Put(r, r.dir, rec)
<1>0. At(p, "rootKey") /\ switched' = switched
  BY DEF LoadOrGenerateKeys, walletVars
<1>1. /\ ProcessOK(r, serial, switched) /\ ProcessOK(r, Fresh, switched) /\ Fields(r)
      /\ r.todo # <<>> /\ r.dir \in Files /\ r.dir \in Dirs /\ Fresh \in Nat
      /\ serial \in Nat /\ Fresh = serial + 1 /\ switched \in BOOLEAN
  BY <1>0, AtFields DEF StoresInv
<1>2. CASE Has(r, r.dir, "rootKeyPair", "root")
  <2> DEFINE k == DataOf(r, r.dir, "rootKeyPair", "root")
             q == LoadPairwiseIds([r EXCEPT !.root = k])
  <2>1. Rec("rootKeyPair", "root", k) \in r.mem[r.dir] /\ k \in Nat
    BY <1>1, <1>2, KeyOfStore DEF Scalars
  <2>2. ProcessOK([r EXCEPT !.root = k], serial, switched)
    BY <1>1, <2>1, RootTaken
  <2>3. ProcessOK(q, serial, switched) /\ q.todo = r.todo
    BY <1>1, <2>2, PairwiseLoaded, IdleFields DEF LoadPairwiseIds, Fields
  <2> QED BY <1>0, <1>1, <1>2, <2>3, ContinueStores DEF LoadOrGenerateKeys
<1>3. CASE ~ Has(r, r.dir, "rootKeyPair", "root")
  <2> DEFINE q == LoadPairwiseIds([fresh EXCEPT !.root = Fresh])
  <2>1. \A x \in r.mem[r.dir] : x.kind # "rootKeyPair"
    BY <1>1, <1>3, NoKeyOfStore
  <2>2. Fits(r, r.dir, rec, Fresh)
    BY <1>1, <2>1, RecFields, KindsApart DEF Fits, RecordOK, Scalars, Collections, Drawn
  <2>3. /\ fresh.root = r.root /\ fresh.todo = r.todo /\ fresh.dir = r.dir
        /\ fresh.mem[r.dir] = With(r.mem[r.dir], rec)
    BY <1>1, PutFields
  <2>a. ProcessOK(fresh, Fresh, switched) /\ rec \in fresh.mem[fresh.dir]
    BY <1>1, <2>2, <2>3, PutOK DEF With
  <2>4. ProcessOK([fresh EXCEPT !.root = Fresh], Fresh, switched)
    BY <1>1, <2>3, <2>a, RootTaken
  <2>b. Fields(fresh)
    BY <2>a DEF ProcessOK
  <2>5. ProcessOK(q, Fresh, switched) /\ q.todo = r.todo
    BY <2>3, <2>4, <2>b, PairwiseLoaded, IdleFields DEF LoadPairwiseIds, Fields
  <2> QED BY <1>0, <1>1, <1>3, <2>5, SaveStores DEF LoadOrGenerateKeys
<1> QED BY <1>2, <1>3

LEMMA PairwiseStores ==
  ASSUME StoresInv, NEW p \in Procs, proc[p].root # None, GetPairwiseId(p)
  PROVE  StoresInv'
<1> DEFINE r == proc[p]
           a == r.doc["request"].audience
           rec == Rec("pairwiseIds", a, r.root)
           new == Put(r, r.dir, rec)
<1>0. At(p, "pairwise") /\ switched' = switched
  BY DEF GetPairwiseId, walletVars
<1>1. /\ ProcessOK(r, serial, switched) /\ Fields(r) /\ r.todo # <<>> /\ r.dir \in Files
      /\ r.dir \in Dirs /\ serial \in Nat /\ switched \in BOOLEAN
  BY <1>0, AtFields DEF StoresInv
<1>2. CASE r.pairwise[a] # None
  BY <1>0, <1>1, <1>2, ContinueStores DEF GetPairwiseId
<1>3. CASE r.pairwise[a] = None
  <2> DEFINE q == [new EXCEPT !.pairwise[a] = r.root]
  <2>1. Fits(r, r.dir, rec, serial)
    <3>1. rec.kind = "pairwiseIds" /\ rec.data = r.root /\ rec = Rec(rec.kind, rec.id, rec.data)
      BY RecFields
    <3>2. /\ "pairwiseIds" \in KindsOf(r.dir) /\ "pairwiseIds" \notin Scalars
          /\ "pairwiseIds" \notin Drawn
      BY <1>1 DEF KindsOf, Scalars, Collections, Drawn
    <3> HIDE DEF rec, r
    <3> QED BY <1>1, <3>1, <3>2 DEF Fits, RecordOK, r
  <2>2. ProcessOK(new, serial, switched) /\ Fields(new) /\ new.todo = r.todo
    BY <1>1, <2>1, PutOK, PutFields
  <2>3. /\ Fields(q) /\ q.dir = new.dir /\ q.mem = new.mem /\ q.seen = new.seen
        /\ q.empty = new.empty /\ q.root = new.root /\ q.midnight = new.midnight
        /\ q.todo = r.todo
    BY <2>2, IdleFields DEF Fields
  <2>4. ProcessOK(q, serial, switched)
    BY <2>2, <2>3, SameStores
  <2>5. Save(p, q, r.dir) /\ serial' = serial
    BY <1>3 DEF GetPairwiseId
  <2> HIDE DEF q
  <2> QED BY <1>0, <1>1, <2>3, <2>4, <2>5, SaveStores
<1> QED BY <1>2, <1>3

LEMMA RequestsStores ==
  ASSUME StoresInv, NEW p \in Procs,
         \/ CreateRequest(p) \/ CreateConsentGrant(p) \/ CreateConsentGrantWithSigner(p)
         \/ GenerateProof(p) \/ CreateGrant(p) \/ IssueCredential(p)
         \/ GenerateProofFromCredential(p)
  PROVE  StoresInv'
<1>1. CASE CreateRequest(p)
  BY <1>1, PublishStores DEF CreateRequest, Drawn, Appended, Collections
<1>2. CASE CreateConsentGrant(p)
  BY <1>2, PublishStores DEF CreateConsentGrant, Drawn, Appended, Collections
<1>3. CASE CreateConsentGrantWithSigner(p)
  BY <1>3, PublishStores, ExitStores
     DEF CreateConsentGrantWithSigner, walletVars, Drawn, Appended, Collections
<1>4. CASE GenerateProof(p)
  BY <1>4, PublishStores DEF GenerateProof, Drawn, Appended, Collections
<1>5. CASE CreateGrant(p)
  BY <1>5, PublishStores DEF CreateGrant, Drawn, Appended, Collections
<1>6. CASE IssueCredential(p)
  BY <1>6, PublishStores DEF IssueCredential, Drawn, Appended, Collections
<1>7. CASE GenerateProofFromCredential(p)
  BY <1>7, PublishStores DEF GenerateProofFromCredential, Drawn, Appended, Collections
<1> QED BY <1>1, <1>2, <1>3, <1>4, <1>5, <1>6, <1>7

\* A step that goes on as it is, or ends the process.
LEMMA PlainStores ==
  ASSUME StoresInv, NEW p \in Procs, NEW op, At(p, op), switched' = switched,
         Continue(p, proc[p]) \/ Exit(p)
  PROVE  StoresInv'
<1>1. ProcessOK(proc[p], serial, switched) /\ proc[p].todo # <<>> /\ switched \in BOOLEAN
  BY AtFields DEF StoresInv
<1> QED BY <1>1, ContinueStores, ExitStores

LEMMA KeepStores ==
  ASSUME StoresInv, NEW p \in Procs, NEW op, At(p, op), switched' = switched,
         NEW type, NEW d, Continue(p, Keep(proc[p], type, d))
  PROVE  StoresInv'
<1>1. /\ ProcessOK(proc[p], serial, switched) /\ Fields(proc[p])
      /\ proc[p].todo # <<>> /\ switched \in BOOLEAN
  BY AtFields DEF StoresInv
<1>2. ProcessOK(Keep(proc[p], type, d), serial, switched)
      /\ Keep(proc[p], type, d).todo = proc[p].todo
  BY <1>1, KeepOK, KeepFields
<1> QED BY <1>1, <1>2, ContinueStores

LEMMA ChecksStores ==
  ASSUME StoresInv, NEW p \in Procs,
         \/ CheckGrant(p) \/ VerifyCredential(p) \/ FindCredential(p) \/ CheckCredential(p)
         \/ LoadCredential(p) \/ Encrypt(p) \/ Decrypt(p)
         \/ LaceInit(p) \/ LaceConnect(p) \/ LaceAddresses(p) \/ LaceSign(p) \/ cleanup(p)
  PROVE  StoresInv'
<1> USE DEF walletVars, deckVars
<1>1. CASE CheckGrant(p)
  BY <1>1, PlainStores DEF CheckGrant
<1>2. CASE VerifyCredential(p)
  BY <1>2, PlainStores DEF VerifyCredential
<1>3. CASE FindCredential(p)
  BY <1>3, PlainStores, KeepStores DEF FindCredential
<1>4. CASE CheckCredential(p)
  BY <1>4, PlainStores DEF CheckCredential
<1>5. CASE LoadCredential(p)
  BY <1>5, PlainStores, KeepStores DEF LoadCredential
<1>6. CASE Encrypt(p) \/ Decrypt(p)
  BY <1>6, PlainStores DEF Encrypt, Decrypt
<1>7. CASE LaceInit(p) \/ LaceAddresses(p) \/ LaceSign(p)
  BY <1>7, PlainStores DEF LaceInit, LaceAddresses, LaceSign
<1>8. CASE LaceConnect(p)
  BY <1>8, KeepStores DEF LaceConnect
<1>9. CASE cleanup(p)
  BY <1>9, PlainStores DEF cleanup
<1> QED BY <1>1, <1>2, <1>3, <1>4, <1>5, <1>6, <1>7, <1>8, <1>9

\* The checks pipeline goes to its end when a check fails.
LEMMA CheckFails ==
  ASSUME StoresInv, NEW p \in Procs, NEW op, At(p, op), switched' = switched,
         proc' = [proc EXCEPT ![p].todo = <<"cleanup">>], UNCHANGED <<disk, serial, last>>
  PROVE  StoresInv'
<1> DEFINE q == [proc[p] EXCEPT !.todo = <<"cleanup">>]
<1>1. ProcessOK(proc[p], serial, switched) /\ Fields(proc[p])
  BY AtFields
<1>2. /\ Fields(q) /\ q.todo = <<"cleanup">> /\ q.dir = proc[p].dir /\ q.mem = proc[p].mem
      /\ q.seen = proc[p].seen /\ q.empty = proc[p].empty /\ q.root = proc[p].root
      /\ q.midnight = proc[p].midnight
  BY <1>1, IdleFields DEF Fields
<1>3. q.todo # <<>>
  BY <1>2
<1> HIDE DEF q
<1>4. ProcessOK(q, serial, switched) /\ Busy(q)
  BY <1>1, <1>2, <1>3, SameStores DEF Busy
<1> QED BY <1>4 DEF StoresInv, q

LEMMA PipelineStores ==
  ASSUME StoresInv, NEW p \in Procs, CheckStep(p)
  PROVE  StoresInv'
<1>1. ASSUME NEW op, NEW kind, Check(p, op, kind),
             kind \in {"identities", "anchors", "decks", "grants", "proofs", "receipts"}
      PROVE  StoresInv'
  <2> DEFINE r == proc[p]
             rec == Rec(kind, Fresh, None)
  <2>1. At(p, op) /\ switched' = switched
    BY <1>1 DEF Check, walletVars
  <2>2. r.dir \in Files /\ r.dir \in Dirs
    BY <2>1, AtFields
  <2>3. Fits(r, r.dir, rec, Fresh)
    BY <1>1, <2>1, <2>2, FreshFits, KindsApart DEF Drawn, Appended, Collections
  <2>4. CASE Save(p, Put(r, r.dir, rec), r.dir) /\ serial' = serial + 1
    BY <2>1, <2>2, <2>3, <2>4, PutStores DEF Fresh
  <2>5. CASE proc' = [proc EXCEPT ![p].todo = <<"cleanup">>] /\ UNCHANGED <<disk, serial, last>>
    BY <2>1, <2>5, CheckFails
  <2> QED BY <1>1, <2>4, <2>5 DEF Check
<1>2. CASE checkOnly(p)
  BY <1>2, PlainStores, CheckFails DEF checkOnly, walletVars
<1>3. CASE cleanup(p)
  BY <1>3, ChecksStores
<1> QED BY <1>1, <1>2, <1>3
     DEF CheckStep, checkIdentity, checkAnchor, checkDeck, checkGrant, checkProof, checkReceipt

LEMMA SavingStores ==
  ASSUME StoresInv, NEW p \in Procs,
         \/ SubmitReceipt(p) \/ GetOrCreateLocalSigner(p) \/ LoadOrGenerateIssuerKey(p)
         \/ AnchorCredential(p)
  PROVE  StoresInv'
<1> USE DEF walletVars
<1> DEFINE r == proc[p]
<1>1. CASE SubmitReceipt(p)
  <2> DEFINE rec == Rec("receipts", Fresh, None)
  <2>1. At(p, "submitReceipt") /\ switched' = switched
    BY <1>1 DEF SubmitReceipt
  <2>2. r.dir \in Files /\ r.dir \in Dirs
    BY <2>1, AtFields
  <2>3. Fits(r, r.dir, rec, Fresh)
    BY <2>1, <2>2, FreshFits, KindsApart DEF Drawn, Appended, Collections
  <2> QED BY <1>1, <2>1, <2>2, <2>3, PutStores, PlainStores DEF SubmitReceipt, Fresh
<1>2. CASE GetOrCreateLocalSigner(p)
  <2> DEFINE rec == Rec("localKeys", "default", Fresh)
  <2>1. At(p, "localSigner") /\ switched' = switched
    BY <1>2 DEF GetOrCreateLocalSigner
  <2>2. r.dir \in Files /\ r.dir \in Dirs
    BY <2>1, AtFields
  <2>3. ~ Has(r, r.dir, "localKeys", "default") => Fits(r, r.dir, rec, Fresh)
    BY <2>2, RecFields, KindsApart
       DEF Fits, Has, Get, RecordOK, Collections, Drawn, Scalars
  <2> QED BY <1>2, <2>1, <2>2, <2>3, PutStores, PlainStores DEF GetOrCreateLocalSigner, Fresh
<1>3. CASE LoadOrGenerateIssuerKey(p)
  <2>1. At(p, "issuerKey") /\ switched' = switched
    BY <1>3 DEF LoadOrGenerateIssuerKey
  <2>2. /\ ProcessOK(r, serial, switched) /\ ProcessOK(r, Fresh, switched) /\ Fields(r)
        /\ r.todo # <<>> /\ r.dir \in Files /\ r.dir \in Dirs /\ switched \in BOOLEAN
        /\ serial \in Nat /\ Fresh \in Nat /\ Fresh = serial + 1
    BY <2>1, AtFields DEF StoresInv
  <2>3. ASSUME NEW q, NEW n \in Nat, NEW key, ProcessOK(q, n, switched)
        PROVE  /\ ProcessOK([q EXCEPT !.issuer = key], n, switched)
               /\ [q EXCEPT !.issuer = key].todo = q.todo
    <3>1. Fields(q)
      BY <2>3 DEF ProcessOK
    <3>2. LET z == [q EXCEPT !.issuer = key]
          IN  /\ Fields(z) /\ z.dir = q.dir /\ z.mem = q.mem /\ z.seen = q.seen /\ z.empty = q.empty
              /\ z.root = q.root /\ z.midnight = q.midnight /\ z.todo = q.todo
      BY <3>1, IdleFields DEF Fields
    <3> QED BY <2>3, <3>2, SameStores
  <2>4. CASE Has(r, r.dir, "issuerKeys", "default")
    <3>1. PICK key : Continue(p, [r EXCEPT !.issuer = key])
      BY <1>3, <2>4 DEF LoadOrGenerateIssuerKey
    <3> QED BY <2>1, <2>2, <2>3, <3>1, ContinueStores
  <2>5. CASE ~ Has(r, r.dir, "issuerKeys", "default")
    <3> DEFINE rec == Rec("issuerKeys", "default", Fresh)
               q == Put(r, r.dir, rec)
               z == [q EXCEPT !.issuer = Fresh]
    <3>1. Fits(r, r.dir, rec, Fresh)
      BY <2>2, <2>5, RecFields, KindsApart
         DEF Fits, Has, Get, RecordOK, Collections, Drawn, Scalars
    <3>2. ProcessOK(q, Fresh, switched) /\ q.todo = r.todo
      BY <2>2, <3>1, PutOK, PutFields
    <3>3. Save(p, z, r.dir) /\ serial' = Fresh
      BY <1>3, <2>5 DEF LoadOrGenerateIssuerKey, Fresh
    <3> HIDE DEF q
    <3>4. ProcessOK(z, Fresh, switched) /\ z.todo = r.todo
      BY <2>2, <2>3, <3>2
    <3> HIDE DEF z
    <3> QED BY <2>1, <2>2, <3>3, <3>4, SaveStores
  <2> QED BY <2>4, <2>5
<1>4. CASE AnchorCredential(p)
  <2> DEFINE rec == Rec("anchors", r.doc["credential"].id, Fresh)
  <2>1. At(p, "anchorCredential") /\ switched' = switched
    BY <1>4 DEF AnchorCredential
  <2>2. r.dir \in Files /\ r.dir \in Dirs
    BY <2>1, AtFields
  <2>3. Fits(r, r.dir, rec, Fresh)
    BY <2>2, RecFields, KindsApart DEF Fits, RecordOK, Collections, Drawn, Scalars, Appended
  <2> QED BY <1>4, <2>1, <2>2, <2>3, PutStores DEF AnchorCredential, Fresh
<1> QED BY <1>1, <1>2, <1>3, <1>4

LEMMA MidnightKeyStores ==
  ASSUME StoresInv, NEW p \in Procs, InitMidnight(p)
  PROVE  StoresInv'
<1> DEFINE r == proc[p]
           rec == Rec("midnightKey", "key", Fresh)
           q == Put(r, r.dir, rec)
<1>0. At(p, "midnightKey") /\ switched' = switched
  BY DEF InitMidnight, walletVars
<1>1. /\ ProcessOK(r, serial, switched) /\ ProcessOK(r, Fresh, switched) /\ Fields(r)
      /\ r.todo # <<>> /\ r.dir \in Files /\ r.dir \in Dirs /\ Fresh \in Nat
      /\ serial \in Nat /\ Fresh = serial + 1 /\ switched \in BOOLEAN
  BY <1>0, AtFields DEF StoresInv
<1>2. CASE Has(r, r.dir, "midnightKey", "key")
  <2> DEFINE k == DataOf(r, r.dir, "midnightKey", "key")
  <2>1. Rec("midnightKey", "key", k) \in r.mem[r.dir] /\ k \in Nat
    BY <1>1, <1>2, KeyOfStore DEF Scalars
  <2>2. ProcessOK([r EXCEPT !.midnight = k], serial, switched)
    BY <1>1, <2>1, MidnightTaken
  <2>3. [r EXCEPT !.midnight = k].todo = r.todo
    BY <1>1, IdleFields DEF Fields
  <2> QED BY <1>0, <1>1, <1>2, <2>2, <2>3, ContinueStores DEF InitMidnight
<1>3. CASE ~ Has(r, r.dir, "midnightKey", "key")
  <2>1. \A x \in r.mem[r.dir] : x.kind # "midnightKey"
    BY <1>1, <1>3, NoKeyOfStore
  <2>2. Fits(r, r.dir, rec, Fresh)
    BY <1>1, <2>1, RecFields, KindsApart DEF Fits, RecordOK, Scalars, Collections, Drawn
  <2>3. /\ q.todo = r.todo /\ q.dir = r.dir /\ q.mem[r.dir] = With(r.mem[r.dir], rec)
    BY <1>1, PutFields
  <2>4. ProcessOK(q, Fresh, switched) /\ rec \in q.mem[q.dir]
    BY <1>1, <2>2, <2>3, PutOK DEF With
  <2> DEFINE z == [q EXCEPT !.midnight = Fresh]
  <2>5. Save(p, z, r.dir) /\ serial' = Fresh
    BY <1>3 DEF InitMidnight, Fresh
  <2> HIDE DEF q
  <2>6. ProcessOK(z, Fresh, switched)
    BY <1>1, <2>4, MidnightTaken
  <2>7. z.todo = r.todo
    BY <2>3, <2>4, IdleFields DEF ProcessOK, Fields
  <2> HIDE DEF z
  <2> QED BY <1>0, <1>1, <2>5, <2>6, <2>7, SaveStores
<1> QED BY <1>2, <1>3

LEMMA StoreCredentialStores ==
  ASSUME StoresInv, NEW p \in Procs, proc[p].midnight # None, StoreCredential(p)
  PROVE  StoresInv'
<1> DEFINE r == proc[p]
           rec == Rec("midnightCredentials", Fresh, r.midnight)
           ref == Ref(Fresh, r.doc["credential"])
           q == Put(r, r.dir, rec)
<1>0. At(p, "storeCredential") /\ switched' = switched
  BY DEF StoreCredential
<1>1. /\ ProcessOK(r, serial, switched) /\ ProcessOK(r, Fresh, switched) /\ Fields(r)
      /\ r.todo # <<>> /\ r.dir \in Files /\ r.dir \in Dirs /\ Fresh \in Nat
      /\ serial \in Nat /\ Fresh = serial + 1 /\ switched \in BOOLEAN
  BY <1>0, AtFields DEF StoresInv
<1>2. \A x \in r.mem[r.dir] : x.kind = "midnightCredentials" => x.id # Fresh
  BY <1>1 DEF ProcessOK, StoreOK, RecordOK, Drawn
<1>3. Fits(r, r.dir, rec, Fresh)
  BY <1>1, <1>2, RecFields, KindsApart
     DEF Fits, RecordOK, Scalars, Collections, Drawn
<1>4. ProcessOK(q, Fresh, switched) /\ Fields(q) /\ q.todo = r.todo
  BY <1>1, <1>3, PutOK, PutFields
<1>5. ProcessOK(Keep(q, "ref", ref), Fresh, switched) /\ Keep(q, "ref", ref).todo = r.todo
  BY <1>4, KeepOK, KeepFields
<1>6. Save(p, Keep(q, "ref", ref), r.dir) /\ serial' = Fresh
  BY DEF StoreCredential, Fresh
<1> HIDE DEF q
<1> QED BY <1>0, <1>1, <1>5, <1>6, SaveStores

\* The files that are not a wallet's: records are added to them, or all go.
LEMMA GrowOK ==
  ASSUME NEW r, NEW q, NEW n, NEW sw, NEW f \in Files \ Dirs, NEW recs,
         ProcessOK(r, n, sw), \A x \in recs : RecordOK(f, x, n), Fields(q),
         q.dir = r.dir, q.empty = r.empty, q.root = r.root, q.midnight = r.midnight,
         q.mem[f] = r.mem[f] \cup recs, q.seen = r.seen,
         \A g \in Files : g # f => q.mem[g] = r.mem[g]
  PROVE  ProcessOK(q, n, sw)
<1>1. \A x \in q.mem[f] : RecordOK(f, x, n)
  BY DEF ProcessOK, StoreOK
<1>2. \A x \in q.mem[f] : /\ x.kind \notin Scalars
                          /\ x.kind \notin {"pairwiseIds", "midnightCredentials"}
  BY <1>1, KindsApart DEF RecordOK, KindsOf, Scalars, Collections
<1>3. StoreOK(f, q.mem[f], n, sw)
  BY <1>1, <1>2 DEF StoreOK, OneKey, Agree
<1>4. HeldOK(q, sw) /\ q.dir # f
  BY KindsApart DEF ProcessOK, HeldOK, Fields
<1>5. KeptOK(q, sw)
  BY DEF ProcessOK, KeptOK
<1>6. EmptyOK(q, n, sw)
  BY DEF ProcessOK, EmptyOK
<1> QED BY <1>3, <1>4, <1>5, <1>6 DEF ProcessOK

LEMMA OtherFiles ==
  /\ "replay" \in Files \ Dirs /\ "decks" \in Files \ Dirs /\ "didMap" \in Files \ Dirs
  /\ KindsOf("replay") = {"keys"} /\ KindsOf("didMap") = {"entries"}
  /\ KindsOf("decks") = Permissions \cup {"instances"}
BY DEF Files, Dirs, KindsOf

\* A process that has asked for one of them.
LEMMA AskedFor ==
  ASSUME StoresInv, NEW p \in Procs, NEW op, At(p, op), NEW f \in Files \ Dirs
  PROVE  LET r == Loaded(proc[p], f)
         IN  /\ ProcessOK(r, serial, switched) /\ ProcessOK(r, Fresh, switched)
             /\ Fields(r) /\ r.todo = proc[p].todo /\ r.todo # <<>>
             /\ f \in Files /\ r.dir \in Files /\ r.dir \in Dirs
             /\ serial \in Nat /\ Fresh \in Nat /\ Fresh = serial + 1
             /\ switched \in BOOLEAN
<1>1. /\ ProcessOK(proc[p], serial, switched) /\ Fields(proc[p]) /\ proc[p].todo # <<>>
      /\ serial \in Nat /\ Fresh \in Nat /\ Fresh = serial + 1 /\ switched \in BOOLEAN
  BY AtFields DEF StoresInv
<1> DEFINE r == Loaded(proc[p], f)
<1>2. ProcessOK(r, serial, switched) /\ r.todo = proc[p].todo
  BY <1>1, LoadedOK, LoadedFields
<1> HIDE DEF r
<1>3. ProcessOK(r, Fresh, switched) /\ Fields(r)
  BY <1>1, <1>2, ProcessGrows DEF ProcessOK
<1> QED BY <1>1, <1>2, <1>3, KindsApart DEF r, Fields

LEMMA ReplayStores ==
  ASSUME StoresInv, NEW p \in Procs, Verify(p) \/ ClearReplayCache(p)
  PROVE  StoresInv'
<1> DEFINE r == Loaded(proc[p], "replay")
<1>0. (At(p, "verify") \/ At(p, "clearReplay")) /\ switched' = switched
  BY DEF Verify, ClearReplayCache
<1>1. /\ ProcessOK(r, serial, switched) /\ Fields(r) /\ r.todo # <<>>
      /\ serial \in Nat /\ switched \in BOOLEAN /\ "replay" \in Files
  BY <1>0, AskedFor, OtherFiles
<1> HIDE DEF r
<1>2. CASE Continue(p, r)
  BY <1>0, <1>1, <1>2, ContinueStores
<1>3. ASSUME NEW k, k = ReplayRec(proc[p].doc["proof"]), serial' = serial,
             Save(p, [r EXCEPT !.mem["replay"] = @ \cup {k}], "replay")
      PROVE  StoresInv'
  <2> DEFINE q == [r EXCEPT !.mem["replay"] = @ \cup {k}]
  <2> DEFINE recs == {k}
  <2>1. \A x \in recs : RecordOK("replay", x, serial)
    <3>1. PICK id, data : k = Rec("keys", id, data)
      BY <1>3 DEF ReplayRec
    <3> QED BY <3>1, OtherFiles, RecFields, KindsApart DEF RecordOK, Drawn
  <2>2. /\ Fields(q) /\ q.dir = r.dir /\ q.empty = r.empty /\ q.root = r.root
        /\ q.midnight = r.midnight /\ q.seen = r.seen /\ q.todo = r.todo
        /\ q.mem["replay"] = r.mem["replay"] \cup recs
        /\ \A g \in Files : g # "replay" => q.mem[g] = r.mem[g]
    BY <1>1, IdleFields DEF Fields
  <2>3. Save(p, q, "replay")
    BY <1>3
  <2> HIDE DEF q, recs
  <2>4. ProcessOK(q, serial, switched)
    BY <1>1, <2>1, <2>2, GrowOK, OtherFiles
  <2> QED BY <1>0, <1>1, <1>3, <2>2, <2>3, <2>4, SaveStores
<1>4. ASSUME Save(p, [r EXCEPT !.mem["replay"] = {}, !.seen["replay"] = {}], "replay"),
             serial' = serial
      PROVE  StoresInv'
  <2> DEFINE q == [r EXCEPT !.mem["replay"] = {}, !.seen["replay"] = {}]
  <2>1. /\ Fields(q) /\ q.dir = r.dir /\ q.empty = r.empty /\ q.root = r.root
        /\ q.midnight = r.midnight /\ q.todo = r.todo
        /\ q.mem["replay"] = {} /\ q.seen["replay"] = {}
        /\ \A g \in Files : g # "replay" => q.mem[g] = r.mem[g] /\ q.seen[g] = r.seen[g]
    BY <1>1, IdleFields DEF Fields
  <2>2. Save(p, q, "replay")
    BY <1>4
  <2> HIDE DEF q
  <2>3. HeldOK(q, switched)
    BY <1>1, <2>1, OtherFiles, KindsApart DEF ProcessOK, HeldOK, Fields
  <2>4. ProcessOK(q, serial, switched)
    BY <1>1, <2>1, <2>3, EmptyStoreOK, ReadOK
  <2> QED BY <1>0, <1>1, <1>4, <2>1, <2>2, <2>4, SaveStores
<1> QED BY <1>2, <1>3, <1>4 DEF Verify, ClearReplayCache, r

LEMMA DidStores ==
  ASSUME StoresInv, NEW p \in Procs, GetOrCreateDid(p)
  PROVE  StoresInv'
<1> DEFINE r == Loaded(proc[p], "didMap")
           k == Rec("entries", r.doc["ask"].audience, r.root)
           q == [r EXCEPT !.mem["didMap"] = @ \cup {k}]
<1>0. At(p, "pairwiseDid") /\ switched' = switched
  BY DEF GetOrCreateDid, deckVars, walletVars
<1>1. /\ ProcessOK(r, serial, switched) /\ Fields(r) /\ r.todo # <<>>
      /\ serial \in Nat /\ switched \in BOOLEAN /\ "didMap" \in Files
  BY <1>0, AskedFor, OtherFiles
<1>2. Continue(p, r) \/ (Save(p, q, "didMap") /\ serial' = serial)
  BY DEF GetOrCreateDid
<1> HIDE DEF r
<1> DEFINE recs == {k}
<1>3. \A x \in recs : RecordOK("didMap", x, serial)
  BY OtherFiles, RecFields, KindsApart DEF RecordOK, Drawn
<1>4. /\ Fields(q) /\ q.dir = r.dir /\ q.empty = r.empty /\ q.root = r.root
      /\ q.midnight = r.midnight /\ q.seen = r.seen /\ q.todo = r.todo
      /\ q.mem["didMap"] = r.mem["didMap"] \cup recs
      /\ \A g \in Files : g # "didMap" => q.mem[g] = r.mem[g]
  BY <1>1, IdleFields DEF Fields
<1> HIDE DEF q, recs
<1>5. ProcessOK(q, serial, switched)
  BY <1>1, <1>3, <1>4, GrowOK, OtherFiles
<1> QED BY <1>0, <1>1, <1>2, <1>4, <1>5, ContinueStores, SaveStores

LEMMA DeckReadsStores ==
  ASSUME StoresInv, NEW p \in Procs, DeckList(p) \/ DeckShow(p) \/ DeckExport(p)
  PROVE  StoresInv'
<1> DEFINE r == Loaded(proc[p], "decks")
<1>0. /\ At(p, "deckList") \/ At(p, "deckShow") \/ At(p, "deckExport")
      /\ switched' = switched
  BY DEF DeckList, DeckShow, DeckExport, deckVars, walletVars
<1>1. ProcessOK(r, serial, switched) /\ r.todo # <<>> /\ switched \in BOOLEAN
  BY <1>0, AskedFor, OtherFiles
<1>2. Continue(p, r) \/ Exit(p)
  BY DEF DeckList, DeckShow, DeckExport
<1> HIDE DEF r
<1> QED BY <1>0, <1>1, <1>2, ContinueStores, ExitStores

LEMMA DeckCreateStores ==
  ASSUME StoresInv, NEW p \in Procs, DeckCreate(p)
  PROVE  StoresInv'
<1> DEFINE r == Loaded(proc[p], "decks")
           deck == r.doc["deck"].id
           instance == [type |-> "instance", id |-> Fresh, deck |-> deck]
           rec == Rec("instances", Fresh, deck)
           q == Put(r, "decks", rec)
           z == Keep(q, "instance", instance)
<1>0. At(p, "deckCreate") /\ switched' = switched
  BY DEF DeckCreate, walletVars
<1>1. /\ ProcessOK(r, serial, switched) /\ ProcessOK(r, Fresh, switched) /\ Fields(r)
      /\ r.todo # <<>> /\ Fresh \in Nat /\ "decks" \in Files
      /\ serial \in Nat /\ Fresh = serial + 1 /\ switched \in BOOLEAN
  BY <1>0, AskedFor, OtherFiles
<1>2. (Save(p, z, "decks") /\ serial' = Fresh) \/ Exit(p)
  BY DEF DeckCreate, Fresh
<1> HIDE DEF r
<1>3. \A x \in r.mem["decks"] : x.kind = "instances" => x.id # Fresh
  BY <1>1 DEF ProcessOK, StoreOK, RecordOK, Drawn
<1>4. RecordOK("decks", rec, Fresh)
  BY <1>1, RecFields, OtherFiles DEF RecordOK
<1>5. Fits(r, "decks", rec, Fresh)
  BY <1>1, <1>3, <1>4, RecFields DEF Fits, Scalars
<1>6. ProcessOK(q, Fresh, switched) /\ Fields(q) /\ q.todo = r.todo
  BY <1>1, <1>5, PutOK, PutFields
<1> HIDE DEF q
<1>7. ProcessOK(z, Fresh, switched) /\ z.todo = r.todo
  BY <1>6, KeepOK, KeepFields
<1> HIDE DEF z
<1> QED BY <1>0, <1>1, <1>2, <1>7, SaveStores, ExitStores

LEMMA AddSourceStores ==
  ASSUME StoresInv, NEW p \in Procs, DeckAddSource(p)
  PROVE  StoresInv'
<1> DEFINE r == Loaded(proc[p], "decks")
           source == r.doc["source"]
           rec == Rec(source.permission, r.doc["instance"].id, source.ref)
           q == Put(r, "decks", rec)
<1>0. At(p, "addSource") /\ switched' = switched
  BY DEF DeckAddSource, deckVars, walletVars
<1>1. /\ ProcessOK(r, serial, switched) /\ Fields(r)
      /\ r.todo # <<>> /\ "decks" \in Files /\ serial \in Nat /\ switched \in BOOLEAN
  BY <1>0, AskedFor, OtherFiles
<1>2. CASE Exit(p)
  BY <1>0, <1>2, ExitStores
<1>3. CASE ~ Exit(p)
  <2>1. /\ Save(p, q, "decks") /\ serial' = serial
        /\ source.permission \in Defined(r.doc["instance"].deck)
    BY <1>3 DEF DeckAddSource
  <2>2. source.permission \in Permissions
    BY <2>1, DeckAssumption DEF Defined
  <2> HIDE DEF r
  <2>3. Fits(r, "decks", rec, serial)
    <3>1. rec.kind = source.permission /\ rec = Rec(rec.kind, rec.id, rec.data)
      BY RecFields
    <3>2. rec.kind \in Permissions /\ "decks" \in Files /\ rec.kind \in KindsOf("decks")
      BY <2>2, <3>1, OtherFiles
    <3>3. /\ rec.kind \notin Scalars /\ rec.kind \notin Collections /\ rec.kind \notin Drawn
          /\ "pairwiseIds" \in Collections /\ "midnightCredentials" \in Collections
          /\ "rootKeyPair" \in Scalars /\ "midnightKey" \in Scalars
      BY <3>2, KindsApart DEF Scalars, Collections
    <3> HIDE DEF rec
    <3> QED BY <3>1, <3>2, <3>3 DEF Fits, RecordOK
  <2>4. ProcessOK(q, serial, switched) /\ q.todo = r.todo
    BY <1>1, <2>3, PutOK, PutFields
  <2> HIDE DEF q
  <2> QED BY <1>0, <1>1, <2>1, <2>4, SaveStores
<1> QED BY <1>2, <1>3

LEMMA ImportStores ==
  ASSUME StoresInv, NEW p \in Procs, DeckImport(p),
         \A x \in proc[p].doc["export"].sources :
            x = Rec(x.kind, x.id, x.data) /\ x.kind \in Permissions
  PROVE  StoresInv'
<1> DEFINE r == Loaded(proc[p], "decks")
           sources == {[x EXCEPT !.id = r.doc["instance"].id] : x \in r.doc["export"].sources}
           q == [r EXCEPT !.mem["decks"] = @ \cup sources]
<1>0. At(p, "importSources") /\ switched' = switched
  BY DEF DeckImport, deckVars, walletVars
<1>1. /\ ProcessOK(r, serial, switched) /\ Fields(r) /\ r.todo # <<>>
      /\ serial \in Nat /\ switched \in BOOLEAN /\ "decks" \in Files
  BY <1>0, AskedFor, OtherFiles
<1>2. Continue(p, r) \/ (Save(p, q, "decks") /\ serial' = serial)
  BY DEF DeckImport
<1>3. r.doc = proc[p].doc
  BY <1>0, AtFields, LoadedFields, OtherFiles
<1> HIDE DEF r
<1>4. \A x \in sources : RecordOK("decks", x, serial)
  <2> SUFFICES ASSUME NEW y \in r.doc["export"].sources
               PROVE  RecordOK("decks", [y EXCEPT !.id = r.doc["instance"].id], serial)
    OBVIOUS
  <2>1. y = Rec(y.kind, y.id, y.data) /\ y.kind \in Permissions
    BY <1>3
  <2>2. [y EXCEPT !.id = r.doc["instance"].id] = Rec(y.kind, r.doc["instance"].id, y.data)
    BY <2>1 DEF Rec
  <2> QED BY <2>1, <2>2, RecFields, OtherFiles, KindsApart DEF RecordOK, Scalars
<1>5. /\ Fields(q) /\ q.dir = r.dir /\ q.empty = r.empty /\ q.root = r.root
      /\ q.midnight = r.midnight /\ q.seen = r.seen /\ q.todo = r.todo
      /\ q.mem["decks"] = r.mem["decks"] \cup sources
      /\ \A g \in Files : g # "decks" => q.mem[g] = r.mem[g]
  BY <1>1, IdleFields DEF Fields
<1> HIDE DEF q, sources
<1>6. ProcessOK(q, serial, switched)
  BY <1>1, <1>4, <1>5, GrowOK, OtherFiles
<1> QED BY <1>0, <1>1, <1>2, <1>5, <1>6, ContinueStores, SaveStores

LEMMA CreateProofStores ==
  ASSUME StoresInv, NEW p \in Procs, CreateProof(p)
  PROVE  StoresInv'
<1> DEFINE r == IF Holds(proc[p], "instance") THEN Loaded(proc[p], "decks") ELSE proc[p]
           rec == Rec("proofs", Fresh, None)
           q == Put(r, r.dir, rec)
<1>0. At(p, "createProof") /\ switched' = switched
  BY DEF CreateProof, walletVars
<1>1. /\ ProcessOK(r, Fresh, switched) /\ Fields(r) /\ r.todo # <<>>
      /\ Fresh \in Nat /\ r.dir \in Files /\ r.dir \in Dirs
      /\ serial \in Nat /\ Fresh = serial + 1 /\ switched \in BOOLEAN
  BY <1>0, AskedFor, AtFields, OtherFiles DEF StoresInv
<1>2. PICK proof : (Save(p, Keep(q, "proof", proof), r.dir) /\ serial' = Fresh) \/ Exit(p)
  BY DEF CreateProof, Fresh
<1> HIDE DEF r
<1>3. Fits(r, r.dir, rec, Fresh)
  BY <1>1, RecFields, KindsApart DEF Fits, RecordOK, Appended, Drawn, Scalars, Collections
<1>4. ProcessOK(q, Fresh, switched) /\ Fields(q) /\ q.todo = r.todo
  BY <1>1, <1>3, PutOK, PutFields
<1> HIDE DEF q
<1>5. ProcessOK(Keep(q, "proof", proof), Fresh, switched)
      /\ Keep(q, "proof", proof).todo = r.todo
  BY <1>4, KeepOK, KeepFields
<1> QED BY <1>0, <1>1, <1>2, <1>5, SaveStores, ExitStores

LEMMA DeleteStores ==
  ASSUME StoresInv, NEW p \in Procs, DeleteCredential(p)
  PROVE  StoresInv'
<1> DEFINE r == proc[p]
           f == r.dir
           gone == {x \in r.mem[f] : x.kind = "midnightCredentials" /\ x.id = r.doc["ref"].id}
           q == [r EXCEPT !.mem[r.dir] = @ \ gone, !.seen[r.dir] = @ \ gone]
<1>0. At(p, "deleteCredential") /\ switched' = switched
  BY DEF DeleteCredential, walletVars
<1>1. /\ ProcessOK(r, serial, switched) /\ Fields(r) /\ r.todo # <<>>
      /\ f \in Files /\ f \in Dirs /\ serial \in Nat /\ switched \in BOOLEAN
  BY <1>0, AtFields DEF StoresInv
<1>2. Save(p, q, f) /\ serial' = serial
  BY DEF DeleteCredential
<1>3. /\ Fields(q) /\ q.dir = r.dir /\ q.empty = r.empty /\ q.root = r.root
      /\ q.midnight = r.midnight /\ q.todo = r.todo
      /\ q.mem[f] = r.mem[f] \ gone /\ q.seen[f] = r.seen[f] \ gone
      /\ \A g \in Files : g # f => q.mem[g] = r.mem[g] /\ q.seen[g] = r.seen[g]
  BY <1>1, IdleFields DEF Fields
<1>4. \A x \in r.mem[f] : x \in gone => /\ x.kind \notin Scalars
                                        /\ x.kind \notin Permissions
                                        /\ x.kind # "pairwiseIds"
  BY KindsApart DEF Scalars, Collections
<1> HIDE DEF q, gone
<1>5. StoreOK(f, q.mem[f], serial, switched)
  BY <1>1, <1>3, <1>4, RecFields DEF ProcessOK, StoreOK, OneKey, Agree, Scalars
<1>6. \A g \in Files : StoreOK(g, q.mem[g], serial, switched)
  BY <1>1, <1>3, <1>5 DEF ProcessOK
<1>7. EmptyOK(q, serial, switched)
  BY <1>1, <1>3 DEF ProcessOK, EmptyOK
<1>8. HeldOK(q, switched)
  BY <1>1, <1>3, <1>4, RecFields DEF ProcessOK, HeldOK, Scalars
<1>9. KeptOK(q, switched)
  <2> SUFFICES ASSUME NEW g \in Files, NEW x \in q.seen[g] \ q.mem[g]
               PROVE  \/ x.kind = "pairwiseIds" /\ q.root # None /\ x.data # q.root /\ switched
                      \/ /\ x.kind \in Permissions
                         /\ \E y \in q.mem[g] : y.kind = x.kind /\ y.id = x.id
    BY DEF KeptOK
  <2>1. x \in r.seen[g] \ r.mem[g]
    BY <1>3
  <2>2. \/ x.kind = "pairwiseIds" /\ r.root # None /\ x.data # r.root /\ switched
        \/ /\ x.kind \in Permissions
           /\ \E y \in r.mem[g] : y.kind = x.kind /\ y.id = x.id
    BY <1>1, <2>1 DEF ProcessOK, KeptOK
  <2> QED BY <1>3, <1>4, <2>2
<1>a. ProcessOK(q, serial, switched)
  BY <1>3, <1>6, <1>7, <1>8, <1>9 DEF ProcessOK
<1> QED BY <1>0, <1>1, <1>2, <1>3, <1>a, SaveStores

-----------------------------------------------------------------------------
(* The programs of the commands                                            *)

\* A program in the order that the steps need, given the documents it asks for.
WellOrdered(s, needs) ==
    /\ Len(s) \in Nat /\ s # <<>>
    /\ Planned(s, FALSE, FALSE, "grant" \in needs, FALSE, "export" \in needs,
               "credential" \in needs, FALSE)

\* The steps that something has to come before.
Ordered == {"pairwise", "rootKey", "storeCredential", "checkGrant", "generateProof",
            "credentialProof", "importSources", "verifyCredential"}

LEMMA WellOrderedParts ==
  ASSUME NEW s, NEW needs, Len(s) \in Nat, Len(s) > 0,
         Follows(s, "pairwise", {"rootKey"}, FALSE),
         OneRootKey(s, ~FALSE),
         Follows(s, "storeCredential", {"midnightKey"}, FALSE),
         Follows(s, "checkGrant", {"createConsentGrant", "signConsent"}, "grant" \in needs),
         Checked(s, FALSE),
         Imports(s, "export" \in needs),
         Verifies(s, "credential" \in needs, FALSE)
  PROVE  WellOrdered(s, needs)
BY DEF WellOrdered, Planned, Follows, OneRootKey, Checked, Imports, Verifies

LEMMA FreeOrder ==
  ASSUME NEW s, NEW needs, Len(s) \in Nat, Len(s) > 0, \A i \in 1..Len(s) : s[i] \notin Ordered
  PROVE  WellOrdered(s, needs)
BY DEF WellOrdered, Planned, Follows, OneRootKey, Checked, Imports, Verifies, Ordered

LEMMA ProgramsOrdered ==
  \A c \in Commands : WellOrdered(Programs[c], Needs(c))
<1>1. \A needs : WellOrdered(request, needs) /\ WellOrdered(grant, needs) /\ WellOrdered(verify, needs)
  <2>1. /\ Len(request) \in Nat /\ Len(request) > 0
        /\ Len(grant) \in Nat /\ Len(grant) > 0
        /\ Len(verify) \in Nat /\ Len(verify) > 0
    BY DEF request, grant, verify
  <2>2. /\ \A i \in 1..Len(request) : request[i] \notin Ordered
        /\ \A i \in 1..Len(grant) : grant[i] \notin Ordered
        /\ \A i \in 1..Len(verify) : verify[i] \notin Ordered
    BY DEF Ordered, request, grant, verify
  <2> QED BY <2>1, <2>2, FreeOrder
<1>2. \A needs : WellOrdered(credentialIssue, needs) /\ WellOrdered(credentialList, needs) /\ WellOrdered(midnightStatus, needs)
  <2>1. /\ Len(credentialIssue) \in Nat /\ Len(credentialIssue) > 0
        /\ Len(credentialList) \in Nat /\ Len(credentialList) > 0
        /\ Len(midnightStatus) \in Nat /\ Len(midnightStatus) > 0
    BY DEF credentialIssue, credentialList, midnightStatus
  <2>2. /\ \A i \in 1..Len(credentialIssue) : credentialIssue[i] \notin Ordered
        /\ \A i \in 1..Len(credentialList) : credentialList[i] \notin Ordered
        /\ \A i \in 1..Len(midnightStatus) : midnightStatus[i] \notin Ordered
    BY DEF Ordered, credentialIssue, credentialList, midnightStatus
  <2> QED BY <2>1, <2>2, FreeOrder
<1>3. \A needs : WellOrdered(midnightEncrypt, needs) /\ WellOrdered(midnightDecrypt, needs) /\ WellOrdered(midnightCredList, needs)
  <2>1. /\ Len(midnightEncrypt) \in Nat /\ Len(midnightEncrypt) > 0
        /\ Len(midnightDecrypt) \in Nat /\ Len(midnightDecrypt) > 0
        /\ Len(midnightCredList) \in Nat /\ Len(midnightCredList) > 0
    BY DEF midnightEncrypt, midnightDecrypt, midnightCredList
  <2>2. /\ \A i \in 1..Len(midnightEncrypt) : midnightEncrypt[i] \notin Ordered
        /\ \A i \in 1..Len(midnightDecrypt) : midnightDecrypt[i] \notin Ordered
        /\ \A i \in 1..Len(midnightCredList) : midnightCredList[i] \notin Ordered
    BY DEF Ordered, midnightEncrypt, midnightDecrypt, midnightCredList
  <2> QED BY <2>1, <2>2, FreeOrder
<1>4. \A needs : WellOrdered(midnightCredGet, needs) /\ WellOrdered(laceConnect, needs) /\ WellOrdered(laceAddresses, needs)
  <2>1. /\ Len(midnightCredGet) \in Nat /\ Len(midnightCredGet) > 0
        /\ Len(laceConnect) \in Nat /\ Len(laceConnect) > 0
        /\ Len(laceAddresses) \in Nat /\ Len(laceAddresses) > 0
    BY DEF midnightCredGet, laceConnect, laceAddresses
  <2>2. /\ \A i \in 1..Len(midnightCredGet) : midnightCredGet[i] \notin Ordered
        /\ \A i \in 1..Len(laceConnect) : laceConnect[i] \notin Ordered
        /\ \A i \in 1..Len(laceAddresses) : laceAddresses[i] \notin Ordered
    BY DEF Ordered, midnightCredGet, laceConnect, laceAddresses
  <2> QED BY <2>1, <2>2, FreeOrder
<1>5. \A needs : WellOrdered(laceSign, needs) /\ WellOrdered(laceStatus, needs) /\ WellOrdered(laceNetwork, needs)
  <2>1. /\ Len(laceSign) \in Nat /\ Len(laceSign) > 0
        /\ Len(laceStatus) \in Nat /\ Len(laceStatus) > 0
        /\ Len(laceNetwork) \in Nat /\ Len(laceNetwork) > 0
    BY DEF laceSign, laceStatus, laceNetwork
  <2>2. /\ \A i \in 1..Len(laceSign) : laceSign[i] \notin Ordered
        /\ \A i \in 1..Len(laceStatus) : laceStatus[i] \notin Ordered
        /\ \A i \in 1..Len(laceNetwork) : laceNetwork[i] \notin Ordered
    BY DEF Ordered, laceSign, laceStatus, laceNetwork
  <2> QED BY <2>1, <2>2, FreeOrder
<1>6. \A needs : WellOrdered(laceCapabilities, needs) /\ WellOrdered(deckList, needs) /\ WellOrdered(deckShow, needs)
  <2>1. /\ Len(laceCapabilities) \in Nat /\ Len(laceCapabilities) > 0
        /\ Len(deckList) \in Nat /\ Len(deckList) > 0
        /\ Len(deckShow) \in Nat /\ Len(deckShow) > 0
    BY DEF laceCapabilities, deckList, deckShow
  <2>2. /\ \A i \in 1..Len(laceCapabilities) : laceCapabilities[i] \notin Ordered
        /\ \A i \in 1..Len(deckList) : deckList[i] \notin Ordered
        /\ \A i \in 1..Len(deckShow) : deckShow[i] \notin Ordered
    BY DEF Ordered, laceCapabilities, deckList, deckShow
  <2> QED BY <2>1, <2>2, FreeOrder
<1>7. \A needs : WellOrdered(deckInit, needs) /\ WellOrdered(deckAddSource, needs) /\ WellOrdered(deckExport, needs)
  <2>1. /\ Len(deckInit) \in Nat /\ Len(deckInit) > 0
        /\ Len(deckAddSource) \in Nat /\ Len(deckAddSource) > 0
        /\ Len(deckExport) \in Nat /\ Len(deckExport) > 0
    BY DEF deckInit, deckAddSource, deckExport
  <2>2. /\ \A i \in 1..Len(deckInit) : deckInit[i] \notin Ordered
        /\ \A i \in 1..Len(deckAddSource) : deckAddSource[i] \notin Ordered
        /\ \A i \in 1..Len(deckExport) : deckExport[i] \notin Ordered
    BY DEF Ordered, deckInit, deckAddSource, deckExport
  <2> QED BY <2>1, <2>2, FreeOrder
<1>8. \A needs : WellOrdered(sdkAnchor, needs) /\ WellOrdered(sdkDelete, needs) /\ WellOrdered(sdkSign, needs)
  <2>1. /\ Len(sdkAnchor) \in Nat /\ Len(sdkAnchor) > 0
        /\ Len(sdkDelete) \in Nat /\ Len(sdkDelete) > 0
        /\ Len(sdkSign) \in Nat /\ Len(sdkSign) > 0
    BY DEF sdkAnchor, sdkDelete, sdkSign
  <2>2. /\ \A i \in 1..Len(sdkAnchor) : sdkAnchor[i] \notin Ordered
        /\ \A i \in 1..Len(sdkDelete) : sdkDelete[i] \notin Ordered
        /\ \A i \in 1..Len(sdkSign) : sdkSign[i] \notin Ordered
    BY DEF Ordered, sdkAnchor, sdkDelete, sdkSign
  <2> QED BY <2>1, <2>2, FreeOrder
<1>9. \A needs : WellOrdered(run, needs)
  <2>1. Len(run) \in Nat /\ Len(run) > 0
    BY DEF run
  <2>2. \A i \in 1..Len(run) : run[i] \notin Ordered
    BY DEF Ordered, run
  <2> QED BY <2>1, <2>2, FreeOrder
<1>10. \A needs : WellOrdered(prove(FALSE), needs)
  <2>1. Len(prove(FALSE)) \in Nat /\ Len(prove(FALSE)) > 0
    BY DEF prove
  <2>2. \A i \in 1..Len(prove(FALSE)) : prove(FALSE)[i] \notin Ordered
    BY DEF Ordered, prove
  <2> QED BY <2>1, <2>2, FreeOrder
<1>11. \A needs : WellOrdered(prove(TRUE), needs)
  <2>1. Len(prove(TRUE)) \in Nat /\ Len(prove(TRUE)) > 0
    BY DEF prove
  <2>2. \A i \in 1..Len(prove(TRUE)) : prove(TRUE)[i] \notin Ordered
    BY DEF Ordered, prove
  <2> QED BY <2>1, <2>2, FreeOrder
<1>12. WellOrdered(proverInit, {})
  <2>1. Len(proverInit) \in Nat /\ Len(proverInit) > 0
    BY DEF proverInit, proverInitialize
  <2>2. /\ Follows(proverInit, "pairwise", {"rootKey"}, FALSE)
        /\ OneRootKey(proverInit, ~FALSE)
        /\ Follows(proverInit, "storeCredential", {"midnightKey"}, FALSE)
    BY DEF Follows, OneRootKey, proverInit, proverInitialize
  <2>3. Follows(proverInit, "checkGrant", {"createConsentGrant", "signConsent"}, "grant" \in {})
    BY DEF Follows, proverInit, proverInitialize
  <2>4. Checked(proverInit, FALSE)
    BY DEF Checked, Between, proverInit, proverInitialize
  <2>5. Imports(proverInit, "export" \in {}) /\ Verifies(proverInit, "credential" \in {}, FALSE)
    BY DEF Imports, Verifies, proverInit, proverInitialize
  <2> QED BY <2>1, <2>2, <2>3, <2>4, <2>5, WellOrderedParts
<1>13. WellOrdered(proverGrant("local"), {"request"})
  <2>1. Len(proverGrant("local")) \in Nat /\ Len(proverGrant("local")) > 0
    BY DEF proverGrant, proverInitialize, localGrant
  <2>2. /\ Follows(proverGrant("local"), "pairwise", {"rootKey"}, FALSE)
        /\ OneRootKey(proverGrant("local"), ~FALSE)
        /\ Follows(proverGrant("local"), "storeCredential", {"midnightKey"}, FALSE)
    BY DEF Follows, OneRootKey, proverGrant, proverInitialize, localGrant
  <2>3. Follows(proverGrant("local"), "checkGrant", {"createConsentGrant", "signConsent"}, "grant" \in {"request"})
    BY DEF Follows, proverGrant, proverInitialize, localGrant
  <2>4. Checked(proverGrant("local"), FALSE)
    BY DEF Checked, Between, proverGrant, proverInitialize, localGrant
  <2>5. Imports(proverGrant("local"), "export" \in {"request"}) /\ Verifies(proverGrant("local"), "credential" \in {"request"}, FALSE)
    BY DEF Imports, Verifies, proverGrant, proverInitialize, localGrant
  <2> QED BY <2>1, <2>2, <2>3, <2>4, <2>5, WellOrderedParts
<1>14. WellOrdered(proverGrant("xaman"), {"request"})
  <2>1. Len(proverGrant("xaman")) \in Nat /\ Len(proverGrant("xaman")) > 0
    BY DEF proverGrant, proverInitialize, localGrant
  <2>2. /\ Follows(proverGrant("xaman"), "pairwise", {"rootKey"}, FALSE)
        /\ OneRootKey(proverGrant("xaman"), ~FALSE)
        /\ Follows(proverGrant("xaman"), "storeCredential", {"midnightKey"}, FALSE)
    BY DEF Follows, OneRootKey, proverGrant, proverInitialize, localGrant
  <2>3. Follows(proverGrant("xaman"), "checkGrant", {"createConsentGrant", "signConsent"}, "grant" \in {"request"})
    BY DEF Follows, proverGrant, proverInitialize, localGrant
  <2>4. Checked(proverGrant("xaman"), FALSE)
    BY DEF Checked, Between, proverGrant, proverInitialize, localGrant
  <2>5. Imports(proverGrant("xaman"), "export" \in {"request"}) /\ Verifies(proverGrant("xaman"), "credential" \in {"request"}, FALSE)
    BY DEF Imports, Verifies, proverGrant, proverInitialize, localGrant
  <2> QED BY <2>1, <2>2, <2>3, <2>4, <2>5, WellOrderedParts
<1>15. WellOrdered(proverProve(FALSE), {"request", "grant"})
  <2>1. Len(proverProve(FALSE)) \in Nat /\ Len(proverProve(FALSE)) > 0
    BY DEF proverProve, proverInitialize, localProof
  <2>2. /\ Follows(proverProve(FALSE), "pairwise", {"rootKey"}, FALSE)
        /\ OneRootKey(proverProve(FALSE), ~FALSE)
        /\ Follows(proverProve(FALSE), "storeCredential", {"midnightKey"}, FALSE)
    BY DEF Follows, OneRootKey, proverProve, proverInitialize, localProof
  <2>3. Follows(proverProve(FALSE), "checkGrant", {"createConsentGrant", "signConsent"}, "grant" \in {"request", "grant"})
    BY DEF Follows, proverProve, proverInitialize, localProof
  <2>4. Checked(proverProve(FALSE), FALSE)
    BY DEF Checked, Between, proverProve, proverInitialize, localProof
  <2>5. Imports(proverProve(FALSE), "export" \in {"request", "grant"}) /\ Verifies(proverProve(FALSE), "credential" \in {"request", "grant"}, FALSE)
    BY DEF Imports, Verifies, proverProve, proverInitialize, localProof
  <2> QED BY <2>1, <2>2, <2>3, <2>4, <2>5, WellOrderedParts
<1>16. WellOrdered(proverProve(TRUE), {"request", "grant"})
  <2>1. Len(proverProve(TRUE)) \in Nat /\ Len(proverProve(TRUE)) > 0
    BY DEF proverProve, proverInitialize, localProof
  <2>2. /\ Follows(proverProve(TRUE), "pairwise", {"rootKey"}, FALSE)
        /\ OneRootKey(proverProve(TRUE), ~FALSE)
        /\ Follows(proverProve(TRUE), "storeCredential", {"midnightKey"}, FALSE)
    BY DEF Follows, OneRootKey, proverProve, proverInitialize, localProof
  <2>3. Follows(proverProve(TRUE), "checkGrant", {"createConsentGrant", "signConsent"}, "grant" \in {"request", "grant"})
    BY DEF Follows, proverProve, proverInitialize, localProof
  <2>4. Checked(proverProve(TRUE), FALSE)
    BY DEF Checked, Between, proverProve, proverInitialize, localProof
  <2>5. Imports(proverProve(TRUE), "export" \in {"request", "grant"}) /\ Verifies(proverProve(TRUE), "credential" \in {"request", "grant"}, FALSE)
    BY DEF Imports, Verifies, proverProve, proverInitialize, localProof
  <2> QED BY <2>1, <2>2, <2>3, <2>4, <2>5, WellOrderedParts
<1>17. WellOrdered(demoPhase1, {})
  <2>1. Len(demoPhase1) \in Nat /\ Len(demoPhase1) > 0
    BY DEF demoPhase1, proverInitialize, scenario, localGrant, localProof
  <2>2. /\ Follows(demoPhase1, "pairwise", {"rootKey"}, FALSE)
        /\ OneRootKey(demoPhase1, ~FALSE)
        /\ Follows(demoPhase1, "storeCredential", {"midnightKey"}, FALSE)
    BY DEF Follows, OneRootKey, demoPhase1, proverInitialize, scenario, localGrant, localProof
  <2>3. Follows(demoPhase1, "checkGrant", {"createConsentGrant", "signConsent"}, "grant" \in {})
    BY DEF Follows, demoPhase1, proverInitialize, scenario, localGrant, localProof
  <2>4. Checked(demoPhase1, FALSE)
    BY DEF Checked, Between, demoPhase1, proverInitialize, scenario, localGrant, localProof
  <2>5. Imports(demoPhase1, "export" \in {}) /\ Verifies(demoPhase1, "credential" \in {}, FALSE)
    BY DEF Imports, Verifies, demoPhase1, proverInitialize, scenario, localGrant, localProof
  <2> QED BY <2>1, <2>2, <2>3, <2>4, <2>5, WellOrderedParts
<1>18. WellOrdered(demoPhase2, {})
  <2>1. Len(demoPhase2) \in Nat /\ Len(demoPhase2) > 0
    BY DEF demoPhase2, proverInitialize, scenario, localGrant, localProof
  <2>2. /\ Follows(demoPhase2, "pairwise", {"rootKey"}, FALSE)
        /\ OneRootKey(demoPhase2, ~FALSE)
        /\ Follows(demoPhase2, "storeCredential", {"midnightKey"}, FALSE)
    BY DEF Follows, OneRootKey, demoPhase2, proverInitialize, scenario, localGrant, localProof
  <2>3. Follows(demoPhase2, "checkGrant", {"createConsentGrant", "signConsent"}, "grant" \in {})
    BY DEF Follows, demoPhase2, proverInitialize, scenario, localGrant, localProof
  <2>4. Checked(demoPhase2, FALSE)
    BY DEF Checked, Between, demoPhase2, proverInitialize, scenario, localGrant, localProof
  <2>5. Imports(demoPhase2, "export" \in {}) /\ Verifies(demoPhase2, "credential" \in {}, FALSE)
    BY DEF Imports, Verifies, demoPhase2, proverInitialize, scenario, localGrant, localProof
  <2> QED BY <2>1, <2>2, <2>3, <2>4, <2>5, WellOrderedParts
<1>19. WellOrdered(demoPhase4, {})
  <2>1. Len(demoPhase4) \in Nat /\ Len(demoPhase4) > 0
    BY DEF demoPhase4, proverInitialize, localGrant, localProof
  <2>2. /\ Follows(demoPhase4, "pairwise", {"rootKey"}, FALSE)
        /\ OneRootKey(demoPhase4, ~FALSE)
        /\ Follows(demoPhase4, "storeCredential", {"midnightKey"}, FALSE)
    BY DEF Follows, OneRootKey, demoPhase4, proverInitialize, localGrant, localProof
  <2>3. Follows(demoPhase4, "checkGrant", {"createConsentGrant", "signConsent"}, "grant" \in {})
    BY DEF Follows, demoPhase4, proverInitialize, localGrant, localProof
  <2>4. Checked(demoPhase4, FALSE)
    BY DEF Checked, Between, demoPhase4, proverInitialize, localGrant, localProof
  <2>5. Imports(demoPhase4, "export" \in {}) /\ Verifies(demoPhase4, "credential" \in {}, FALSE)
    BY DEF Imports, Verifies, demoPhase4, proverInitialize, localGrant, localProof
  <2> QED BY <2>1, <2>2, <2>3, <2>4, <2>5, WellOrderedParts
<1>20. WellOrdered(demoPhase5("xaman"), {})
  <2>1. Len(demoPhase5("xaman")) \in Nat /\ Len(demoPhase5("xaman")) > 0
    BY DEF demoPhase5, proverInitialize, localGrant, localProof
  <2>2. /\ Follows(demoPhase5("xaman"), "pairwise", {"rootKey"}, FALSE)
        /\ OneRootKey(demoPhase5("xaman"), ~FALSE)
        /\ Follows(demoPhase5("xaman"), "storeCredential", {"midnightKey"}, FALSE)
    BY DEF Follows, OneRootKey, demoPhase5, proverInitialize, localGrant, localProof
  <2>3. Follows(demoPhase5("xaman"), "checkGrant", {"createConsentGrant", "signConsent"}, "grant" \in {})
    BY DEF Follows, demoPhase5, proverInitialize, localGrant, localProof
  <2>4. Checked(demoPhase5("xaman"), FALSE)
    BY DEF Checked, Between, demoPhase5, proverInitialize, localGrant, localProof
  <2>5. Imports(demoPhase5("xaman"), "export" \in {}) /\ Verifies(demoPhase5("xaman"), "credential" \in {}, FALSE)
    BY DEF Imports, Verifies, demoPhase5, proverInitialize, localGrant, localProof
  <2> QED BY <2>1, <2>2, <2>3, <2>4, <2>5, WellOrderedParts
<1>21. WellOrdered(demoPhase5("local"), {})
  <2>1. Len(demoPhase5("local")) \in Nat /\ Len(demoPhase5("local")) > 0
    BY DEF demoPhase5, proverInitialize, localGrant, localProof
  <2>2. /\ Follows(demoPhase5("local"), "pairwise", {"rootKey"}, FALSE)
        /\ OneRootKey(demoPhase5("local"), ~FALSE)
        /\ Follows(demoPhase5("local"), "storeCredential", {"midnightKey"}, FALSE)
    BY DEF Follows, OneRootKey, demoPhase5, proverInitialize, localGrant, localProof
  <2>3. Follows(demoPhase5("local"), "checkGrant", {"createConsentGrant", "signConsent"}, "grant" \in {})
    BY DEF Follows, demoPhase5, proverInitialize, localGrant, localProof
  <2>4. Checked(demoPhase5("local"), FALSE)
    BY DEF Checked, Between, demoPhase5, proverInitialize, localGrant, localProof
  <2>5. Imports(demoPhase5("local"), "export" \in {}) /\ Verifies(demoPhase5("local"), "credential" \in {}, FALSE)
    BY DEF Imports, Verifies, demoPhase5, proverInitialize, localGrant, localProof
  <2> QED BY <2>1, <2>2, <2>3, <2>4, <2>5, WellOrderedParts
<1>22. WellOrdered(demoPhase6, {})
  <2>1. Len(demoPhase6) \in Nat /\ Len(demoPhase6) > 0
    BY DEF demoPhase6, proverInitialize, localGrant, credentialProof
  <2>2. /\ Follows(demoPhase6, "pairwise", {"rootKey"}, FALSE)
        /\ OneRootKey(demoPhase6, ~FALSE)
        /\ Follows(demoPhase6, "storeCredential", {"midnightKey"}, FALSE)
    BY DEF Follows, OneRootKey, demoPhase6, proverInitialize, localGrant, credentialProof
  <2>3. Follows(demoPhase6, "checkGrant", {"createConsentGrant", "signConsent"}, "grant" \in {})
    BY DEF Follows, demoPhase6, proverInitialize, localGrant, credentialProof
  <2>4. Checked(demoPhase6, FALSE)
    BY DEF Checked, Between, demoPhase6, proverInitialize, localGrant, credentialProof
  <2>5. Imports(demoPhase6, "export" \in {}) /\ Verifies(demoPhase6, "credential" \in {}, FALSE)
    BY DEF Imports, Verifies, demoPhase6, proverInitialize, localGrant, credentialProof
  <2> QED BY <2>1, <2>2, <2>3, <2>4, <2>5, WellOrderedParts
<1>23. WellOrdered(demoPhase7, {})
  <2>1. Len(demoPhase7) \in Nat /\ Len(demoPhase7) > 0
    BY DEF demoPhase7, proverInitialize, localGrant, credentialProof
  <2>2. /\ Follows(demoPhase7, "pairwise", {"rootKey"}, FALSE)
        /\ OneRootKey(demoPhase7, ~FALSE)
        /\ Follows(demoPhase7, "storeCredential", {"midnightKey"}, FALSE)
    BY DEF Follows, OneRootKey, demoPhase7, proverInitialize, localGrant, credentialProof
  <2>3. Follows(demoPhase7, "checkGrant", {"createConsentGrant", "signConsent"}, "grant" \in {})
    BY DEF Follows, demoPhase7, proverInitialize, localGrant, credentialProof
  <2>4. Checked(demoPhase7, FALSE)
    BY DEF Checked, Between, demoPhase7, proverInitialize, localGrant, credentialProof
  <2>5. Imports(demoPhase7, "export" \in {}) /\ Verifies(demoPhase7, "credential" \in {}, FALSE)
    BY DEF Imports, Verifies, demoPhase7, proverInitialize, localGrant, credentialProof
  <2> QED BY <2>1, <2>2, <2>3, <2>4, <2>5, WellOrderedParts
<1>24. WellOrdered(demoOffline, {})
  <2>1. Len(demoOffline) \in Nat /\ Len(demoOffline) > 0
    BY DEF demoOffline, proverInitialize, localGrant
  <2>2. /\ Follows(demoOffline, "pairwise", {"rootKey"}, FALSE)
        /\ OneRootKey(demoOffline, ~FALSE)
        /\ Follows(demoOffline, "storeCredential", {"midnightKey"}, FALSE)
    BY DEF Follows, OneRootKey, demoOffline, proverInitialize, localGrant
  <2>3. Follows(demoOffline, "checkGrant", {"createConsentGrant", "signConsent"}, "grant" \in {})
    BY DEF Follows, demoOffline, proverInitialize, localGrant
  <2>4. Checked(demoOffline, FALSE)
    BY DEF Checked, Between, demoOffline, proverInitialize, localGrant
  <2>5. Imports(demoOffline, "export" \in {}) /\ Verifies(demoOffline, "credential" \in {}, FALSE)
    BY DEF Imports, Verifies, demoOffline, proverInitialize, localGrant
  <2> QED BY <2>1, <2>2, <2>3, <2>4, <2>5, WellOrderedParts
<1>25. WellOrdered(demoXrpl, {})
  <2>1. Len(demoXrpl) \in Nat /\ Len(demoXrpl) > 0
    BY DEF demoXrpl, demoOffline, proverInitialize, localGrant
  <2>2. /\ Follows(demoXrpl, "pairwise", {"rootKey"}, FALSE)
        /\ OneRootKey(demoXrpl, ~FALSE)
        /\ Follows(demoXrpl, "storeCredential", {"midnightKey"}, FALSE)
    BY DEF Follows, OneRootKey, demoXrpl, demoOffline, proverInitialize, localGrant
  <2>3. Follows(demoXrpl, "checkGrant", {"createConsentGrant", "signConsent"}, "grant" \in {})
    BY DEF Follows, demoXrpl, demoOffline, proverInitialize, localGrant
  <2>4. Checked(demoXrpl, FALSE)
    BY DEF Checked, Between, demoXrpl, demoOffline, proverInitialize, localGrant
  <2>5. Imports(demoXrpl, "export" \in {}) /\ Verifies(demoXrpl, "credential" \in {}, FALSE)
    BY DEF Imports, Verifies, demoXrpl, demoOffline, proverInitialize, localGrant
  <2> QED BY <2>1, <2>2, <2>3, <2>4, <2>5, WellOrderedParts
<1>26. WellOrdered(credentialVerify, {"credential"})
  <2>1. Len(credentialVerify) \in Nat /\ Len(credentialVerify) > 0
    BY DEF credentialVerify
  <2>2. /\ Follows(credentialVerify, "pairwise", {"rootKey"}, FALSE)
        /\ OneRootKey(credentialVerify, ~FALSE)
        /\ Follows(credentialVerify, "storeCredential", {"midnightKey"}, FALSE)
    BY DEF Follows, OneRootKey, credentialVerify
  <2>3. Follows(credentialVerify, "checkGrant", {"createConsentGrant", "signConsent"}, "grant" \in {"credential"})
    BY DEF Follows, credentialVerify
  <2>4. Checked(credentialVerify, FALSE)
    BY DEF Checked, Between, credentialVerify
  <2>5. Imports(credentialVerify, "export" \in {"credential"}) /\ Verifies(credentialVerify, "credential" \in {"credential"}, FALSE)
    BY DEF Imports, Verifies, credentialVerify
  <2> QED BY <2>1, <2>2, <2>3, <2>4, <2>5, WellOrderedParts
<1>27. WellOrdered(midnightCredPut, {"credential"})
  <2>1. Len(midnightCredPut) \in Nat /\ Len(midnightCredPut) > 0
    BY DEF midnightCredPut
  <2>2. /\ Follows(midnightCredPut, "pairwise", {"rootKey"}, FALSE)
        /\ OneRootKey(midnightCredPut, ~FALSE)
        /\ Follows(midnightCredPut, "storeCredential", {"midnightKey"}, FALSE)
    BY DEF Follows, OneRootKey, midnightCredPut
  <2>3. Follows(midnightCredPut, "checkGrant", {"createConsentGrant", "signConsent"}, "grant" \in {"credential"})
    BY DEF Follows, midnightCredPut
  <2>4. Checked(midnightCredPut, FALSE)
    BY DEF Checked, Between, midnightCredPut
  <2>5. Imports(midnightCredPut, "export" \in {"credential"}) /\ Verifies(midnightCredPut, "credential" \in {"credential"}, FALSE)
    BY DEF Imports, Verifies, midnightCredPut
  <2> QED BY <2>1, <2>2, <2>3, <2>4, <2>5, WellOrderedParts
<1>28. WellOrdered(deckImport, {"export"})
  <2>1. Len(deckImport) \in Nat /\ Len(deckImport) > 0
    BY DEF deckImport
  <2>2. /\ Follows(deckImport, "pairwise", {"rootKey"}, FALSE)
        /\ OneRootKey(deckImport, ~FALSE)
        /\ Follows(deckImport, "storeCredential", {"midnightKey"}, FALSE)
    BY DEF Follows, OneRootKey, deckImport
  <2>3. Follows(deckImport, "checkGrant", {"createConsentGrant", "signConsent"}, "grant" \in {"export"})
    BY DEF Follows, deckImport
  <2>4. Checked(deckImport, FALSE)
    BY DEF Checked, Between, deckImport
  <2>5. Imports(deckImport, "export" \in {"export"}) /\ Verifies(deckImport, "credential" \in {"export"}, FALSE)
    BY DEF Imports, Verifies, deckImport
  <2> QED BY <2>1, <2>2, <2>3, <2>4, <2>5, WellOrderedParts
<1>29. WellOrdered(sdkStored, {"request", "grant"})
  <2>1. Len(sdkStored) \in Nat /\ Len(sdkStored) > 0
    BY DEF sdkStored, proverInitialize, credentialProof
  <2>2. /\ Follows(sdkStored, "pairwise", {"rootKey"}, FALSE)
        /\ OneRootKey(sdkStored, ~FALSE)
        /\ Follows(sdkStored, "storeCredential", {"midnightKey"}, FALSE)
    BY DEF Follows, OneRootKey, sdkStored, proverInitialize, credentialProof
  <2>3. Follows(sdkStored, "checkGrant", {"createConsentGrant", "signConsent"}, "grant" \in {"request", "grant"})
    BY DEF Follows, sdkStored, proverInitialize, credentialProof
  <2>4. Checked(sdkStored, FALSE)
    BY DEF Checked, Between, sdkStored, proverInitialize, credentialProof
  <2>5. Imports(sdkStored, "export" \in {"request", "grant"}) /\ Verifies(sdkStored, "credential" \in {"request", "grant"}, FALSE)
    BY DEF Imports, Verifies, sdkStored, proverInitialize, credentialProof
  <2> QED BY <2>1, <2>2, <2>3, <2>4, <2>5, WellOrderedParts
<1>30. WellOrdered(sdkDid, {})
  <2>1. Len(sdkDid) \in Nat /\ Len(sdkDid) > 0
    BY DEF sdkDid, proverInitialize
  <2>2. /\ Follows(sdkDid, "pairwise", {"rootKey"}, FALSE)
        /\ OneRootKey(sdkDid, ~FALSE)
        /\ Follows(sdkDid, "storeCredential", {"midnightKey"}, FALSE)
    BY DEF Follows, OneRootKey, sdkDid, proverInitialize
  <2>3. Follows(sdkDid, "checkGrant", {"createConsentGrant", "signConsent"}, "grant" \in {})
    BY DEF Follows, sdkDid, proverInitialize
  <2>4. Checked(sdkDid, FALSE)
    BY DEF Checked, Between, sdkDid, proverInitialize
  <2>5. Imports(sdkDid, "export" \in {}) /\ Verifies(sdkDid, "credential" \in {}, FALSE)
    BY DEF Imports, Verifies, sdkDid, proverInitialize
  <2> QED BY <2>1, <2>2, <2>3, <2>4, <2>5, WellOrderedParts
<1>31. WellOrdered(sdkProve, {"request", "grant"})
  <2>1. Len(sdkProve) \in Nat /\ Len(sdkProve) > 0
    BY DEF sdkProve, proverInitialize, localProof
  <2>2. /\ Follows(sdkProve, "pairwise", {"rootKey"}, FALSE)
        /\ OneRootKey(sdkProve, ~FALSE)
        /\ Follows(sdkProve, "storeCredential", {"midnightKey"}, FALSE)
    BY DEF Follows, OneRootKey, sdkProve, proverInitialize, localProof
  <2>3. Follows(sdkProve, "checkGrant", {"createConsentGrant", "signConsent"}, "grant" \in {"request", "grant"})
    BY DEF Follows, sdkProve, proverInitialize, localProof
  <2>4. Checked(sdkProve, FALSE)
    BY DEF Checked, Between, sdkProve, proverInitialize, localProof
  <2>5. Imports(sdkProve, "export" \in {"request", "grant"}) /\ Verifies(sdkProve, "credential" \in {"request", "grant"}, FALSE)
    BY DEF Imports, Verifies, sdkProve, proverInitialize, localProof
  <2> QED BY <2>1, <2>2, <2>3, <2>4, <2>5, WellOrderedParts
<1>32. WellOrdered(sdkCredentialProve, {"request", "grant", "credential"})
  <2>1. Len(sdkCredentialProve) \in Nat /\ Len(sdkCredentialProve) > 0
    BY DEF sdkCredentialProve, proverInitialize, credentialProof
  <2>2. /\ Follows(sdkCredentialProve, "pairwise", {"rootKey"}, FALSE)
        /\ OneRootKey(sdkCredentialProve, ~FALSE)
        /\ Follows(sdkCredentialProve, "storeCredential", {"midnightKey"}, FALSE)
    BY DEF Follows, OneRootKey, sdkCredentialProve, proverInitialize, credentialProof
  <2>3. Follows(sdkCredentialProve, "checkGrant", {"createConsentGrant", "signConsent"}, "grant" \in {"request", "grant", "credential"})
    BY DEF Follows, sdkCredentialProve, proverInitialize, credentialProof
  <2>4. Checked(sdkCredentialProve, FALSE)
    BY DEF Checked, Between, sdkCredentialProve, proverInitialize, credentialProof
  <2>5. Imports(sdkCredentialProve, "export" \in {"request", "grant", "credential"}) /\ Verifies(sdkCredentialProve, "credential" \in {"request", "grant", "credential"}, FALSE)
    BY DEF Imports, Verifies, sdkCredentialProve, proverInitialize, credentialProof
  <2> QED BY <2>1, <2>2, <2>3, <2>4, <2>5, WellOrderedParts
<1>33. WellOrdered(sdkGrant("local"), {"request"})
  <2>1. Len(sdkGrant("local")) \in Nat /\ Len(sdkGrant("local")) > 0
    BY DEF sdkGrant, grant, proverInitialize, localGrant
  <2>2. /\ Follows(sdkGrant("local"), "pairwise", {"rootKey"}, FALSE)
        /\ OneRootKey(sdkGrant("local"), ~FALSE)
        /\ Follows(sdkGrant("local"), "storeCredential", {"midnightKey"}, FALSE)
    BY DEF Follows, OneRootKey, sdkGrant, grant, proverInitialize, localGrant
  <2>3. Follows(sdkGrant("local"), "checkGrant", {"createConsentGrant", "signConsent"}, "grant" \in {"request"})
    BY DEF Follows, sdkGrant, grant, proverInitialize, localGrant
  <2>4. Checked(sdkGrant("local"), FALSE)
    BY DEF Checked, Between, sdkGrant, grant, proverInitialize, localGrant
  <2>5. Imports(sdkGrant("local"), "export" \in {"request"}) /\ Verifies(sdkGrant("local"), "credential" \in {"request"}, FALSE)
    BY DEF Imports, Verifies, sdkGrant, grant, proverInitialize, localGrant
  <2> QED BY <2>1, <2>2, <2>3, <2>4, <2>5, WellOrderedParts
<1>34. WellOrdered(sdkGrant("xaman"), {"request"})
  <2>1. Len(sdkGrant("xaman")) \in Nat /\ Len(sdkGrant("xaman")) > 0
    BY DEF sdkGrant, grant, proverInitialize, localGrant
  <2>2. /\ Follows(sdkGrant("xaman"), "pairwise", {"rootKey"}, FALSE)
        /\ OneRootKey(sdkGrant("xaman"), ~FALSE)
        /\ Follows(sdkGrant("xaman"), "storeCredential", {"midnightKey"}, FALSE)
    BY DEF Follows, OneRootKey, sdkGrant, grant, proverInitialize, localGrant
  <2>3. Follows(sdkGrant("xaman"), "checkGrant", {"createConsentGrant", "signConsent"}, "grant" \in {"request"})
    BY DEF Follows, sdkGrant, grant, proverInitialize, localGrant
  <2>4. Checked(sdkGrant("xaman"), FALSE)
    BY DEF Checked, Between, sdkGrant, grant, proverInitialize, localGrant
  <2>5. Imports(sdkGrant("xaman"), "export" \in {"request"}) /\ Verifies(sdkGrant("xaman"), "credential" \in {"request"}, FALSE)
    BY DEF Imports, Verifies, sdkGrant, grant, proverInitialize, localGrant
  <2> QED BY <2>1, <2>2, <2>3, <2>4, <2>5, WellOrderedParts
<1>35. WellOrdered(sdkGrant("legacy"), {"request"})
  <2>1. Len(sdkGrant("legacy")) \in Nat /\ Len(sdkGrant("legacy")) > 0
    BY DEF sdkGrant, grant, proverInitialize, localGrant
  <2>2. /\ Follows(sdkGrant("legacy"), "pairwise", {"rootKey"}, FALSE)
        /\ OneRootKey(sdkGrant("legacy"), ~FALSE)
        /\ Follows(sdkGrant("legacy"), "storeCredential", {"midnightKey"}, FALSE)
    BY DEF Follows, OneRootKey, sdkGrant, grant, proverInitialize, localGrant
  <2>3. Follows(sdkGrant("legacy"), "checkGrant", {"createConsentGrant", "signConsent"}, "grant" \in {"request"})
    BY DEF Follows, sdkGrant, grant, proverInitialize, localGrant
  <2>4. Checked(sdkGrant("legacy"), FALSE)
    BY DEF Checked, Between, sdkGrant, grant, proverInitialize, localGrant
  <2>5. Imports(sdkGrant("legacy"), "export" \in {"request"}) /\ Verifies(sdkGrant("legacy"), "credential" \in {"request"}, FALSE)
    BY DEF Imports, Verifies, sdkGrant, grant, proverInitialize, localGrant
  <2> QED BY <2>1, <2>2, <2>3, <2>4, <2>5, WellOrderedParts
<1> DEFINE Goal(c) == WellOrdered(Programs[c], Needs(c))
<1>36. Goal("run") /\ Goal("request") /\ Goal("grant") /\ Goal("prove")
      /\ Goal("proveReal") /\ Goal("verify") /\ Goal("proverInit") /\ Goal("proverGrant")
  BY <1>1, <1>9, <1>10, <1>11, <1>12, <1>13 DEF Programs, Needs
<1>37. Goal("proverGrantXaman") /\ Goal("proverProve") /\ Goal("proverProveReal") /\ Goal("demoPhase1")
      /\ Goal("demoPhase2") /\ Goal("demoPhase4") /\ Goal("demoPhase5") /\ Goal("demoPhase5Local")
  BY <1>14, <1>15, <1>16, <1>17, <1>18, <1>19, <1>20, <1>21 DEF Programs, Needs
<1>38. Goal("demoPhase6") /\ Goal("demoPhase7") /\ Goal("demoOffline") /\ Goal("demoXrpl")
      /\ Goal("credentialIssue") /\ Goal("credentialList") /\ Goal("credentialVerify") /\ Goal("midnightStatus")
  BY <1>2, <1>22, <1>23, <1>24, <1>25, <1>26 DEF Programs, Needs
<1>39. Goal("midnightEncrypt") /\ Goal("midnightDecrypt") /\ Goal("midnightCredPut") /\ Goal("midnightCredList")
      /\ Goal("midnightCredGet") /\ Goal("laceConnect") /\ Goal("laceAddresses") /\ Goal("laceSign")
  BY <1>3, <1>4, <1>5, <1>27 DEF Programs, Needs
<1>40. Goal("laceStatus") /\ Goal("laceNetwork") /\ Goal("laceCapabilities") /\ Goal("deckList")
      /\ Goal("deckShow") /\ Goal("deckInit") /\ Goal("deckAddSource") /\ Goal("deckExport")
  BY <1>5, <1>6, <1>7 DEF Programs, Needs
<1>41. Goal("deckImport") /\ Goal("proveInstance") /\ Goal("sdkAnchor") /\ Goal("sdkDelete")
      /\ Goal("sdkStored") /\ Goal("sdkDid") /\ Goal("sdkSign") /\ Goal("verifyGrant")
  BY <1>1, <1>8, <1>10, <1>28, <1>29, <1>30 DEF Programs, Needs
<1>42. Goal("sdkProve") /\ Goal("sdkCredentialProve") /\ Goal("sdkGrant") /\ Goal("sdkGrantXaman")
      /\ Goal("sdkGrantLegacy")
  BY <1>31, <1>32, <1>33, <1>34, <1>35 DEF Programs, Needs
<1>43. Commands =
        {"run", "request", "grant", "prove", "proveReal", "verify", "proverInit",
        "proverGrant", "proverGrantXaman", "proverProve", "proverProveReal",
        "demoPhase1", "demoPhase2", "demoPhase4", "demoPhase5", "demoPhase5Local",
        "demoPhase6", "demoPhase7", "demoOffline", "demoXrpl", "credentialIssue",
        "credentialList", "credentialVerify", "midnightStatus", "midnightEncrypt",
        "midnightDecrypt", "midnightCredPut", "midnightCredList", "midnightCredGet",
        "laceConnect", "laceAddresses", "laceSign", "laceStatus", "laceNetwork",
        "laceCapabilities", "deckList", "deckShow", "deckInit", "deckAddSource",
        "deckExport", "deckImport", "proveInstance", "sdkAnchor", "sdkDelete",
        "sdkStored", "sdkDid", "sdkSign", "verifyGrant", "sdkProve",
        "sdkCredentialProve", "sdkGrant", "sdkGrantXaman", "sdkGrantLegacy"}
  BY DEF Commands, Programs
<1>44. \A c \in Commands : Goal(c)
  <2> HIDE DEF Goal
  <2> QED BY <1>36, <1>37, <1>38, <1>39, <1>40, <1>41, <1>42, <1>43
<1> QED BY <1>44

Started(c, doc) == [Idle EXCEPT !.todo = Programs[c], !.dir = Dir(c), !.doc = doc]

LEMMA StartFields ==
  ASSUME session \in Sessions, NEW c \in session.commands, NEW doc
  PROVE  LET q == Started(c, doc)
         IN  /\ c \in Commands /\ WellOrdered(q.todo, Needs(c))
             /\ q.todo = Programs[c] /\ q.todo # <<>> /\ Fields(q)
             /\ q.doc = doc /\ q.root = None /\ q.midnight = None /\ q.writing = None
             /\ q.mem = Idle.mem /\ q.seen = Idle.seen /\ q.empty = {} /\ q.loaded = {}
<1>1. c \in Commands /\ session.storagePath \in {"agilityData", "cliTest"}
  BY SessionAssumption
<1>2. Dir(c) \in Dirs
  BY <1>1 DEF Dir, Dirs
<1>3. WellOrdered(Programs[c], Needs(c))
  BY <1>1, ProgramsOrdered
<1> QED BY <1>1, <1>2, <1>3, IdleFields DEF WellOrdered, Fields, Started

LEMMA StartStores ==
  ASSUME StoresInv, session \in Sessions, NEW p \in Procs, NEW c \in session.commands,
         Start(p, c)
  PROVE  StoresInv'
<1>1. PICK doc : proc' = [proc EXCEPT ![p] = Started(c, doc)]
  BY DEF Start, Started
<1> DEFINE q == Started(c, doc)
<1>2. /\ Fields(q) /\ q.todo # <<>> /\ q.mem = Idle.mem /\ q.seen = Idle.seen
      /\ q.empty = {} /\ q.root = None /\ q.midnight = None
  BY StartFields
<1>3. proc' = [proc EXCEPT ![p] = q]
  BY <1>1
<1> HIDE DEF q
<1>4. ProcessOK(q, serial, switched) /\ Busy(q)
  BY <1>2, IdleFields, EmptyStoreOK DEF ProcessOK, EmptyOK, HeldOK, KeptOK, Busy
<1> QED BY <1>3, <1>4 DEF StoresInv, Start, walletVars

LEMMA WriteFields ==
  ASSUME StoresInv, NEW p \in Procs, WriteReturns(p)
  PROVE  LET q == [proc[p] EXCEPT !.writing = None]
         IN  /\ proc[p].writing \in Files
             /\ proc' = [proc EXCEPT ![p] = Rest(q)] /\ Fields(q) /\ ProcessOK(q, serial, switched)
             /\ q.todo = proc[p].todo /\ q.mem = proc[p].mem /\ q.loaded = proc[p].loaded
             /\ q.doc = proc[p].doc /\ q.writing = None
             /\ q.root = proc[p].root /\ q.midnight = proc[p].midnight
             /\ q.issuer = proc[p].issuer
<1> DEFINE q == [proc[p] EXCEPT !.writing = None]
<1>1. ProcessOK(proc[p], serial, switched) /\ Fields(proc[p])
  BY DEF StoresInv, ProcessOK
<1>2. /\ Fields(q) /\ q.todo = proc[p].todo /\ q.mem = proc[p].mem /\ q.loaded = proc[p].loaded
      /\ q.doc = proc[p].doc /\ q.writing = None /\ q.dir = proc[p].dir
      /\ q.seen = proc[p].seen /\ q.empty = proc[p].empty
      /\ q.root = proc[p].root /\ q.midnight = proc[p].midnight
      /\ q.issuer = proc[p].issuer
  BY <1>1, IdleFields DEF Fields
<1>3. ProcessOK(q, serial, switched)
  BY <1>1, <1>2, SameStores
<1> QED BY <1>2, <1>3 DEF WriteReturns, StoresInv

LEMMA WriteStores ==
  ASSUME StoresInv, NEW p \in Procs, WriteReturns(p), switched' = switched
  PROVE  StoresInv'
<1> DEFINE f == proc[p].writing
           q == [proc[p] EXCEPT !.writing = None]
<1>1. ProcessOK(Rest(q), serial, switched) /\ Busy(Rest(q)) /\ f \in Files
      /\ proc' = [proc EXCEPT ![p] = Rest(q)]
  BY WriteFields, IdleOK, RestBusy DEF Rest
<1>2. /\ serial' = serial
      /\ \/ disk' = [disk EXCEPT ![f] = proc[p].mem[f]]
         \/ disk' = [disk EXCEPT ![f] = Partial]
  BY DEF WriteReturns
<1>3. StoreOK(f, proc[p].mem[f], serial, switched)
  BY <1>1 DEF StoresInv, ProcessOK
<1> QED BY <1>1, <1>2, <1>3, AbsentPartial DEF StoresInv

-----------------------------------------------------------------------------
(* The stores: every step                                                  *)

\* What the order of a command's steps gives the steps on the stores.
LEMMA KeysAreThere ==
  ASSUME StoresInv, OrderInv, NEW p \in Procs
  PROVE  /\ At(p, "rootKey") => proc[p].root = None
         /\ At(p, "pairwise") => proc[p].root # None
         /\ At(p, "storeCredential") => proc[p].midnight # None
         /\ At(p, "checkGrant") => HasDoc(proc[p], "grant", printed)
         /\ At(p, "importSources") => HasDoc(proc[p], "export", printed)
         /\ At(p, "verifyCredential") =>
               /\ HasDoc(proc[p], "credential", printed)
               /\ rekeyed \/ proc[p].doc["credential"].issuer = proc[p].issuer
         /\ At(p, "generateProof") \/ At(p, "credentialProof") => SameRequest(proc[p])
<1> DEFINE r == proc[p]
           s == r.todo
<1> SUFFICES ASSUME s # <<>>
             PROVE  /\ s[1] = "rootKey" => r.root = None
                    /\ s[1] = "pairwise" => r.root # None
                    /\ s[1] = "storeCredential" => r.midnight # None
                    /\ s[1] = "checkGrant" => HasDoc(r, "grant", printed)
                    /\ s[1] = "importSources" => HasDoc(r, "export", printed)
                    /\ s[1] = "verifyCredential" =>
                          /\ HasDoc(r, "credential", printed)
                          /\ rekeyed \/ r.doc["credential"].issuer = r.issuer
                    /\ s[1] \in {"generateProof", "credentialProof"} => SameRequest(r)
  BY AtFields DEF At, Active
<1>1. Fields(r) /\ OrderOK(r, printed, rekeyed) /\ DocsOK(r, printed)
  BY DEF StoresInv, ProcessOK, OrderInv
<1>2. Len(s) > 0 /\ Len(s) \in Nat
  BY <1>1, DoneFields DEF Fields
<1>3. 1 \in 1..Len(s) /\ 1..0 = {}
  BY <1>2
<1>4. /\ s[1] = "rootKey" => r.root = None
      /\ s[1] = "pairwise" => r.root # None
      /\ s[1] = "storeCredential" => r.midnight # None
  BY <1>1, <1>2 DEF OrderOK, Planned, OneRootKey, Follows
<1>5. /\ s[1] = "checkGrant" => Holds(r, "grant")
      /\ s[1] = "importSources" => Holds(r, "export")
  BY <1>1, <1>2 DEF OrderOK, Planned, Follows, Imports
<1>6. s[1] = "verifyCredential" =>
         /\ HasDoc(r, "credential", printed)
         /\ rekeyed \/ r.doc["credential"].issuer = r.issuer
  BY <1>1, <1>2 DEF OrderOK, Planned, Verifies
<1>7. s[1] \in {"generateProof", "credentialProof"} => SameRequest(r)
  BY <1>1, <1>2 DEF OrderOK, Planned, Checked
<1> QED BY <1>1, <1>4, <1>5, <1>6, <1>7 DEF DocsOK

LEMMA StoresStep ==
  ASSUME StoresInv, OrderInv, session \in Sessions, [Next]_vars
  PROVE  StoresInv'
<1> USE DEF walletVars, credentialVars, cliVars
<1>1. CASE UNCHANGED vars
  BY <1>1 DEF vars, persistVars, StoresInv, Whole
<1>2. CASE User
  BY <1>2 DEF User, EditCredential, CredentialsExpire, ResendRequest, persistVars, StoresInv, Whole
<1>3. ASSUME NEW p \in Procs, Step(p)
      PROVE  StoresInv'
  <2>1. CASE \E c \in session.commands : Start(p, c)
    BY <2>1, StartStores
  <2>2. CASE WalletStep(p)
    <3>1. CASE Initialize(p)
      BY <3>1, InitializeStores
    <3>2. CASE LoadOrGenerateKeys(p)
      BY <3>2, KeysAreThere, RootKeyStores DEF LoadOrGenerateKeys
    <3>3. CASE GetPairwiseId(p)
      BY <3>3, KeysAreThere, PairwiseStores DEF GetPairwiseId
    <3> QED BY <2>2, <3>1, <3>2, <3>3, RequestsStores, ChecksStores, SavingStores, ReplayStores
            DEF WalletStep
  <2>3. CASE ClearStep(p)
    BY <2>3, ReplayStores DEF ClearStep
  <2>4. CASE CredentialStep(p)
    <3>1. CASE StoreCredential(p)
      BY <3>1, KeysAreThere, StoreCredentialStores DEF StoreCredential
    <3> QED BY <2>4, <3>1, RequestsStores, ChecksStores, SavingStores, MidnightKeyStores,
               DeleteStores DEF CredentialStep
  <2>5. CASE DeckStep(p)
    <3>1. CASE DeckImport(p)
      <4>1. HasDoc(proc[p], "export", printed)
        BY <3>1, KeysAreThere DEF DeckImport
      <4>2. \A x \in proc[p].doc["export"].sources :
               x = Rec(x.kind, x.id, x.data) /\ x.kind \in Permissions
        BY <4>1 DEF HasDoc, OrderInv, PrintedInv, DocumentOK
      <4> QED BY <3>1, <4>2, ImportStores
    <3> QED BY <2>5, <3>1, DeckReadsStores, DeckCreateStores, AddSourceStores,
               CreateProofStores, DidStores, ChecksStores DEF DeckStep
  <2>6. CASE CheckStep(p)
    BY <2>6, PipelineStores
  <2>7. CASE WriteStep(p)
    BY <2>7, WriteStores DEF WriteStep
  <2>8. CASE CrashStep(p)
    BY <2>8, ExitStores DEF CrashStep, Crash
  <2> QED BY <1>3, <2>1, <2>2, <2>3, <2>4, <2>5, <2>6, <2>7, <2>8 DEF Step
<1> QED BY <1>1, <1>2, <1>3 DEF Next

-----------------------------------------------------------------------------
(* The order of the steps and the documents: lemmas                        *)

LEMMA OrderIdle ==
  ASSUME NEW docs, NEW rk
  PROVE  OrderOK(Idle, docs, rk) /\ DocsOK(Idle, docs)
<1>1. Len(Idle.todo) = 0 /\ DOMAIN Idle.doc = {}
  BY IdleFields
<1> QED BY <1>1 DEF OrderOK, Planned, Follows, OneRootKey, Checked, Imports, Verifies,
                    DocsOK, Holds

LEMMA OrderGrows ==
  ASSUME NEW r, NEW docs, NEW more, docs \subseteq more, NEW rk, NEW rl, rk => rl,
         OrderOK(r, docs, rk), DocsOK(r, docs)
  PROVE  OrderOK(r, more, rl) /\ DocsOK(r, more)
<1>1. OrderOK(r, more, rl)
  BY DEF OrderOK, Planned, Verifies, HasDoc
<1>2. DocsOK(r, more)
  BY DEF DocsOK, HasDoc
<1> QED BY <1>1, <1>2

\* What the step op makes of a process, as far as the order is concerned.
Advances(r, q, op, docs, rl) ==
    /\ q.root # None <=> r.root # None \/ op = "rootKey"
    /\ r.midnight # None \/ op = "midnightKey" => q.midnight # None
    /\ DOMAIN r.doc \subseteq DOMAIN q.doc
    /\ op \in {"createConsentGrant", "signConsent"} => Holds(q, "grant")
    /\ op = "checkGrant" => SameRequest(q)
    /\ op \in Between \cup {"initialize", "issuerKey", "verifyCredential"} => q.doc = r.doc
    /\ op # "issuerKey" => q.issuer = r.issuer
    /\ op = "issuerKey" => rl \/ \A c \in docs : c.type = "credential" => c.issuer = q.issuer

LEMMA OrderStep ==
  ASSUME NEW r, NEW q, NEW docs, NEW more, docs \subseteq more, NEW rk, NEW rl, rk => rl,
         Fields(r), r.todo # <<>>, OrderOK(r, docs, rk),
         q.todo = Tail(r.todo), Advances(r, q, r.todo[1], docs, rl)
  PROVE  OrderOK(q, more, rl)
<1> DEFINE s == r.todo
           t == q.todo
           op == s[1]
<1>1. /\ Len(s) \in Nat /\ Len(s) > 0 /\ Len(t) = Len(s) - 1
      /\ \A i \in 1..Len(t) : t[i] = s[i + 1]
  BY DoneFields DEF Fields
<1> HIDE DEF t
<1>4. Follows(t, "pairwise", {"rootKey"}, q.root # None)
  <2>1. Follows(s, "pairwise", {"rootKey"}, r.root # None)
    BY DEF OrderOK, Planned
  <2>2. SUFFICES ASSUME NEW i \in 1..Len(t), t[i] = "pairwise", ~(q.root # None)
                 PROVE  \E j \in 1..(i - 1) : t[j] \in {"rootKey"}
    BY DEF Follows
  <2>3. ~(r.root # None) /\ op \notin {"rootKey"}
    BY <2>2 DEF Advances
  <2>4. i + 1 \in 1..Len(s) /\ s[i + 1] = t[i] /\ (i + 1) - 1 = i
    BY <1>1
  <2>5. PICK j \in 1..i : s[j] \in {"rootKey"}
    BY <2>1, <2>2, <2>3, <2>4 DEF Follows
  <2>6. j - 1 \in 1..(i - 1) /\ t[j - 1] = s[j]
    BY <1>1, <2>3, <2>5
  <2> QED BY <2>5, <2>6
<1>5. OneRootKey(t, ~(q.root # None))
  <2>1. OneRootKey(s, ~(r.root # None))
    BY DEF OrderOK, Planned
  <2>2. SUFFICES ASSUME NEW i \in 1..Len(t), t[i] = "rootKey"
                 PROVE  ~(q.root # None) /\ \A j \in 1..(i - 1) : t[j] # "rootKey"
    BY DEF OneRootKey
  <2>3. i + 1 \in 1..Len(s) /\ s[i + 1] = t[i] /\ (i + 1) - 1 = i
    BY <1>1
  <2>4. ~(r.root # None) /\ \A j \in 1..i : s[j] # "rootKey"
    BY <2>1, <2>2, <2>3 DEF OneRootKey
  <2>5. 1 \in 1..i /\ op # "rootKey"
    BY <2>4
  <2>6. ~(q.root # None)
    BY <2>4, <2>5 DEF Advances
  <2>7. \A j \in 1..(i - 1) : j + 1 \in 1..i /\ t[j] = s[j + 1]
    BY <1>1
  <2> QED BY <2>4, <2>6, <2>7
<1>6. Follows(t, "storeCredential", {"midnightKey"}, q.midnight # None)
  <2>1. Follows(s, "storeCredential", {"midnightKey"}, r.midnight # None)
    BY DEF OrderOK, Planned
  <2>2. SUFFICES ASSUME NEW i \in 1..Len(t), t[i] = "storeCredential", ~(q.midnight # None)
                 PROVE  \E j \in 1..(i - 1) : t[j] \in {"midnightKey"}
    BY DEF Follows
  <2>3. ~(r.midnight # None) /\ op \notin {"midnightKey"}
    BY <2>2 DEF Advances
  <2>4. i + 1 \in 1..Len(s) /\ s[i + 1] = t[i] /\ (i + 1) - 1 = i
    BY <1>1
  <2>5. PICK j \in 1..i : s[j] \in {"midnightKey"}
    BY <2>1, <2>2, <2>3, <2>4 DEF Follows
  <2>6. j - 1 \in 1..(i - 1) /\ t[j - 1] = s[j]
    BY <1>1, <2>3, <2>5
  <2> QED BY <2>5, <2>6
<1>7. Follows(t, "checkGrant", {"createConsentGrant", "signConsent"}, Holds(q, "grant"))
  <2>1. Follows(s, "checkGrant", {"createConsentGrant", "signConsent"}, Holds(r, "grant"))
    BY DEF OrderOK, Planned
  <2>2. SUFFICES ASSUME NEW i \in 1..Len(t), t[i] = "checkGrant", ~(Holds(q, "grant"))
                 PROVE  \E j \in 1..(i - 1) : t[j] \in {"createConsentGrant", "signConsent"}
    BY DEF Follows
  <2>3. ~(Holds(r, "grant")) /\ op \notin {"createConsentGrant", "signConsent"}
    BY <2>2 DEF Advances, Holds
  <2>4. i + 1 \in 1..Len(s) /\ s[i + 1] = t[i] /\ (i + 1) - 1 = i
    BY <1>1
  <2>5. PICK j \in 1..i : s[j] \in {"createConsentGrant", "signConsent"}
    BY <2>1, <2>2, <2>3, <2>4 DEF Follows
  <2>6. j - 1 \in 1..(i - 1) /\ t[j - 1] = s[j]
    BY <1>1, <2>3, <2>5
  <2> QED BY <2>5, <2>6
<1>8. Imports(t, Holds(q, "export"))
  <2>1. Imports(s, Holds(r, "export"))
    BY DEF OrderOK, Planned
  <2> QED BY <1>1, <2>1 DEF Imports, Advances, Holds
<1>9. Checked(t, SameRequest(q))
  <2>1. Checked(s, SameRequest(r))
    BY DEF OrderOK, Planned
  <2>2. SameRequest(r) /\ op \in Between => SameRequest(q)
    BY DEF Advances, SameRequest, Holds
  <2>3. SUFFICES ASSUME NEW i \in 1..Len(t), t[i] \in {"generateProof", "credentialProof"}
                 PROVE  \/ SameRequest(q) /\ \A k \in 1..(i - 1) : t[k] \in Between
                        \/ \E j \in 1..(i - 1) : /\ t[j] = "checkGrant"
                                                 /\ \A k \in (j + 1)..(i - 1) : t[k] \in Between
    BY DEF Checked
  <2>4. CASE SameRequest(r) /\ \A k \in 1..i : s[k] \in Between
    BY <1>1, <2>2, <2>4
  <2>5. ASSUME NEW j \in 1..i, s[j] = "checkGrant", \A k \in (j + 1)..i : s[k] \in Between
        PROVE  \/ SameRequest(q) /\ \A k \in 1..(i - 1) : t[k] \in Between
               \/ \E l \in 1..(i - 1) : /\ t[l] = "checkGrant"
                                        /\ \A k \in (l + 1)..(i - 1) : t[k] \in Between
    <3>1. \A k \in j..(i - 1) : t[k] \in Between
      BY <1>1, <2>5
    <3>2. CASE j = 1
      BY <2>5, <3>1, <3>2 DEF Advances
    <3>3. CASE j # 1
      <4>1. j - 1 \in 1..(i - 1) /\ t[j - 1] = "checkGrant" /\ (j - 1) + 1 = j
        BY <1>1, <2>5, <3>3
      <4> QED BY <3>1, <4>1
    <3> QED BY <3>2, <3>3
  <2>6. i + 1 \in 1..Len(s) /\ s[i + 1] = t[i] /\ (i + 1) - 1 = i
    BY <1>1
  <2> QED BY <2>1, <2>3, <2>4, <2>5, <2>6 DEF Checked
<1>a. Verifies(t, HasDoc(q, "credential", more), rl \/ q.doc["credential"].issuer = q.issuer)
  <2>1. Verifies(s, HasDoc(r, "credential", docs), rk \/ r.doc["credential"].issuer = r.issuer)
    BY DEF OrderOK, Planned
  <2>2. SUFFICES ASSUME NEW i \in 1..Len(t), t[i] = "verifyCredential"
                 PROVE  /\ HasDoc(q, "credential", more)
                        /\ \A k \in 1..i : t[k] \in {"initialize", "issuerKey", "verifyCredential"}
                        /\ \/ rl \/ q.doc["credential"].issuer = q.issuer
                           \/ \E j \in 1..(i - 1) : t[j] = "issuerKey"
    BY DEF Verifies
  <2>3. i + 1 \in 1..Len(s) /\ s[i + 1] = t[i] /\ (i + 1) - 1 = i
    BY <1>1
  <2>4. /\ HasDoc(r, "credential", docs)
        /\ \A k \in 1..(i + 1) : s[k] \in {"initialize", "issuerKey", "verifyCredential"}
        /\ \/ rk \/ r.doc["credential"].issuer = r.issuer
           \/ \E j \in 1..i : s[j] = "issuerKey"
    BY <2>1, <2>2, <2>3 DEF Verifies
  <2>5. op \in {"initialize", "issuerKey", "verifyCredential"} /\ q.doc = r.doc
    BY <2>3, <2>4 DEF Advances
  <2>6. HasDoc(q, "credential", more)
    BY <2>4, <2>5 DEF HasDoc, Holds
  <2>7. \A k \in 1..i : t[k] \in {"initialize", "issuerKey", "verifyCredential"}
    BY <1>1, <2>4
  <2>8. CASE op = "issuerKey"
    BY <2>4, <2>5, <2>6, <2>7, <2>8 DEF Advances, HasDoc
  <2>9. CASE op # "issuerKey"
    <3>1. CASE \E j \in 1..i : s[j] = "issuerKey"
      <4>1. PICK j \in 1..i : s[j] = "issuerKey"
        BY <3>1
      <4>2. j # 1
        BY <2>9, <4>1
      <4>3. j - 1 \in 1..(i - 1) /\ t[j - 1] = "issuerKey"
        BY <1>1, <4>1, <4>2
      <4> QED BY <2>6, <2>7, <4>3
    <3>2. CASE rk \/ r.doc["credential"].issuer = r.issuer
      BY <2>5, <2>6, <2>7, <2>9, <3>2 DEF Advances
    <3> QED BY <2>4, <3>1, <3>2
  <2> QED BY <2>8, <2>9
<1> QED BY <1>4, <1>5, <1>6, <1>7, <1>8, <1>9, <1>a DEF OrderOK, Planned, t

\* One process goes on as q, or is gone; the documents only grow.
LEMMA OrderFrame ==
  ASSUME OrderInv, NEW p \in Procs, printed \subseteq printed', rekeyed => rekeyed',
         PrintedInv', \A q \in Procs \ {p} : proc'[q] = proc[q],
         OrderOK(proc'[p], printed', rekeyed') /\ DocsOK(proc'[p], printed')
  PROVE  OrderInv'
<1>1. \A q \in Procs : OrderOK(proc'[q], printed', rekeyed') /\ DocsOK(proc'[q], printed')
  BY OrderGrows DEF OrderInv
<1> QED BY <1>1 DEF OrderInv

LEMMA PrintedGrows ==
  ASSUME PrintedInv, NEW new, printed' = printed \cup new,
         \A d \in new : DocumentOK(d, printed'),
         verdicts' = verdicts, late => late', rekeyed => rekeyed'
  PROVE  PrintedInv'
<1>1. \A d \in printed : DocumentOK(d, printed')
  BY DEF PrintedInv, DocumentOK
<1>2. \A v \in verdicts : VerdictOK(v, rekeyed', late')
  BY DEF PrintedInv, VerdictOK
<1> QED BY <1>1, <1>2 DEF PrintedInv

LEMMA PrintedSame ==
  ASSUME PrintedInv, printed' = printed,
         verdicts' = verdicts, late => late', rekeyed => rekeyed'
  PROVE  PrintedInv'
BY DEF PrintedInv, DocumentOK, VerdictOK

LEMMA PrintedOne ==
  ASSUME PrintedInv, NEW d, printed' = printed \cup {d}, DocumentOK(d, printed'),
         verdicts' = verdicts, late => late', rekeyed => rekeyed'
  PROVE  PrintedInv'
<1> DEFINE new == {d}
<1>1. \A x \in new : DocumentOK(x, printed')
  OBVIOUS
<1>2. printed' = printed \cup new
  OBVIOUS
<1> HIDE DEF new
<1> QED BY <1>1, <1>2, PrintedGrows

LEMMA Moved ==
  ASSUME StoresInv, NEW p \in Procs, NEW r, Fields(r), r.todo # <<>>,
         Continue(p, r) \/ \E f \in Files : Save(p, r, f)
  PROVE  /\ \A q \in Procs \ {p} : proc'[q] = proc[q]
         /\ \/ proc'[p] = Idle
            \/ /\ proc'[p].todo = Tail(r.todo) /\ proc'[p].doc = r.doc
               /\ proc'[p].root = r.root /\ proc'[p].midnight = r.midnight
               /\ proc'[p].issuer = r.issuer
<1>1. CASE Continue(p, r)
  <2>1. proc' = [proc EXCEPT ![p] = Rest(Done(r))]
    BY <1>1 DEF Continue
  <2>2. Rest(Done(r)) = Idle \/ Rest(Done(r)) = Done(r)
    BY DEF Rest
  <2> QED BY <2>1, <2>2, DoneFields DEF StoresInv
<1>2. ASSUME NEW f \in Files, Save(p, r, f)
      PROVE  /\ \A q \in Procs \ {p} : proc'[q] = proc[q]
             /\ proc'[p].todo = Tail(r.todo) /\ proc'[p].doc = r.doc
             /\ proc'[p].root = r.root /\ proc'[p].midnight = r.midnight
             /\ proc'[p].issuer = r.issuer
  <2> DEFINE z == [Done(r) EXCEPT !.writing = f]
  <2>1. proc' = [proc EXCEPT ![p] = z]
    BY <1>2 DEF Save
  <2>2. /\ z.todo = Tail(r.todo) /\ z.doc = r.doc /\ z.root = r.root
        /\ z.midnight = r.midnight /\ z.issuer = r.issuer
    BY DoneFields, IdleFields DEF Fields
  <2> HIDE DEF z
  <2> QED BY <2>1, <2>2 DEF StoresInv
<1> QED BY <1>1, <1>2

LEMMA OrderMove ==
  ASSUME StoresInv, OrderInv, NEW p \in Procs, NEW op, At(p, op),
         NEW r, Fields(r), r.todo = proc[p].todo,
         Continue(p, r) \/ \E f \in Files : Save(p, r, f),
         printed \subseteq printed', rekeyed => rekeyed', PrintedInv',
         Advances(proc[p], r, op, printed, rekeyed'), DocsOK(r, printed')
  PROVE  OrderInv'
<1> DEFINE z == proc'[p]
<1>1. /\ Fields(proc[p]) /\ proc[p].todo # <<>> /\ proc[p].todo[1] = op
  BY AtFields
<1>2. /\ \A q \in Procs \ {p} : proc'[q] = proc[q]
      /\ \/ z = Idle
         \/ /\ z.todo = Tail(proc[p].todo) /\ z.doc = r.doc /\ z.root = r.root
            /\ z.midnight = r.midnight /\ z.issuer = r.issuer
  BY <1>1, Moved
<1> HIDE DEF z
<1>3. OrderOK(z, printed', rekeyed') /\ DocsOK(z, printed')
  <2>1. CASE z = Idle
    BY <2>1, OrderIdle
  <2>2. CASE z # Idle
    <3>1. Advances(proc[p], z, op, printed, rekeyed')
      BY <1>2, <2>2 DEF Advances, Holds, SameRequest
    <3>2. OrderOK(proc[p], printed, rekeyed)
      BY DEF OrderInv
    <3>3. OrderOK(z, printed', rekeyed')
      BY <1>1, <1>2, <2>2, <3>1, <3>2, OrderStep
    <3>4. DocsOK(z, printed')
      BY <1>2, <2>2 DEF DocsOK, HasDoc, Holds
    <3> QED BY <3>3, <3>4
  <2> QED BY <2>1, <2>2
<1> QED BY <1>2, <1>3, OrderFrame DEF z

LEMMA OrderExit ==
  ASSUME StoresInv, OrderInv, NEW p \in Procs, Exit(p), printed' = printed,
         verdicts' = verdicts, late' = late, rekeyed => rekeyed'
  PROVE  OrderInv'
<1>1. PrintedInv'
  BY PrintedSame DEF OrderInv
<1>2. proc'[p] = Idle /\ \A q \in Procs \ {p} : proc'[q] = proc[q]
  BY DEF Exit, StoresInv
<1> QED BY <1>1, <1>2, OrderFrame, OrderIdle

\* The steps that bring nothing that another step waits for.
Special == {"rootKey", "midnightKey", "createConsentGrant", "signConsent", "checkGrant",
            "issuerKey"}

SameOrder(r, q) ==
    /\ Fields(q) /\ q.todo = r.todo /\ q.root = r.root /\ q.midnight = r.midnight
    /\ q.issuer = r.issuer /\ q.doc = r.doc

LEMMA PlainOrder ==
  ASSUME StoresInv, OrderInv, NEW p \in Procs, NEW op, At(p, op), op \notin Special,
         NEW r, SameOrder(proc[p], r),
         Continue(p, r) \/ \E f \in Files : Save(p, r, f),
         printed \subseteq printed', rekeyed' = rekeyed, PrintedInv'
  PROVE  OrderInv'
<1>1. Advances(proc[p], r, op, printed, rekeyed')
  BY DEF Advances, SameOrder, Special, Holds
<1>2. DocsOK(r, printed')
  BY DEF DocsOK, HasDoc, Holds, SameOrder, OrderInv
<1> QED BY <1>1, <1>2, OrderMove DEF SameOrder

\* The steps that leave a document to the next ones.
LEMMA KeepOrder ==
  ASSUME StoresInv, OrderInv, NEW p \in Procs, NEW op, At(p, op),
         op \notin {"rootKey", "midnightKey", "checkGrant", "issuerKey", "initialize",
                    "verifyCredential"} \cup Between,
         NEW r, SameOrder(proc[p], r), NEW type, NEW d,
         LET q == Keep(r, type, d)
         IN  Continue(p, q) \/ \E f \in Files : Save(p, q, f),
         type \notin {"export", "deckPermissions"},
         type = "grant" => d \in printed' /\ d.type = "grant",
         op \in {"createConsentGrant", "signConsent"} => type = "grant",
         printed \subseteq printed', rekeyed' = rekeyed, PrintedInv'
  PROVE  OrderInv'
<1> DEFINE q == Keep(r, type, d)
<1>1. Fields(q) /\ q.todo = proc[p].todo
  BY KeepFields DEF SameOrder
<1>2. /\ q.root = r.root /\ q.midnight = r.midnight /\ q.issuer = r.issuer
      /\ DOMAIN q.doc = DOMAIN r.doc \cup {type} /\ q.doc[type] = d
      /\ \A t \in DOMAIN r.doc : t # type => q.doc[t] = r.doc[t]
  BY KeepFields DEF SameOrder
<1>3. Continue(p, q) \/ \E f \in Files : Save(p, q, f)
  OBVIOUS
<1> HIDE DEF q
<1>4. Advances(proc[p], q, op, printed, rekeyed')
  BY <1>2 DEF Advances, SameOrder, Holds
<1>5. DocsOK(proc[p], printed)
  BY DEF OrderInv
<1>6. DocsOK(q, printed')
  BY <1>2, <1>5 DEF DocsOK, HasDoc, Holds, SameOrder
<1> QED BY <1>1, <1>3, <1>4, <1>6, OrderMove

LEMMA SameItself ==
  ASSUME StoresInv, NEW p \in Procs, NEW op, At(p, op)
  PROVE  SameOrder(proc[p], proc[p])
BY AtFields DEF SameOrder

LEMMA SamePut ==
  ASSUME NEW r, NEW q, SameOrder(r, q), NEW f \in Files, NEW rec
  PROVE  SameOrder(r, Put(q, f, rec))
BY PutFields DEF SameOrder

LEMMA SameLoaded ==
  ASSUME StoresInv, NEW p \in Procs, NEW op, At(p, op), NEW f \in Files \ Dirs
  PROVE  SameOrder(proc[p], Loaded(proc[p], f))
BY AtFields, LoadedFields DEF SameOrder

LEMMA PublishOrder ==
  ASSUME StoresInv, OrderInv, NEW p \in Procs, NEW op, At(p, op),
         op \notin {"rootKey", "midnightKey", "checkGrant", "issuerKey", "initialize",
                    "verifyCredential"} \cup Between,
         NEW kind, NEW type, NEW d, Publish(p, kind, type, d),
         type \notin {"export", "deckPermissions"}, type = "grant" => d.type = "grant",
         op \in {"createConsentGrant", "signConsent"} => type = "grant",
         rekeyed' = rekeyed, verdicts' = verdicts, late' = late,
         DocumentOK(d, printed')
  PROVE  OrderInv'
<1> DEFINE r == proc[p]
           q == Put(r, r.dir, Rec(kind, Fresh, None))
<1>1. Save(p, Keep(q, type, d), r.dir) /\ printed' = printed \cup {d}
  BY DEF Publish
<1>2. r.dir \in Files
  BY AtFields
<1>3. SameOrder(r, q)
  BY <1>2, SameItself, SamePut
<1>4. PrintedInv'
  BY <1>1, PrintedOne DEF OrderInv
<1> HIDE DEF q
<1>5. printed \subseteq printed' /\ d \in printed'
  BY <1>1
<1> QED BY <1>1, <1>2, <1>3, <1>4, <1>5, KeepOrder

-----------------------------------------------------------------------------
(* The order of the steps and the documents: the actions                   *)

\* Documents that are no grants, no exports and no proofs of a wallet.
LEMMA OtherDocuments ==
  ASSUME NEW d, "type" \in DOMAIN d, NEW docs,
         d.type \notin {"grant", "export", "proof"}
  PROVE  DocumentOK(d, docs)
BY DEF DocumentOK

LEMMA InitializeOrder ==
  ASSUME StoresInv, OrderInv, NEW p \in Procs, Initialize(p), UNCHANGED credentialVars
  PROVE  OrderInv'
<1>1. /\ At(p, "initialize") /\ Continue(p, Initialized(p))
      /\ printed' = printed /\ verdicts' = verdicts /\ late' = late /\ rekeyed' = rekeyed
  BY DEF Initialize, InitializePersistence, Initialized, Reader, credentialVars
<1>2. SameOrder(proc[p], Initialized(p))
  BY <1>1, AtFields, InitializedFields DEF SameOrder
<1>3. PrintedInv'
  BY <1>1, PrintedSame DEF OrderInv
<1> QED BY <1>1, <1>2, <1>3, PlainOrder DEF Special

LEMMA RootKeyOrder ==
  ASSUME StoresInv, OrderInv, NEW p \in Procs, LoadOrGenerateKeys(p), UNCHANGED credentialVars
  PROVE  OrderInv'
<1> DEFINE r == proc[p]
           fresh == Put(r, r.dir, Rec("rootKeyPair", "root", Fresh))
           k == DataOf(r, r.dir, "rootKeyPair", "root")
<1>1. /\ At(p, "rootKey")
      /\ printed' = printed /\ verdicts' = verdicts /\ late' = late /\ rekeyed' = rekeyed
  BY DEF LoadOrGenerateKeys, walletVars, credentialVars
<1>2. /\ ProcessOK(r, serial, switched) /\ Fields(r) /\ r.dir \in Files /\ Fresh \in Nat
      /\ DocsOK(r, printed)
  BY <1>1, AtFields DEF OrderInv
<1>3. PrintedInv'
  BY <1>1, PrintedSame DEF OrderInv
<1>4. ASSUME NEW z, NEW n \in Nat, SameOrder(r, z),
             LET q == LoadPairwiseIds([z EXCEPT !.root = n])
             IN  Continue(p, q) \/ \E f \in Files : Save(p, q, f)
      PROVE  OrderInv'
  <2> DEFINE q == LoadPairwiseIds([z EXCEPT !.root = n])
  <2>1. /\ Fields(q) /\ q.todo = r.todo /\ q.root = n /\ q.midnight = r.midnight
        /\ q.issuer = r.issuer /\ q.doc = r.doc
    BY <1>4, IdleFields DEF SameOrder, LoadPairwiseIds, Fields
  <2>2. Continue(p, q) \/ \E f \in Files : Save(p, q, f)
    BY <1>4
  <2> HIDE DEF q
  <2>3. n # None
    BY KindsApart
  <2>4. Advances(r, q, "rootKey", printed, rekeyed')
    BY <2>1, <2>3 DEF Advances, Holds, Between
  <2>5. DocsOK(q, printed')
    BY <1>1, <1>2, <2>1 DEF DocsOK, HasDoc, Holds
  <2> QED BY <1>1, <1>3, <2>1, <2>2, <2>4, <2>5, OrderMove
<1>5. CASE Has(r, r.dir, "rootKeyPair", "root")
  <2>1. k \in Nat
    BY <1>2, <1>5, KeyOfStore DEF Scalars
  <2>2. Continue(p, LoadPairwiseIds([r EXCEPT !.root = k]))
    BY <1>5 DEF LoadOrGenerateKeys
  <2> QED BY <1>1, <1>4, <2>1, <2>2, SameItself
<1>6. CASE ~ Has(r, r.dir, "rootKeyPair", "root")
  <2>1. Save(p, LoadPairwiseIds([fresh EXCEPT !.root = Fresh]), r.dir)
    BY <1>6 DEF LoadOrGenerateKeys
  <2>2. SameOrder(r, fresh)
    BY <1>1, <1>2, SameItself, SamePut
  <2> QED BY <1>2, <1>4, <2>1, <2>2
<1> QED BY <1>5, <1>6

LEMMA PairwiseOrder ==
  ASSUME StoresInv, OrderInv, NEW p \in Procs, GetPairwiseId(p), UNCHANGED credentialVars
  PROVE  OrderInv'
<1> DEFINE r == proc[p]
           a == r.doc["request"].audience
           new == Put(r, r.dir, Rec("pairwiseIds", a, r.root))
           q == [new EXCEPT !.pairwise[a] = r.root]
<1>1. /\ At(p, "pairwise")
      /\ Continue(p, r) \/ Save(p, q, r.dir)
      /\ printed' = printed /\ verdicts' = verdicts /\ late' = late /\ rekeyed' = rekeyed
  BY DEF GetPairwiseId, walletVars, credentialVars
<1>2. r.dir \in Files /\ SameOrder(r, r) /\ SameOrder(r, new)
  BY <1>1, AtFields, SameItself, SamePut
<1>3. PrintedInv'
  BY <1>1, PrintedSame DEF OrderInv
<1> HIDE DEF new
<1>4. SameOrder(r, q)
  BY <1>2, IdleFields DEF SameOrder, Fields
<1> HIDE DEF q
<1> QED BY <1>1, <1>2, <1>3, <1>4, PlainOrder DEF Special

\* The documents that the wallet makes: requests, grants and proofs.
LEMMA RequestsOrder ==
  ASSUME StoresInv, OrderInv, NEW p \in Procs, UNCHANGED credentialVars,
         \/ CreateRequest(p) \/ CreateConsentGrant(p) \/ CreateConsentGrantWithSigner(p)
         \/ CreateGrant(p)
  PROVE  OrderInv'
<1> DEFINE asked == proc[p].doc["request"]
<1>1. verdicts' = verdicts /\ late' = late /\ rekeyed' = rekeyed
  BY DEF credentialVars
<1>2. CASE CreateRequest(p)
  <2>1. PICK d : /\ Publish(p, "proofRequests", "request", d)
                 /\ "type" \in DOMAIN d /\ d.type = "request"
    BY <1>2 DEF CreateRequest, Request
  <2>2. At(p, "createRequest")
    BY <1>2 DEF CreateRequest
  <2> QED BY <1>1, <2>1, <2>2, PublishOrder, OtherDocuments DEF Between
<1>3. ASSUME NEW signer,
             Publish(p, "consentGrants", "grant", Grant(Fresh, asked, Granted(proc[p]), signer)),
             At(p, "createConsentGrant") \/ At(p, "signConsent") \/ At(p, "createGrant")
      PROVE  OrderInv'
  <2> DEFINE d == Grant(Fresh, asked, Granted(proc[p]), signer)
  <2>1. DocumentOK(d, printed') /\ d.type = "grant"
    BY DEF DocumentOK, Grant
  <2> HIDE DEF d
  <2> QED BY <1>1, <1>3, <2>1, PublishOrder DEF Between, d
<1>4. CASE CreateConsentGrant(p)
  BY <1>3, <1>4 DEF CreateConsentGrant
<1>5. CASE CreateConsentGrantWithSigner(p)
  BY <1>1, <1>3, <1>5, OrderExit DEF CreateConsentGrantWithSigner, walletVars
<1>6. CASE CreateGrant(p)
  BY <1>3, <1>6 DEF CreateGrant
<1> QED BY <1>2, <1>4, <1>5, <1>6

LEMMA CheckGrantOrder ==
  ASSUME StoresInv, OrderInv, NEW p \in Procs, UNCHANGED credentialVars, CheckGrant(p)
  PROVE  OrderInv'
<1> DEFINE r == proc[p]
<1>1. /\ At(p, "checkGrant")
      /\ printed' = printed /\ verdicts' = verdicts /\ late' = late /\ rekeyed' = rekeyed
  BY DEF CheckGrant, walletVars, credentialVars
<1>2. CASE Exit(p)
  BY <1>1, <1>2, OrderExit
<1>3. CASE Continue(p, r) /\ Binds(r.doc["grant"], r.doc["request"])
  <2>1. PrintedInv' /\ DocsOK(r, printed')
    BY <1>1, PrintedSame DEF OrderInv
  <2>2. SameRequest(r)
    BY <1>1, <1>3, KeysAreThere DEF SameRequest, HasDoc
  <2>3. Advances(r, r, "checkGrant", printed, rekeyed')
    BY <2>2 DEF Advances
  <2> QED BY <1>1, <1>3, <2>1, <2>3, AtFields, OrderMove
<1> QED BY <1>2, <1>3 DEF CheckGrant

\* A proof is made of the grant that was compared with its request.
LEMMA ProofsOrder ==
  ASSUME StoresInv, OrderInv, NEW p \in Procs, UNCHANGED credentialVars,
         GenerateProof(p) \/ GenerateProofFromCredential(p)
  PROVE  OrderInv'
<1> DEFINE r == proc[p]
           asked == r.doc["request"]
<1>1. /\ At(p, "generateProof") \/ At(p, "credentialProof")
      /\ verdicts' = verdicts /\ late' = late /\ rekeyed' = rekeyed
  BY DEF GenerateProof, GenerateProofFromCredential, credentialVars
<1>2. SameRequest(r) /\ DocsOK(r, printed)
  BY <1>1, KeysAreThere DEF OrderInv
<1>3. HasDoc(r, "grant", printed)
  BY <1>2 DEF SameRequest, DocsOK
<1> DEFINE g == r.doc["grant"]
           available == AvailablePermissions(r)
<1>4. g \in printed /\ g.type = "grant" /\ Binds(g, asked)
  BY <1>2, <1>3 DEF HasDoc, SameRequest
<1>a. available = g \/ available.type = "deckPermissions"
  BY <1>2 DEF AvailablePermissions, DocsOK
<1>5. PICK satisfied, by, from :
         /\ Publish(p, "proofs", "proof", Proof(Fresh, asked, satisfied, by, from))
         /\ from.type = "grant" => from = g /\ satisfied \subseteq g.permissions
  <2>1. CASE GenerateProof(p)
    <3> DEFINE satisfied == asked.required \cap available.permissions
               by == r.pairwise[asked.audience]
    <3>1. Publish(p, "proofs", "proof", Proof(Fresh, asked, satisfied, by, available))
      BY <2>1 DEF GenerateProof
    <3>2. available.type = "grant" => available = g /\ satisfied \subseteq g.permissions
      BY <1>a
    <3> QED BY <3>1, <3>2
  <2>2. CASE GenerateProofFromCredential(p)
    <3> DEFINE from == CredentialHash(r.doc["credential"])
    <3>1. from.type = "credentialHash"
      BY DEF CredentialHash
    <3>2. Publish(p, "proofs", "proof",
                  Proof(Fresh, asked, asked.required, r.pairwise[asked.audience], from))
      BY <2>2 DEF GenerateProofFromCredential
    <3> HIDE DEF from
    <3> QED BY <3>1, <3>2
  <2> QED BY <2>1, <2>2
<1> DEFINE d == Proof(Fresh, asked, satisfied, by, from)
<1>6. /\ DOMAIN d = {"type", "id", "request", "satisfied", "verified", "by", "from"}
      /\ d.type = "proof" /\ d.request = asked /\ d.satisfied = satisfied /\ d.from = from
  BY DEF Proof
<1>7. Publish(p, "proofs", "proof", d) /\ printed \subseteq printed'
  BY <1>5 DEF Publish
<1> HIDE DEF d
<1>8. DocumentOK(d, printed')
  BY <1>4, <1>5, <1>6, <1>7 DEF DocumentOK
<1> QED BY <1>1, <1>6, <1>7, <1>8, PublishOrder DEF Between

\* Steps that leave the documents, the verdicts and the keys alone.
LEMMA QuietOrder ==
  ASSUME StoresInv, OrderInv, NEW p \in Procs, NEW op, At(p, op), op \notin Special,
         NEW r, SameOrder(proc[p], r),
         Exit(p) \/ Continue(p, r) \/ \E f \in Files : Save(p, r, f),
         printed' = printed, verdicts' = verdicts, late' = late, rekeyed' = rekeyed
  PROVE  OrderInv'
<1>1. PrintedInv'
  BY PrintedSame DEF OrderInv
<1> QED BY <1>1, PlainOrder, OrderExit

LEMMA SavingOrder ==
  ASSUME StoresInv, OrderInv, NEW p \in Procs, UNCHANGED credentialVars,
         \/ SubmitReceipt(p) \/ GetOrCreateLocalSigner(p) \/ AnchorCredential(p)
         \/ DeleteCredential(p) \/ CheckCredential(p) \/ Decrypt(p)
  PROVE  OrderInv'
<1> USE DEF walletVars, credentialVars, Special
<1> DEFINE r == proc[p]
<1>1. ASSUME NEW op, At(p, op)
      PROVE  /\ SameOrder(r, r) /\ r.dir \in Files
             /\ \A rec : SameOrder(r, Put(r, r.dir, rec))
  BY <1>1, AtFields, SameItself, SamePut
<1>2. CASE SubmitReceipt(p)
  <2>1. At(p, "submitReceipt")
    BY <1>2 DEF SubmitReceipt
  <2>2. PICK rec : Continue(p, r) \/ Save(p, Put(r, r.dir, rec), r.dir)
    BY <1>2 DEF SubmitReceipt
  <2> QED BY <1>1, <1>2, <2>1, <2>2, QuietOrder DEF SubmitReceipt
<1>3. CASE GetOrCreateLocalSigner(p)
  <2>1. At(p, "localSigner")
    BY <1>3 DEF GetOrCreateLocalSigner
  <2>2. PICK rec : Continue(p, r) \/ Save(p, Put(r, r.dir, rec), r.dir)
    BY <1>3 DEF GetOrCreateLocalSigner
  <2> QED BY <1>1, <1>3, <2>1, <2>2, QuietOrder DEF GetOrCreateLocalSigner
<1>4. CASE AnchorCredential(p)
  <2>1. At(p, "anchorCredential")
    BY <1>4 DEF AnchorCredential
  <2>2. PICK rec : Save(p, Put(r, r.dir, rec), r.dir)
    BY <1>4 DEF AnchorCredential
  <2> QED BY <1>1, <1>4, <2>1, <2>2, QuietOrder DEF AnchorCredential
<1>5. CASE DeleteCredential(p)
  <2>1. At(p, "deleteCredential")
    BY <1>5 DEF DeleteCredential
  <2>2. PICK gone : Save(p, [r EXCEPT !.mem[r.dir] = @ \ gone, !.seen[r.dir] = @ \ gone], r.dir)
    BY <1>5 DEF DeleteCredential
  <2> DEFINE q == [r EXCEPT !.mem[r.dir] = @ \ gone, !.seen[r.dir] = @ \ gone]
  <2>3. SameOrder(r, q)
    BY <1>1, <2>1, IdleFields DEF SameOrder, Fields
  <2>4. Save(p, q, r.dir)
    BY <2>2
  <2> HIDE DEF q
  <2> QED BY <1>1, <1>5, <2>1, <2>3, <2>4, QuietOrder DEF DeleteCredential
<1>6. CASE CheckCredential(p)
  BY <1>1, <1>6, QuietOrder DEF CheckCredential
<1>7. CASE Decrypt(p)
  BY <1>1, <1>7, QuietOrder DEF Decrypt
<1> QED BY <1>2, <1>3, <1>4, <1>5, <1>6, <1>7

LEMMA ReplayOrder ==
  ASSUME StoresInv, OrderInv, NEW p \in Procs, UNCHANGED credentialVars,
         Verify(p) \/ ClearReplayCache(p)
  PROVE  OrderInv'
<1> DEFINE r == Loaded(proc[p], "replay")
<1>1. /\ At(p, "verify") \/ At(p, "clearReplay")
      /\ printed' = printed /\ verdicts' = verdicts /\ late' = late /\ rekeyed' = rekeyed
  BY DEF Verify, ClearReplayCache, credentialVars
<1>2. SameOrder(proc[p], r) /\ "replay" \in Files
  BY <1>1, SameLoaded, OtherFiles
<1>3. \/ Continue(p, r)
      \/ \E k : Save(p, [r EXCEPT !.mem["replay"] = @ \cup {k}], "replay")
      \/ Save(p, [r EXCEPT !.mem["replay"] = {}, !.seen["replay"] = {}], "replay")
  BY DEF Verify, ClearReplayCache
<1> HIDE DEF r
<1>4. /\ \A k : SameOrder(proc[p], [r EXCEPT !.mem["replay"] = @ \cup {k}])
      /\ SameOrder(proc[p], [r EXCEPT !.mem["replay"] = {}, !.seen["replay"] = {}])
  BY <1>2, IdleFields DEF SameOrder, Fields
<1>5. PICK q : SameOrder(proc[p], q) /\ (Continue(p, q) \/ \E f \in Files : Save(p, q, f))
  BY <1>2, <1>3, <1>4
<1> QED BY <1>1, <1>5, QuietOrder DEF Special

LEMMA IssuerKeyOrder ==
  ASSUME StoresInv, OrderInv, NEW p \in Procs, LoadOrGenerateIssuerKey(p)
  PROVE  OrderInv'
<1> DEFINE r == proc[p]
           stored == Has(r, r.dir, "issuerKeys", "default")
           key == IF stored THEN DataOf(r, r.dir, "issuerKeys", "default") ELSE Fresh
           new == Put(r, r.dir, Rec("issuerKeys", "default", key))
<1>1. /\ At(p, "issuerKey")
      /\ printed' = printed /\ verdicts' = verdicts /\ late' = late
      /\ rekeyed' = (rekeyed \/ \E c \in printed : c.type = "credential" /\ c.issuer # key)
      /\ Continue(p, [r EXCEPT !.issuer = key]) \/ Save(p, [new EXCEPT !.issuer = key], r.dir)
  BY DEF LoadOrGenerateIssuerKey, walletVars
<1>2. r.dir \in Files /\ SameOrder(r, r) /\ DocsOK(r, printed)
  BY <1>1, AtFields, SameItself DEF OrderInv
<1>3. SameOrder(r, new)
  BY <1>2, SamePut
<1> HIDE DEF key, new
<1>4. PrintedInv'
  BY <1>1, PrintedSame DEF OrderInv
<1>5. ASSUME NEW z, SameOrder(r, z),
             LET q == [z EXCEPT !.issuer = key]
             IN  Continue(p, q) \/ \E f \in Files : Save(p, q, f)
      PROVE  OrderInv'
  <2> DEFINE q == [z EXCEPT !.issuer = key]
  <2>1. /\ Fields(q) /\ q.todo = r.todo /\ q.root = r.root /\ q.midnight = r.midnight
        /\ q.issuer = key /\ q.doc = r.doc
    BY <1>5, IdleFields DEF SameOrder, Fields
  <2>2. Continue(p, q) \/ \E f \in Files : Save(p, q, f)
    BY <1>5
  <2> HIDE DEF q
  <2>3. Advances(r, q, "issuerKey", printed, rekeyed')
    BY <1>1, <2>1 DEF Advances, Holds
  <2>4. DocsOK(q, printed')
    BY <1>1, <1>2, <2>1 DEF DocsOK, HasDoc, Holds
  <2> QED BY <1>1, <1>4, <2>1, <2>2, <2>3, <2>4, OrderMove
<1> QED BY <1>1, <1>2, <1>3, <1>5

LEMMA MidnightKeyOrder ==
  ASSUME StoresInv, OrderInv, NEW p \in Procs, InitMidnight(p)
  PROVE  OrderInv'
<1> DEFINE r == proc[p]
           new == Put(r, r.dir, Rec("midnightKey", "key", Fresh))
           k == DataOf(r, r.dir, "midnightKey", "key")
<1>1. /\ At(p, "midnightKey")
      /\ printed' = printed /\ verdicts' = verdicts /\ late' = late /\ rekeyed' = rekeyed
  BY DEF InitMidnight, walletVars, credentialVars
<1>2. /\ ProcessOK(r, serial, switched) /\ Fields(r) /\ r.dir \in Files /\ Fresh \in Nat
      /\ DocsOK(r, printed) /\ SameOrder(r, r)
  BY <1>1, AtFields, SameItself DEF OrderInv
<1>3. SameOrder(r, new)
  BY <1>2, SamePut
<1>4. PrintedInv'
  BY <1>1, PrintedSame DEF OrderInv
<1>5. ASSUME NEW z, NEW n \in Nat, SameOrder(r, z),
             LET q == [z EXCEPT !.midnight = n]
             IN  Continue(p, q) \/ \E f \in Files : Save(p, q, f)
      PROVE  OrderInv'
  <2> DEFINE q == [z EXCEPT !.midnight = n]
  <2>1. /\ Fields(q) /\ q.todo = r.todo /\ q.root = r.root /\ q.midnight = n
        /\ q.issuer = r.issuer /\ q.doc = r.doc
    BY <1>5, IdleFields DEF SameOrder, Fields
  <2>2. Continue(p, q) \/ \E f \in Files : Save(p, q, f)
    BY <1>5
  <2> HIDE DEF q
  <2>3. n # None
    BY KindsApart
  <2>4. Advances(r, q, "midnightKey", printed, rekeyed')
    BY <2>1, <2>3 DEF Advances, Holds, Between
  <2>5. DocsOK(q, printed')
    BY <1>1, <1>2, <2>1 DEF DocsOK, HasDoc, Holds
  <2> QED BY <1>1, <1>4, <2>1, <2>2, <2>4, <2>5, OrderMove
<1>6. CASE Has(r, r.dir, "midnightKey", "key")
  <2>1. k \in Nat
    BY <1>2, <1>6, KeyOfStore DEF Scalars
  <2>2. Continue(p, [r EXCEPT !.midnight = k])
    BY <1>6 DEF InitMidnight
  <2> QED BY <1>2, <1>5, <2>1, <2>2
<1>7. CASE ~ Has(r, r.dir, "midnightKey", "key")
  <2>1. Save(p, [new EXCEPT !.midnight = Fresh], r.dir)
    BY <1>7 DEF InitMidnight
  <2> QED BY <1>2, <1>3, <1>5, <2>1
<1> QED BY <1>6, <1>7

LEMMA VerifyCredentialOrder ==
  ASSUME StoresInv, OrderInv, NEW p \in Procs, late \in BOOLEAN, VerifyCredential(p)
  PROVE  OrderInv'
<1> DEFINE r == proc[p]
           c == r.doc["credential"]
           valid == SignatureValid(r, c) /\ ~Expired(c)
           v == <<c, valid>>
<1>1. /\ At(p, "verifyCredential") /\ Continue(p, r)
      /\ printed' = printed /\ late' = late /\ rekeyed' = rekeyed
      /\ verdicts' = verdicts \cup {v}
  BY DEF VerifyCredential, walletVars
<1>2. rekeyed \/ c.issuer = r.issuer
  BY <1>1, KeysAreThere
<1>3. VerdictOK(v, rekeyed, late)
  <2>1. v[1] = c /\ v[2] = valid /\ valid \in BOOLEAN
    OBVIOUS
  <2>2. valid => c.signed = c.claims
    BY DEF SignatureValid
  <2>3. rekeyed \/ (late /\ c.expires) \/ (valid <=> c.signed = c.claims)
    BY <1>2 DEF SignatureValid, Expired
  <2> HIDE DEF valid, v, c
  <2>4. v[2] <=> valid
    BY <2>1
  <2> QED BY <2>1, <2>2, <2>3, <2>4 DEF VerdictOK
<1> HIDE DEF v
<1>4. PrintedInv'
  BY <1>1, <1>3 DEF OrderInv, PrintedInv, DocumentOK
<1> QED BY <1>1, <1>4, SameItself, PlainOrder DEF Special

\* The steps that print, or keep, a document that none of the theorems is about.
LEMMA DocumentsOrder ==
  ASSUME StoresInv, OrderInv, NEW p \in Procs, UNCHANGED credentialVars,
         \/ IssueCredential(p) \/ FindCredential(p) \/ StoreCredential(p) \/ LoadCredential(p)
         \/ Encrypt(p) \/ LaceInit(p) \/ LaceConnect(p) \/ LaceAddresses(p) \/ LaceSign(p)
  PROVE  OrderInv'
<1> USE DEF walletVars, credentialVars, deckVars
<1> DEFINE r == proc[p]
<1>1. ASSUME NEW op, At(p, op)
      PROVE  SameOrder(r, r) /\ r.dir \in Files
  BY <1>1, AtFields, SameItself
<1>2. PrintedInv
  BY DEF OrderInv
<1>3. ASSUME NEW op, At(p, op), op \notin Special, Continue(p, r) \/ Exit(p), printed' = printed
      PROVE  OrderInv'
  BY <1>1, <1>3, QuietOrder
<1>4. ASSUME NEW op, At(p, op), op \notin Special, Continue(p, r),
             NEW d, "type" \in DOMAIN d, d.type \notin {"grant", "export", "proof"},
             printed' = printed \cup {d}
      PROVE  OrderInv'
  <2>1. PrintedInv'
    BY <1>2, <1>4, PrintedOne, OtherDocuments
  <2> QED BY <1>1, <1>4, <2>1, PlainOrder
<1>5. ASSUME NEW op, At(p, op), op \notin Special \cup Between \cup {"initialize", "verifyCredential"},
             NEW type, NEW d, Continue(p, Keep(r, type, d)), printed' = printed,
             type \notin {"grant", "export", "deckPermissions"}
      PROVE  OrderInv'
  <2>1. PrintedInv'
    BY <1>2, <1>5, PrintedSame
  <2> QED BY <1>1, <1>5, <2>1, KeepOrder DEF Special
<1>6. CASE IssueCredential(p)
  <2>1. PICK d : /\ Publish(p, "credentials", "credential", d)
                 /\ "type" \in DOMAIN d /\ d.type = "credential"
    BY <1>6 DEF IssueCredential, Credential
  <2>2. At(p, "issueCredential")
    BY <1>6 DEF IssueCredential
  <2> QED BY <2>1, <2>2, PublishOrder, OtherDocuments DEF Between
<1>7. CASE FindCredential(p)
  BY <1>3, <1>5, <1>7 DEF FindCredential, Special, Between
<1>8. CASE StoreCredential(p)
  <2> DEFINE q == Put(r, r.dir, Rec("midnightCredentials", Fresh, r.midnight))
             d == Ref(Fresh, r.doc["credential"])
  <2>1. At(p, "storeCredential") /\ Save(p, Keep(q, "ref", d), r.dir)
        /\ printed' = printed \cup {d}
    BY <1>8 DEF StoreCredential
  <2>2. "type" \in DOMAIN d /\ d.type = "ref"
    BY DEF Ref
  <2>3. SameOrder(r, q) /\ r.dir \in Files
    BY <1>1, <2>1, SamePut
  <2> HIDE DEF q, d
  <2>4. PrintedInv'
    BY <1>2, <2>1, <2>2, PrintedOne, OtherDocuments
  <2> QED BY <2>1, <2>3, <2>4, KeepOrder DEF Between
<1>9. CASE LoadCredential(p)
  BY <1>3, <1>5, <1>9 DEF LoadCredential, Special, Between
<1>a. CASE Encrypt(p)
  <2> DEFINE d == Ciphertext(r.midnight)
  <2>1. At(p, "encrypt") /\ Continue(p, r) /\ printed' = printed \cup {d}
    BY <1>a DEF Encrypt
  <2>2. "type" \in DOMAIN d /\ d.type = "ciphertext"
    BY DEF Ciphertext
  <2> HIDE DEF d
  <2> QED BY <1>4, <2>1, <2>2 DEF Special
<1>b. CASE LaceInit(p)
  BY <1>3, <1>b DEF LaceInit, Special
<1>c. CASE LaceConnect(p)
  BY <1>5, <1>c DEF LaceConnect, Special, Between
<1>d. CASE LaceAddresses(p)
  <2> DEFINE known == IF Connected(r) THEN r.doc["lace"].addresses ELSE <<>>
             d == [type |-> "addresses", addresses |-> known]
  <2>1. At(p, "laceAddresses") /\ Continue(p, r) /\ printed' = printed \cup {d}
    BY <1>d DEF LaceAddresses
  <2>2. "type" \in DOMAIN d /\ d.type = "addresses"
    OBVIOUS
  <2> HIDE DEF d
  <2> QED BY <1>4, <2>1, <2>2 DEF Special
<1>e. CASE LaceSign(p)
  <2> DEFINE d == [type |-> "signature", key |-> r.doc["lace"].addresses[1]]
  <2>1. /\ At(p, "laceSign")
        /\ \/ Exit(p) /\ printed' = printed
           \/ Continue(p, r) /\ printed' = printed \cup {d}
    BY <1>e DEF LaceSign
  <2>2. "type" \in DOMAIN d /\ d.type = "signature"
    OBVIOUS
  <2> HIDE DEF d
  <2> QED BY <1>3, <1>4, <2>1, <2>2 DEF Special
<1> QED BY <1>6, <1>7, <1>8, <1>9, <1>a, <1>b, <1>c, <1>d, <1>e

LEMMA DecksOrder ==
  ASSUME StoresInv, OrderInv, NEW p \in Procs, UNCHANGED credentialVars,
         \/ DeckList(p) \/ DeckShow(p) \/ DeckCreate(p) \/ DeckAddSource(p) \/ DeckExport(p)
         \/ DeckImport(p) \/ GetOrCreateDid(p)
  PROVE  OrderInv'
<1> USE DEF walletVars, credentialVars, deckVars
<1> DEFINE r == Loaded(proc[p], "decks")
<1>1. ASSUME NEW op, At(p, op)
      PROVE  /\ SameOrder(proc[p], r) /\ "decks" \in Files
             /\ \A rec : SameOrder(proc[p], Put(r, "decks", rec))
             /\ ProcessOK(r, serial, switched)
  BY <1>1, SameLoaded, SamePut, OtherFiles, AskedFor
<1>2. PrintedInv
  BY DEF OrderInv
<1>3. CASE DeckList(p)
  <2>1. At(p, "deckList") /\ Continue(p, r)
    BY <1>3 DEF DeckList
  <2> QED BY <1>1, <1>3, <2>1, QuietOrder DEF DeckList, Special
<1>4. CASE DeckShow(p)
  <2>1. At(p, "deckShow")
    BY <1>4 DEF DeckShow
  <2>2. Continue(p, r) \/ Exit(p)
    BY <1>4 DEF DeckShow
  <2> QED BY <1>1, <1>4, <2>1, <2>2, QuietOrder DEF DeckShow, Special
<1>5. CASE DeckCreate(p)
  <2> DEFINE deck == r.doc["deck"].id
             d == [type |-> "instance", id |-> Fresh, deck |-> deck]
             q == Put(r, "decks", Rec("instances", Fresh, deck))
  <2>1. /\ At(p, "deckCreate")
        /\ \/ Exit(p) /\ printed' = printed
           \/ /\ Save(p, Keep(q, "instance", d), "decks")
              /\ printed' = printed \cup {d}
    BY <1>5 DEF DeckCreate
  <2>2. CASE Exit(p) /\ printed' = printed
    BY <2>2, OrderExit
  <2>3. CASE Save(p, Keep(q, "instance", d), "decks") /\ printed' = printed \cup {d}
    <3>1. "type" \in DOMAIN d /\ d.type = "instance"
      OBVIOUS
    <3>2. SameOrder(proc[p], q) /\ "decks" \in Files
      BY <1>1, <2>1
    <3> HIDE DEF q, d
    <3>3. PrintedInv'
      BY <1>2, <2>3, <3>1, PrintedOne, OtherDocuments
    <3> QED BY <2>1, <2>3, <3>2, <3>3, KeepOrder DEF Between
  <2> QED BY <2>1, <2>2, <2>3
<1>6. CASE DeckAddSource(p)
  <2>1. At(p, "addSource")
    BY <1>6 DEF DeckAddSource
  <2>2. PICK rec : Save(p, Put(r, "decks", rec), "decks") \/ Exit(p)
    BY <1>6 DEF DeckAddSource
  <2> HIDE DEF r
  <2> QED BY <1>1, <1>6, <2>1, <2>2, QuietOrder DEF DeckAddSource, Special
<1>7. CASE DeckExport(p)
  <2> DEFINE i == r.doc["instance"]
             sources == {x \in r.mem["decks"] : x.id = i.id} \ Instances(r.mem["decks"])
             d == [type |-> "export", id |-> i.id, deck |-> i.deck, sources |-> sources]
  <2>1. /\ At(p, "deckExport")
        /\ \/ Exit(p) /\ printed' = printed
           \/ Continue(p, r) /\ printed' = printed \cup {d}
    BY <1>7 DEF DeckExport
  <2>2. CASE Exit(p) /\ printed' = printed
    BY <2>2, OrderExit
  <2>3. CASE Continue(p, r) /\ printed' = printed \cup {d}
    <3>1. SameOrder(proc[p], r)
      BY <1>1, <2>1
    <3>2. \A x \in r.mem["decks"] :
             x = Rec(x.kind, x.id, x.data) /\ x.kind \in Permissions \cup {"instances"}
      <4>1. StoreOK("decks", r.mem["decks"], serial, switched)
        BY <1>1, <2>1 DEF ProcessOK
      <4> HIDE DEF r
      <4> QED BY <4>1 DEF StoreOK, RecordOK, KindsOf, Dirs
    <3> HIDE DEF r
    <3>3. \A x \in sources : x = Rec(x.kind, x.id, x.data) /\ x.kind \in Permissions
      BY <3>2 DEF Instances
    <3> HIDE DEF sources
    <3>4. "type" \in DOMAIN d /\ d.type = "export" /\ d.sources = sources
      OBVIOUS
    <3> HIDE DEF d
    <3>5. DocumentOK(d, printed')
      BY <3>3, <3>4 DEF DocumentOK
    <3>6. PrintedInv'
      BY <1>2, <2>3, <3>5, PrintedOne
    <3> QED BY <2>1, <2>3, <3>1, <3>6, PlainOrder DEF Special
  <2> QED BY <2>1, <2>2, <2>3
<1>8. CASE DeckImport(p)
  <2>1. At(p, "importSources")
    BY <1>8 DEF DeckImport
  <2>2. PICK recs : Continue(p, r) \/ Save(p, [r EXCEPT !.mem["decks"] = @ \cup recs], "decks")
    BY <1>8 DEF DeckImport
  <2> DEFINE q == [r EXCEPT !.mem["decks"] = @ \cup recs]
  <2>3. Continue(p, r) \/ Save(p, q, "decks")
    BY <2>2
  <2> HIDE DEF r
  <2>4. SameOrder(proc[p], q)
    BY <1>1, <2>1, IdleFields DEF SameOrder, Fields
  <2> HIDE DEF q
  <2> QED BY <1>1, <1>8, <2>1, <2>3, <2>4, QuietOrder DEF DeckImport, Special
<1>9. CASE GetOrCreateDid(p)
  <2> DEFINE z == Loaded(proc[p], "didMap")
  <2>1. At(p, "pairwiseDid")
    BY <1>9 DEF GetOrCreateDid
  <2>2. SameOrder(proc[p], z) /\ "didMap" \in Files
    BY <2>1, SameLoaded, OtherFiles
  <2>3. PICK recs : Continue(p, z) \/ Save(p, [z EXCEPT !.mem["didMap"] = @ \cup recs], "didMap")
    BY <1>9 DEF GetOrCreateDid
  <2> DEFINE q == [z EXCEPT !.mem["didMap"] = @ \cup recs]
  <2>4. Continue(p, z) \/ Save(p, q, "didMap")
    BY <2>3
  <2> HIDE DEF z
  <2>5. SameOrder(proc[p], q)
    BY <2>2, IdleFields DEF SameOrder, Fields
  <2> HIDE DEF q
  <2> QED BY <1>9, <2>1, <2>2, <2>4, <2>5, QuietOrder DEF GetOrCreateDid, Special
<1> QED BY <1>3, <1>4, <1>5, <1>6, <1>7, <1>8, <1>9

LEMMA CreateProofOrder ==
  ASSUME StoresInv, OrderInv, NEW p \in Procs, CreateProof(p)
  PROVE  OrderInv'
<1> DEFINE r == IF Holds(proc[p], "instance") THEN Loaded(proc[p], "decks") ELSE proc[p]
           q == Put(r, r.dir, Rec("proofs", Fresh, None))
           asked == r.doc["request"]
           satisfied == asked.required \cap Available(r.mem["decks"], r)
           d == Proof(Fresh, asked, satisfied, Legacy,
                      DeckPermissionsGiven(Available(r.mem["decks"], r)))
<1>1. /\ At(p, "createProof")
      /\ verdicts' = verdicts /\ late' = late /\ rekeyed' = rekeyed
      /\ \/ Exit(p) /\ printed' = printed
         \/ Save(p, Keep(q, "proof", d), r.dir) /\ printed' = printed \cup {d}
  BY DEF CreateProof, walletVars, credentialVars
<1>2. SameOrder(proc[p], r) /\ r.dir \in Files
  BY <1>1, SameLoaded, SameItself, AskedFor, AtFields, OtherFiles
<1>3. CASE Exit(p) /\ printed' = printed
  BY <1>1, <1>3, OrderExit
<1>4. CASE Save(p, Keep(q, "proof", d), r.dir) /\ printed' = printed \cup {d}
  <2>1. "type" \in DOMAIN d /\ d.type = "proof" /\ d.by = Legacy
    BY DEF Proof
  <2> HIDE DEF d, r
  <2>2. SameOrder(proc[p], q)
    BY <1>2, SamePut
  <2> HIDE DEF q
  <2>3. DocumentOK(d, printed')
    BY <2>1 DEF DocumentOK
  <2>4. PrintedInv'
    BY <1>1, <1>4, <2>3, PrintedOne DEF OrderInv
  <2> QED BY <1>1, <1>2, <1>4, <2>2, <2>4, KeepOrder DEF Between
<1> QED BY <1>1, <1>3, <1>4

LEMMA PipelineOrder ==
  ASSUME StoresInv, OrderInv, NEW p \in Procs, CheckStep(p)
  PROVE  OrderInv'
<1> DEFINE r == proc[p]
<1>1. PrintedInv' /\ printed' = printed /\ rekeyed' = rekeyed /\ verdicts' = verdicts /\ late' = late
  <2>1. printed' = printed /\ rekeyed' = rekeyed /\ verdicts' = verdicts /\ late' = late
    BY DEF CheckStep, Check, checkOnly, checkIdentity, checkAnchor, checkDeck, checkGrant,
           checkProof, checkReceipt, cleanup, walletVars, credentialVars
  <2> QED BY <2>1, PrintedSame DEF OrderInv
<1>2. ASSUME NEW op, At(p, op), proc' = [proc EXCEPT ![p].todo = <<"cleanup">>]
      PROVE  OrderInv'
  <2> DEFINE q == proc'[p]
             needs == {}
  <2>1. /\ q.todo = <<"cleanup">> /\ q.doc = r.doc /\ q.issuer = r.issuer
        /\ q.root = r.root /\ q.midnight = r.midnight
        /\ \A z \in Procs \ {p} : proc'[z] = proc[z]
    BY <1>2, AtFields, IdleFields DEF StoresInv, Fields
  <2> HIDE DEF q
  <2>2. Len(q.todo) = 1 /\ q.todo[1] = "cleanup"
    BY <2>1
  <2>3. OrderOK(q, printed', rekeyed')
    BY <2>2 DEF OrderOK, Planned, Follows, OneRootKey, Checked, Imports, Verifies
  <2>4. DocsOK(q, printed')
    BY <1>1, <2>1 DEF OrderInv, DocsOK, HasDoc, Holds
  <2> QED BY <1>1, <2>1, <2>3, <2>4, OrderFrame DEF q
<1>3. ASSUME NEW op, NEW kind, Check(p, op, kind), op \notin Special
      PROVE  OrderInv'
  <2> DEFINE q == Put(r, r.dir, Rec(kind, Fresh, None))
  <2>1. /\ At(p, op)
        /\ Save(p, q, r.dir) \/ proc' = [proc EXCEPT ![p].todo = <<"cleanup">>]
    BY <1>3 DEF Check
  <2>2. r.dir \in Files /\ SameOrder(r, q)
    BY <2>1, AtFields, SameItself, SamePut
  <2> HIDE DEF q
  <2> QED BY <1>1, <1>2, <1>3, <2>1, <2>2, QuietOrder
<1>4. CASE checkOnly(p)
  BY <1>1, <1>2, <1>4, SameItself, QuietOrder DEF checkOnly, Special
<1>5. CASE cleanup(p)
  BY <1>1, <1>5, SameItself, QuietOrder DEF cleanup, Special
<1> QED BY <1>3, <1>4, <1>5
     DEF CheckStep, checkIdentity, checkAnchor, checkDeck, checkGrant, checkProof, checkReceipt,
         Special

\* The arguments of a command are no documents.
Arguments == {"ask", "claims", "deck", "source", "consent", "deckPermissions"}

LEMMA AskNames ==
  ASSUME NEW c, NEW ask \in Asks(c)
  PROVE  /\ DOMAIN ask \subseteq Arguments
         /\ "deckPermissions" \in DOMAIN ask =>
               ask["deckPermissions"].type = "deckPermissions"
<1>1. CASE c = "request"
  BY <1>1 DEF Asks, Arguments
<1>2. CASE c = "sdkDid"
  BY <1>2 DEF Asks, Arguments
<1>3. CASE Demo(c)
  BY <1>3 DEF Asks, Demo, Arguments
<1>4. CASE c = "credentialIssue"
  BY <1>4 DEF Asks, Demo, Arguments
<1>5. CASE c = "deckInit"
  BY <1>5 DEF Asks, Demo, Arguments
<1>6. CASE c = "deckAddSource"
  BY <1>6 DEF Asks, Demo, Arguments
<1>7. CASE c = "deckImport"
  BY <1>7 DEF Asks, Demo, Arguments
<1>8. CASE /\ c \notin {"request", "sdkDid", "credentialIssue", "deckInit", "deckAddSource",
                         "deckImport", "sdkGrant", "sdkGrantXaman", "sdkGrantLegacy",
                         "sdkProve"}
           /\ ~ Demo(c)
  BY <1>8 DEF Asks, Arguments
<1>9. CASE c \in {"sdkGrant", "sdkGrantXaman", "sdkGrantLegacy"}
  BY <1>9 DEF Asks, Demo, Arguments
<1>10. CASE c = "sdkProve"
  <2>1. PICK given \in SUBSET Permissions : ask = [deckPermissions |-> DeckPermissionsGiven(given)]
    BY <1>10 DEF Asks, Demo
  <2> QED BY <2>1 DEF DeckPermissionsGiven, Arguments
<1> QED BY <1>1, <1>2, <1>3, <1>4, <1>5, <1>6, <1>7, <1>8, <1>9, <1>10

LEMMA StartOrder ==
  ASSUME StoresInv, OrderInv, session \in Sessions, NEW p \in Procs,
         NEW c \in session.commands, Start(p, c)
  PROVE  OrderInv'
<1>1. PICK given \in Given(c), ask \in Asks(c) :
         proc' = [proc EXCEPT ![p] = Started(c, Over(given, ask))]
  BY DEF Start, Started
<1> DEFINE doc == Over(given, ask)
           q == Started(c, doc)
           s == q.todo
<1>2. /\ printed' = printed /\ rekeyed' = rekeyed /\ verdicts' = verdicts /\ late' = late
  BY DEF Start, walletVars, credentialVars
<1>3. PrintedInv'
  BY <1>2, PrintedSame DEF OrderInv
<1>4. c \in Commands /\ WellOrdered(q.todo, Needs(c)) /\ q.doc = doc /\ q.root = None
      /\ q.midnight = None
  BY StartFields
<1>5. DOMAIN doc = DOMAIN given \cup DOMAIN ask /\ \A t \in DOMAIN given : doc[t] = given[t]
  BY DEF Over
<1>6. /\ DOMAIN given = Needs(c)
      /\ \A t \in Needs(c) : given[t] \in printed /\ given[t].type = t
  BY DEF Given
<1>7. /\ \A t \in Needs(c) : HasDoc(q, t, printed)
      /\ \A t \in DOMAIN doc : t \in Needs(c) \/ t \in Arguments
  <2>1. DOMAIN ask \subseteq Arguments
    BY AskNames
  <2> HIDE DEF doc, q
  <2> QED BY <1>4, <1>5, <1>6, <2>1 DEF HasDoc, Holds
<1>8. "deckPermissions" \in DOMAIN doc =>
         doc["deckPermissions"].type = "deckPermissions"
  <2>1. "deckPermissions" \notin Needs(c)
    BY DEF Needs
  <2> QED BY <1>6, <2>1, AskNames DEF Over
<1>9. proc'[p] = q /\ \A z \in Procs \ {p} : proc'[z] = proc[z]
  BY <1>1 DEF StoresInv
<1> HIDE DEF doc, q
<1>10. DocsOK(q, printed')
  BY <1>2, <1>4, <1>7, <1>8 DEF DocsOK, HasDoc, Holds, Arguments
<1>11. OrderOK(q, printed', rekeyed')
  <2>1. Planned(s, FALSE, FALSE, "grant" \in Needs(c), FALSE, "export" \in Needs(c),
                "credential" \in Needs(c), FALSE)
    BY <1>4 DEF WellOrdered
  <2>2. Follows(s, "pairwise", {"rootKey"}, q.root # None)
    BY <1>4, <2>1 DEF Planned, Follows
  <2>3. OneRootKey(s, ~(q.root # None))
    BY <1>4, <2>1 DEF Planned, OneRootKey
  <2>4. Follows(s, "storeCredential", {"midnightKey"}, q.midnight # None)
    BY <1>4, <2>1 DEF Planned, Follows
  <2>5. Follows(s, "checkGrant", {"createConsentGrant", "signConsent"}, Holds(q, "grant"))
    BY <1>7, <2>1 DEF Planned, Follows, HasDoc
  <2>6. Checked(s, SameRequest(q))
    BY <2>1 DEF Planned, Checked
  <2>7. Imports(s, Holds(q, "export"))
    BY <1>7, <2>1 DEF Planned, Imports, HasDoc
  <2>8. Verifies(s, HasDoc(q, "credential", printed'),
                 rekeyed' \/ q.doc["credential"].issuer = q.issuer)
    BY <1>2, <1>7, <2>1 DEF Planned, Verifies
  <2> QED BY <2>2, <2>3, <2>4, <2>5, <2>6, <2>7, <2>8 DEF OrderOK, Planned
<1> QED BY <1>2, <1>3, <1>9, <1>10, <1>11, OrderFrame

LEMMA WriteOrder ==
  ASSUME StoresInv, OrderInv, NEW p \in Procs, WriteStep(p)
  PROVE  OrderInv'
<1> DEFINE q == [proc[p] EXCEPT !.writing = None]
<1>1. printed' = printed /\ rekeyed' = rekeyed /\ verdicts' = verdicts /\ late' = late
  BY DEF WriteStep, walletVars, credentialVars
<1>2. /\ proc' = [proc EXCEPT ![p] = Rest(q)]
      /\ q.todo = proc[p].todo /\ q.doc = proc[p].doc /\ q.root = proc[p].root
      /\ q.midnight = proc[p].midnight /\ q.issuer = proc[p].issuer
  BY WriteFields DEF WriteStep
<1> HIDE DEF q
<1>3. proc'[p] \in {q, Idle} /\ \A z \in Procs \ {p} : proc'[z] = proc[z]
  BY <1>2 DEF Rest, StoresInv
<1>4. OrderOK(q, printed', rekeyed') /\ DocsOK(q, printed')
  <2>1. OrderOK(proc[p], printed, rekeyed) /\ DocsOK(proc[p], printed)
    BY DEF OrderInv
  <2>2. DocsOK(q, printed')
    BY <1>1, <1>2, <2>1 DEF DocsOK, HasDoc, Holds
  <2>3. /\ \A type \in {"grant", "export", "credential"} : Holds(q, type) = Holds(proc[p], type)
        /\ SameRequest(q) = SameRequest(proc[p])
        /\ HasDoc(q, "credential", printed') = HasDoc(proc[p], "credential", printed)
    BY <1>1, <1>2 DEF HasDoc, Holds, SameRequest
  <2>4. OrderOK(q, printed', rekeyed')
    BY <1>1, <1>2, <2>1, <2>3 DEF OrderOK
  <2> QED BY <2>2, <2>4
<1>5. OrderOK(proc'[p], printed', rekeyed') /\ DocsOK(proc'[p], printed')
  BY <1>3, <1>4, OrderIdle
<1>6. PrintedInv'
  BY <1>1, PrintedSame DEF OrderInv
<1> QED BY <1>1, <1>3, <1>5, <1>6, OrderFrame

LEMMA UserOrder ==
  ASSUME OrderInv, late \in BOOLEAN, User
  PROVE  OrderInv'
<1> USE DEF walletVars, credentialVars, persistVars
<1>1. PrintedInv
  BY DEF OrderInv
<1>2. PrintedInv' /\ proc' = proc /\ printed \subseteq printed' /\ rekeyed' = rekeyed
  <2>1. CASE CredentialsExpire
    BY <1>1, <2>1, PrintedSame DEF CredentialsExpire
  <2>2. CASE EditCredential
    <3>1. PICK c \in printed, claims \in SUBSET Permissions \ {{}} :
             /\ c.type = "credential"
             /\ printed' = printed \cup {[c EXCEPT !.claims = claims]}
      BY <2>2 DEF EditCredential
    <3> DEFINE d == [c EXCEPT !.claims = claims]
    <3>2. "type" \in DOMAIN c
      BY <1>1 DEF PrintedInv, DocumentOK
    <3>3. "type" \in DOMAIN d /\ d.type = "credential"
      BY <3>1, <3>2
    <3>4. printed' = printed \cup {d}
      BY <3>1
    <3> HIDE DEF d
    <3> QED BY <1>1, <2>2, <3>3, <3>4, OtherDocuments, PrintedOne DEF EditCredential
  <2>3. CASE ResendRequest /\ UNCHANGED credentialVars
    <3>1. PICK c \in printed, required \in SUBSET Permissions \ {{}} :
             /\ c.type = "request"
             /\ printed' = printed \cup {[c EXCEPT !.required = required]}
      BY <2>3 DEF ResendRequest
    <3> DEFINE d == [c EXCEPT !.required = required]
    <3>2. "type" \in DOMAIN c
      BY <1>1 DEF PrintedInv, DocumentOK
    <3>3. "type" \in DOMAIN d /\ d.type = "request"
      BY <3>1, <3>2
    <3>4. printed' = printed \cup {d}
      BY <3>1
    <3> HIDE DEF d
    <3> QED BY <1>1, <2>3, <3>3, <3>4, OtherDocuments, PrintedOne DEF ResendRequest
  <2> QED BY <2>1, <2>2, <2>3 DEF User
<1> QED BY <1>2, OrderGrows DEF OrderInv

LEMMA OrderStepAll ==
  ASSUME StoresInv, OrderInv, session \in Sessions, late \in BOOLEAN, [Next]_vars
  PROVE  OrderInv'
<1> USE DEF cliVars
<1>1. CASE UNCHANGED vars
  BY <1>1 DEF vars, persistVars, walletVars, credentialVars, OrderInv, PrintedInv, DocumentOK,
              VerdictOK, OrderOK, DocsOK, HasDoc
<1>2. CASE User
  BY <1>2, UserOrder
<1>3. ASSUME NEW p \in Procs, Step(p)
      PROVE  OrderInv'
  <2>1. CASE \E c \in session.commands : Start(p, c)
    BY <2>1, StartOrder
  <2>2. CASE WalletStep(p)
    BY <2>2, InitializeOrder, RootKeyOrder, PairwiseOrder, RequestsOrder, CheckGrantOrder,
       ProofsOrder, SavingOrder, ReplayOrder DEF WalletStep
  <2>3. CASE ClearStep(p)
    BY <2>3, ReplayOrder DEF ClearStep
  <2>4. CASE CredentialStep(p)
    <3>1. CASE LoadOrGenerateIssuerKey(p) \/ VerifyCredential(p) \/ InitMidnight(p)
      BY <3>1, IssuerKeyOrder, VerifyCredentialOrder, MidnightKeyOrder
    <3>2. CASE ~ (LoadOrGenerateIssuerKey(p) \/ VerifyCredential(p) \/ InitMidnight(p))
      <4>1. UNCHANGED credentialVars
        BY <2>4, <3>2 DEF CredentialStep, credentialVars, IssueCredential, FindCredential,
           CheckCredential, GenerateProofFromCredential, AnchorCredential, StoreCredential,
           LoadCredential, DeleteCredential, Encrypt, Decrypt
      <4> QED BY <2>4, <3>2, <4>1, DocumentsOrder, SavingOrder, ProofsOrder DEF CredentialStep
    <3> QED BY <3>1, <3>2
  <2>5. CASE DeckStep(p)
    <3>1. CASE CreateProof(p)
      BY <3>1, CreateProofOrder
    <3>2. CASE ~ CreateProof(p)
      <4>1. UNCHANGED credentialVars
        BY <2>5, <3>2 DEF DeckStep, deckVars, credentialVars, DeckList, DeckShow, DeckCreate,
           DeckAddSource, DeckExport, DeckImport, GetOrCreateDid, LaceInit, LaceConnect,
           LaceAddresses, LaceSign
      <4> QED BY <2>5, <3>2, <4>1, DecksOrder, DocumentsOrder DEF DeckStep
    <3> QED BY <3>1, <3>2
  <2>6. CASE CheckStep(p)
    BY <2>6, PipelineOrder
  <2>7. CASE WriteStep(p)
    BY <2>7, WriteOrder
  <2>8. CASE CrashStep(p)
    BY <2>8, OrderExit DEF CrashStep, Crash, walletVars, credentialVars
  <2> QED BY <1>3, <2>1, <2>2, <2>3, <2>4, <2>5, <2>6, <2>7, <2>8 DEF Step
<1> QED BY <1>1, <1>2, <1>3 DEF Next

-----------------------------------------------------------------------------
(* The replay cache is kept by every step                                  *)

SameReplay(r, q) ==
    /\ Fields(q)
    /\ q.mem["replay"] = r.mem["replay"]
    /\ "replay" \in q.loaded <=> "replay" \in r.loaded
    /\ q.writing # "replay"

\* A step of one process that leaves the replay cache alone.
LEMMA ReplayFrame ==
  ASSUME StoresInv, ReplayInv, NEW p \in Procs, proc[p] # Idle, proc[p].writing # "replay",
         blame' = blame, accepted' = accepted, disk'["replay"] = disk["replay"],
         \A q \in Procs \ {p} : proc'[q] = proc[q],
         proc'[p] = Idle \/ SameReplay(proc[p], proc'[p])
  PROVE  ReplayInv'
<1> SUFFICES ASSUME blame = {}
             PROVE  ReplayInv'
  BY DEF ReplayInv
<1>1. /\ proc'[p].writing # "replay"
      /\ "replay" \in proc'[p].loaded => "replay" \in proc[p].loaded
      /\ "replay" \in proc'[p].loaded => proc'[p].mem["replay"] = proc[p].mem["replay"]
  BY IdleFields, KindsApart, OtherFiles DEF SameReplay
<1>2. \A q \in Procs : /\ proc'[q].writing = "replay" <=> proc[q].writing = "replay"
                       /\ "replay" \in proc'[q].loaded => "replay" \in proc[q].loaded
                       /\ "replay" \in proc'[q].loaded =>
                             proc'[q].mem["replay"] = proc[q].mem["replay"]
  BY <1>1
<1>3. \A q, z \in Procs : q # z => proc'[q] = Idle \/ proc'[z] = Idle
  BY DEF ReplayInv
<1> QED BY <1>2, <1>3 DEF ReplayInv, Whole

LEMMA ReplayMove ==
  ASSUME StoresInv, ReplayInv, NEW p \in Procs, NEW op, At(p, op),
         NEW q, SameReplay(proc[p], q),
         Exit(p) \/ Continue(p, q) \/ \E f \in Files \ {"replay"} : Save(p, q, f),
         blame' = blame, accepted' = accepted
  PROVE  ReplayInv'
<1>1. /\ proc[p] # Idle /\ proc[p].writing # "replay" /\ DOMAIN proc = Procs
      /\ DOMAIN disk = Files /\ "replay" \in Files
  BY AtFields, KindsApart, OtherFiles DEF StoresInv
<1>2. CASE Exit(p)
  BY <1>1, <1>2, ReplayFrame DEF Exit
<1> DEFINE d == Done(q)
<1>3. SameReplay(proc[p], d) /\ DOMAIN d = DOMAIN Idle
  BY IdleFields DEF SameReplay, Fields, Done
<1> HIDE DEF d
<1>4. CASE Continue(p, q)
  <2>1. proc'[p] = Idle \/ proc'[p] = d
    BY <1>1, <1>4 DEF Continue, Rest, d
  <2>2. disk'["replay"] = disk["replay"] /\ \A z \in Procs \ {p} : proc'[z] = proc[z]
    BY <1>1, <1>4 DEF Continue
  <2> QED BY <1>1, <1>3, <1>4, <2>1, <2>2, ReplayFrame
<1>5. ASSUME NEW f \in Files \ {"replay"}, Save(p, q, f)
      PROVE  ReplayInv'
  <2> DEFINE z == [d EXCEPT !.writing = f]
  <2>1. proc'[p] = z /\ \A y \in Procs \ {p} : proc'[y] = proc[y]
    BY <1>1, <1>5 DEF Save, d
  <2>2. disk'["replay"] = disk["replay"]
    BY <1>1, <1>5 DEF Save
  <2>3. SameReplay(proc[p], z) /\ z.writing = f
    BY <1>3, <1>5, IdleFields DEF SameReplay, Fields
  <2> QED BY <1>1, <2>1, <2>2, <2>3, ReplayFrame
<1> QED BY <1>2, <1>4, <1>5

LEMMA ReplayAt ==
  ASSUME StoresInv, NEW p \in Procs, NEW op, At(p, op)
  PROVE  /\ SameReplay(proc[p], proc[p])
         /\ proc[p].dir \in Files \ {"replay"}
         /\ "decks" \in Files \ {"replay"} /\ "didMap" \in Files \ {"replay"}
<1>1. None # "replay" /\ "replay" \notin Dirs
  BY KindsApart, OtherFiles
<1>2. "decks" \in Files \ {"replay"} /\ "didMap" \in Files \ {"replay"}
  BY DEF Files
<1> QED BY <1>1, <1>2, AtFields DEF SameReplay

LEMMA ReplayPut ==
  ASSUME NEW r, NEW q, SameReplay(r, q), NEW f \in Files \ {"replay"}, NEW rec
  PROVE  SameReplay(r, Put(q, f, rec))
<1>1. "replay" \in Files
  BY DEF Files
<1> QED BY <1>1, PutFields DEF SameReplay

LEMMA ReplayKeep ==
  ASSUME NEW r, NEW q, SameReplay(r, q), NEW type, NEW d
  PROVE  SameReplay(r, Keep(q, type, d))
BY KeepFields DEF SameReplay

LEMMA ReplayLoaded ==
  ASSUME StoresInv, NEW p \in Procs, NEW op, At(p, op), NEW f \in Files \ {"replay"}
  PROVE  SameReplay(proc[p], Loaded(proc[p], f))
<1>1. "replay" \in Files
  BY DEF Files
<1> QED BY <1>1, ReplayAt, LoadedFields DEF SameReplay

LEMMA ReplayPublish ==
  ASSUME StoresInv, ReplayInv, NEW p \in Procs, NEW op, At(p, op),
         NEW kind, NEW type, NEW d, Publish(p, kind, type, d), blame' = blame
  PROVE  ReplayInv'
<1> DEFINE r == proc[p]
           q == Put(r, r.dir, Rec(kind, Fresh, None))
           z == Keep(q, type, d)
<1>1. Save(p, z, r.dir) /\ accepted' = accepted
  BY DEF Publish
<1>2. SameReplay(r, q) /\ r.dir \in Files \ {"replay"}
  BY ReplayAt, ReplayPut
<1> HIDE DEF q
<1>3. SameReplay(r, z)
  BY <1>2, ReplayKeep
<1> HIDE DEF z
<1> QED BY <1>1, <1>2, <1>3, ReplayMove

LEMMA WalletReplay ==
  ASSUME StoresInv, ReplayInv, NEW p \in Procs, blame' = blame,
         \/ Initialize(p) \/ LoadOrGenerateKeys(p) \/ GetPairwiseId(p)
         \/ CreateRequest(p) \/ CreateConsentGrant(p) \/ CreateConsentGrantWithSigner(p)
         \/ CheckGrant(p) \/ GenerateProof(p) \/ SubmitReceipt(p)
         \/ GetOrCreateLocalSigner(p) \/ CreateGrant(p)
  PROVE  ReplayInv'
<1> USE DEF walletVars
<1> DEFINE r == proc[p]
<1>1. CASE Initialize(p)
  <2>1. At(p, "initialize") /\ Continue(p, Initialized(p)) /\ accepted' = accepted
    BY <1>1 DEF Initialize, InitializePersistence, Initialized, Reader
  <2>2. SameReplay(r, r) /\ r.dir \in Files \ {"replay"} /\ "replay" \in Files
    BY <2>1, ReplayAt, OtherFiles
  <2>3. SameReplay(r, Initialized(p))
    BY <2>2, InitializedFields DEF SameReplay
  <2> QED BY <2>1, <2>3, ReplayMove
<1>2. CASE LoadOrGenerateKeys(p)
  <2> DEFINE k == DataOf(r, r.dir, "rootKeyPair", "root")
             fresh == Put(r, r.dir, Rec("rootKeyPair", "root", Fresh))
             q == LoadPairwiseIds([r EXCEPT !.root = k])
             z == LoadPairwiseIds([fresh EXCEPT !.root = Fresh])
  <2>1. At(p, "rootKey") /\ accepted' = accepted /\ (Continue(p, q) \/ Save(p, z, r.dir))
    BY <1>2 DEF LoadOrGenerateKeys
  <2>2. SameReplay(r, r) /\ SameReplay(r, fresh) /\ r.dir \in Files \ {"replay"}
        /\ Fresh \in Nat
    BY <2>1, AtFields, ReplayAt, ReplayPut
  <2>3. k \in Nat \/ ~ Has(r, r.dir, "rootKeyPair", "root")
    BY <2>1, AtFields, KeyOfStore DEF Scalars
  <2> HIDE DEF fresh, k
  <2>4. k \in Nat => SameReplay(r, q)
    BY <2>2, IdleFields DEF SameReplay, LoadPairwiseIds, Fields
  <2>5. SameReplay(r, z)
    BY <2>2, IdleFields DEF SameReplay, LoadPairwiseIds, Fields
  <2>6. (Continue(p, q) /\ k \in Nat) \/ Save(p, z, r.dir)
    BY <1>2, <2>3 DEF LoadOrGenerateKeys, fresh, k
  <2> HIDE DEF q, z
  <2> QED BY <2>1, <2>2, <2>4, <2>5, <2>6, ReplayMove
<1>3. CASE GetPairwiseId(p)
  <2> DEFINE a == r.doc["request"].audience
             new == Put(r, r.dir, Rec("pairwiseIds", a, r.root))
             q == [new EXCEPT !.pairwise[a] = r.root]
  <2>1. At(p, "pairwise") /\ accepted' = accepted /\ (Continue(p, r) \/ Save(p, q, r.dir))
    BY <1>3 DEF GetPairwiseId
  <2>2. SameReplay(r, r) /\ SameReplay(r, new) /\ r.dir \in Files \ {"replay"}
    BY <2>1, ReplayAt, ReplayPut
  <2> HIDE DEF new
  <2>3. SameReplay(r, q)
    BY <2>2, IdleFields DEF SameReplay, Fields
  <2> HIDE DEF q
  <2> QED BY <2>1, <2>2, <2>3, ReplayMove
<1>4. CASE CreateRequest(p)
  BY <1>4, ReplayPublish DEF CreateRequest
<1>5. CASE CreateConsentGrant(p)
  BY <1>5, ReplayPublish DEF CreateConsentGrant
<1>6. CASE CreateConsentGrantWithSigner(p)
  BY <1>6, ReplayPublish, ReplayAt, ReplayMove DEF CreateConsentGrantWithSigner
<1>7. CASE CheckGrant(p)
  BY <1>7, ReplayAt, ReplayMove DEF CheckGrant
<1>8. CASE GenerateProof(p)
  BY <1>8, ReplayPublish DEF GenerateProof
<1>9. CASE SubmitReceipt(p)
  <2> DEFINE q == Put(r, r.dir, Rec("receipts", Fresh, None))
  <2>1. At(p, "submitReceipt") /\ accepted' = accepted /\ (Continue(p, r) \/ Save(p, q, r.dir))
    BY <1>9 DEF SubmitReceipt
  <2>2. SameReplay(r, r) /\ SameReplay(r, q) /\ r.dir \in Files \ {"replay"}
    BY <2>1, ReplayAt, ReplayPut
  <2> HIDE DEF q
  <2> QED BY <2>1, <2>2, ReplayMove
<1>10. CASE GetOrCreateLocalSigner(p)
  <2> DEFINE q == Put(r, r.dir, Rec("localKeys", "default", Fresh))
  <2>1. At(p, "localSigner") /\ accepted' = accepted /\ (Continue(p, r) \/ Save(p, q, r.dir))
    BY <1>10 DEF GetOrCreateLocalSigner
  <2>2. SameReplay(r, r) /\ SameReplay(r, q) /\ r.dir \in Files \ {"replay"}
    BY <2>1, ReplayAt, ReplayPut
  <2> HIDE DEF q
  <2> QED BY <2>1, <2>2, ReplayMove
<1>11. CASE CreateGrant(p)
  BY <1>11, ReplayPublish DEF CreateGrant
<1> QED BY <1>1, <1>2, <1>3, <1>4, <1>5, <1>6, <1>7, <1>8, <1>9, <1>10, <1>11

LEMMA CredentialReplay ==
  ASSUME StoresInv, ReplayInv, NEW p \in Procs, CredentialStep(p)
  PROVE  ReplayInv'
<1> USE DEF walletVars, cliVars
<1> DEFINE r == proc[p]
<1>1. blame' = blame
  BY DEF CredentialStep
<1>2. ASSUME NEW op, At(p, op), accepted' = accepted,
             \/ Continue(p, r) \/ Exit(p)
             \/ \E type, d : Continue(p, Keep(r, type, d))
             \/ \E rec : Save(p, Put(r, r.dir, rec), r.dir)
             \/ \E rec, type, d : Save(p, Keep(Put(r, r.dir, rec), type, d), r.dir)
      PROVE  ReplayInv'
  <2>1. /\ SameReplay(r, r) /\ r.dir \in Files \ {"replay"}
        /\ \A type, d : SameReplay(r, Keep(r, type, d))
        /\ \A rec : SameReplay(r, Put(r, r.dir, rec))
        /\ \A rec, type, d : SameReplay(r, Keep(Put(r, r.dir, rec), type, d))
    BY <1>2, ReplayAt, ReplayPut, ReplayKeep
  <2> HIDE DEF r
  <2> QED BY <1>1, <1>2, <2>1, ReplayMove DEF r
<1>3. CASE LoadOrGenerateIssuerKey(p)
  <2> DEFINE stored == Has(r, r.dir, "issuerKeys", "default")
             key == IF stored THEN DataOf(r, r.dir, "issuerKeys", "default") ELSE Fresh
             new == Put(r, r.dir, Rec("issuerKeys", "default", key))
             q == [r EXCEPT !.issuer = key]
             z == [new EXCEPT !.issuer = key]
  <2>1. At(p, "issuerKey") /\ accepted' = accepted /\ (Continue(p, q) \/ Save(p, z, r.dir))
    BY <1>3 DEF LoadOrGenerateIssuerKey
  <2>2. SameReplay(r, r) /\ SameReplay(r, new) /\ r.dir \in Files \ {"replay"}
    BY <2>1, ReplayAt, ReplayPut
  <2> HIDE DEF key, new
  <2>3. SameReplay(r, q) /\ SameReplay(r, z)
    BY <2>2, IdleFields DEF SameReplay, Fields
  <2> HIDE DEF q, z
  <2> QED BY <1>1, <2>1, <2>2, <2>3, ReplayMove
<1>4. CASE InitMidnight(p)
  <2> DEFINE k == DataOf(r, r.dir, "midnightKey", "key")
             new == Put(r, r.dir, Rec("midnightKey", "key", Fresh))
             q == [r EXCEPT !.midnight = k]
             z == [new EXCEPT !.midnight = Fresh]
  <2>1. /\ At(p, "midnightKey") /\ accepted' = accepted
        /\ \/ Has(r, r.dir, "midnightKey", "key") /\ Continue(p, q)
           \/ Save(p, z, r.dir)
    BY <1>4 DEF InitMidnight
  <2>2. SameReplay(r, r) /\ SameReplay(r, new) /\ r.dir \in Files \ {"replay"}
        /\ Fresh \in Nat
    BY <2>1, AtFields, ReplayAt, ReplayPut
  <2>3. Has(r, r.dir, "midnightKey", "key") => k \in Nat
    BY <2>1, AtFields, KeyOfStore DEF Scalars
  <2> HIDE DEF k, new
  <2>4. (k \in Nat => SameReplay(r, q)) /\ SameReplay(r, z)
    BY <2>2, IdleFields DEF SameReplay, Fields
  <2> HIDE DEF q, z
  <2> QED BY <1>1, <2>1, <2>2, <2>3, <2>4, ReplayMove
<1>5. CASE DeleteCredential(p)
  <2> DEFINE gone == {x \in r.mem[r.dir] : x.kind = "midnightCredentials" /\ x.id = r.doc["ref"].id}
             q == [r EXCEPT !.mem[r.dir] = @ \ gone, !.seen[r.dir] = @ \ gone]
  <2>1. At(p, "deleteCredential") /\ accepted' = accepted /\ Save(p, q, r.dir)
    BY <1>5 DEF DeleteCredential
  <2>2. SameReplay(r, r) /\ r.dir \in Files \ {"replay"} /\ "replay" \in Files
    BY <2>1, ReplayAt, OtherFiles
  <2> HIDE DEF gone
  <2>3. SameReplay(r, q)
    BY <2>2, IdleFields DEF SameReplay, Fields
  <2> HIDE DEF q
  <2> QED BY <1>1, <2>1, <2>2, <2>3, ReplayMove
<1>6. CASE IssueCredential(p) \/ GenerateProofFromCredential(p)
  BY <1>1, <1>6, ReplayPublish DEF IssueCredential, GenerateProofFromCredential
<1>7. CASE VerifyCredential(p) \/ CheckCredential(p) \/ Encrypt(p) \/ Decrypt(p)
  BY <1>2, <1>7 DEF VerifyCredential, CheckCredential, Encrypt, Decrypt
<1>8. CASE FindCredential(p) \/ LoadCredential(p)
  BY <1>2, <1>8 DEF FindCredential, LoadCredential
<1>9. CASE AnchorCredential(p) \/ StoreCredential(p)
  BY <1>2, <1>9 DEF AnchorCredential, StoreCredential
<1> QED BY <1>3, <1>4, <1>5, <1>6, <1>7, <1>8, <1>9 DEF CredentialStep

LEMMA DeckReplay ==
  ASSUME StoresInv, ReplayInv, NEW p \in Procs, DeckStep(p)
  PROVE  ReplayInv'
<1> USE DEF deckVars, walletVars, cliVars
<1> DEFINE r == proc[p]
           z == Loaded(r, "decks")
<1>1. blame' = blame
  BY DEF DeckStep
<1>2. ASSUME NEW op, At(p, op), accepted' = accepted, NEW q, SameReplay(r, q),
             Exit(p) \/ Continue(p, q) \/ Save(p, q, r.dir) \/ Save(p, q, "decks")
               \/ Save(p, q, "didMap")
      PROVE  ReplayInv'
  BY <1>1, <1>2, ReplayAt, ReplayMove
<1>3. ASSUME NEW op, At(p, op)
      PROVE  /\ SameReplay(r, r) /\ SameReplay(r, z)
             /\ \A type, d : SameReplay(r, Keep(r, type, d))
             /\ \A rec : SameReplay(r, Put(z, "decks", rec))
             /\ \A rec, type, d : SameReplay(r, Keep(Put(z, "decks", rec), type, d))
  <2>1. SameReplay(r, r) /\ SameReplay(r, z) /\ "decks" \in Files \ {"replay"}
    BY <1>3, ReplayAt, ReplayLoaded
  <2> HIDE DEF z
  <2> QED BY <2>1, ReplayPut, ReplayKeep
<1>4. CASE LaceInit(p) \/ LaceAddresses(p) \/ LaceSign(p)
  BY <1>2, <1>3, <1>4 DEF LaceInit, LaceAddresses, LaceSign
<1>5. CASE LaceConnect(p)
  BY <1>2, <1>3, <1>5 DEF LaceConnect
<1>6. CASE DeckList(p) \/ DeckShow(p) \/ DeckExport(p)
  BY <1>2, <1>3, <1>6 DEF DeckList, DeckShow, DeckExport
<1>7. CASE DeckCreate(p)
  BY <1>2, <1>3, <1>7 DEF DeckCreate
<1>8. CASE DeckAddSource(p)
  BY <1>2, <1>3, <1>8 DEF DeckAddSource
<1>9. ASSUME NEW f \in {"decks", "didMap"}, NEW recs, NEW op, At(p, op)
      PROVE  SameReplay(r, [Loaded(r, f) EXCEPT !.mem[f] = @ \cup recs])
  <2> DEFINE y == Loaded(r, f)
  <2>1. SameReplay(r, y) /\ f \in Files \ {"replay"} /\ "replay" \in Files
    BY <1>9, ReplayAt, ReplayLoaded, OtherFiles
  <2> HIDE DEF y
  <2>2. SameReplay(r, [y EXCEPT !.mem[f] = @ \cup recs])
    BY <2>1, IdleFields DEF SameReplay, Fields
  <2> QED BY <2>2 DEF y
<1>10. CASE DeckImport(p)
  BY <1>2, <1>3, <1>9, <1>10 DEF DeckImport
<1>11. CASE GetOrCreateDid(p)
  <2>1. At(p, "pairwiseDid") /\ accepted' = accepted
    BY <1>11 DEF GetOrCreateDid
  <2>2. SameReplay(r, Loaded(r, "didMap"))
    BY <2>1, ReplayAt, ReplayLoaded
  <2> QED BY <1>2, <1>9, <1>11, <2>1, <2>2 DEF GetOrCreateDid
<1>12. CASE CreateProof(p)
  <2> DEFINE y == IF Holds(r, "instance") THEN z ELSE r
             q == Put(y, y.dir, Rec("proofs", Fresh, None))
             asked == y.doc["request"]
             satisfied == asked.required \cap Available(y.mem["decks"], y)
             d == Proof(Fresh, asked, satisfied, Legacy,
                        DeckPermissionsGiven(Available(y.mem["decks"], y)))
  <2>1. /\ At(p, "createProof") /\ accepted' = accepted
        /\ Exit(p) \/ Save(p, Keep(q, "proof", d), y.dir)
    BY <1>12 DEF CreateProof
  <2>2. SameReplay(r, y) /\ y.dir \in Files \ {"replay"} /\ y.dir = r.dir
    <3>1. SameReplay(r, r) /\ r.dir \in Files \ {"replay"} /\ SameReplay(r, z) /\ z.dir = r.dir
      BY <1>3, <2>1, ReplayAt, AtFields, LoadedFields
    <3> QED BY <3>1
  <2> HIDE DEF y, d
  <2>3. SameReplay(r, q)
    BY <2>2, ReplayPut
  <2> HIDE DEF q
  <2>4. SameReplay(r, Keep(q, "proof", d))
    BY <2>3, ReplayKeep
  <2> QED BY <1>2, <2>1, <2>2, <2>4
<1> QED BY <1>4, <1>5, <1>6, <1>7, <1>8, <1>10, <1>11, <1>12 DEF DeckStep

LEMMA PipelineReplay ==
  ASSUME StoresInv, ReplayInv, NEW p \in Procs, CheckStep(p)
  PROVE  ReplayInv'
<1> DEFINE r == proc[p]
<1>1. blame' = blame /\ accepted' = accepted
  BY DEF CheckStep, Check, checkOnly, checkIdentity, checkAnchor, checkDeck, checkGrant,
         checkProof, checkReceipt, cleanup, walletVars, cliVars
<1>2. ASSUME NEW op, At(p, op), proc' = [proc EXCEPT ![p].todo = <<"cleanup">>], disk' = disk
      PROVE  ReplayInv'
  <2> DEFINE q == proc'[p]
  <2>1. /\ SameReplay(r, r) /\ r # Idle /\ r.writing # "replay"
        /\ \A z \in Procs \ {p} : proc'[z] = proc[z]
    BY <1>2, ReplayAt, AtFields, KindsApart, OtherFiles DEF StoresInv
  <2>2. SameReplay(r, q)
    <3>1. q = [r EXCEPT !.todo = <<"cleanup">>]
      BY <1>2 DEF StoresInv
    <3> HIDE DEF q
    <3> QED BY <2>1, <3>1, IdleFields DEF SameReplay, Fields
  <2> QED BY <1>1, <1>2, <2>1, <2>2, ReplayFrame
<1>3. ASSUME NEW op, NEW kind, Check(p, op, kind)
      PROVE  ReplayInv'
  <2> DEFINE q == Put(r, r.dir, Rec(kind, Fresh, None))
  <2>1. /\ At(p, op)
        /\ \/ Save(p, q, r.dir)
           \/ proc' = [proc EXCEPT ![p].todo = <<"cleanup">>] /\ disk' = disk
    BY <1>3 DEF Check
  <2>2. r.dir \in Files \ {"replay"} /\ SameReplay(r, q)
    BY <2>1, ReplayAt, ReplayPut
  <2> HIDE DEF q
  <2> QED BY <1>1, <1>2, <2>1, <2>2, ReplayMove
<1>4. CASE checkOnly(p)
  BY <1>1, <1>2, <1>4, ReplayAt, ReplayMove DEF checkOnly
<1>5. CASE cleanup(p)
  BY <1>1, <1>5, ReplayAt, ReplayMove DEF cleanup
<1> QED BY <1>3, <1>4, <1>5
     DEF CheckStep, checkIdentity, checkAnchor, checkDeck, checkGrant, checkProof, checkReceipt

\* A proof is accepted when its key is not in the cache that was read, and
\* the cache with its key is what is written.
LEMMA VerifyReplay ==
  ASSUME StoresInv, ReplayInv, NEW p \in Procs, Verify(p), blame' = blame
  PROVE  ReplayInv'
<1> SUFFICES ASSUME blame = {}
             PROVE  ReplayInv'
  BY DEF ReplayInv
<1> DEFINE r == Loaded(proc[p], "replay")
           k == ReplayRec(proc[p].doc["proof"])
           q == [r EXCEPT !.mem["replay"] = @ \cup {k}]
<1>1. /\ At(p, "verify")
      /\ \/ Continue(p, r) /\ accepted' = accepted
         \/ /\ k \notin r.mem["replay"] /\ Save(p, q, "replay")
            /\ accepted' = Over([x \in {k} |-> Times(k) + 1], accepted)
            /\ serial' = serial
  BY DEF Verify
<1>2. /\ Fields(proc[p]) /\ proc[p] # Idle /\ proc[p].writing = None /\ "replay" \in Files
      /\ None # "replay" /\ DOMAIN proc = Procs /\ DOMAIN disk = Files
  BY <1>1, AtFields, OtherFiles, KindsApart DEF StoresInv
<1>3. \A z \in Procs \ {p} : proc[z] = Idle
  BY <1>2 DEF ReplayInv
<1>4. \A z \in Procs : proc[z].writing # "replay"
  BY <1>2, <1>3, IdleFields
<1>5. /\ Fields(r) /\ "replay" \in r.loaded /\ r.writing = None
      /\ DOMAIN accepted \subseteq r.mem["replay"]
  <2>1. \/ Whole(disk["replay"]) /\ DOMAIN accepted \subseteq disk["replay"]
        \/ disk["replay"] = Absent /\ DOMAIN accepted = {}
    BY <1>4 DEF ReplayInv
  <2>2. "replay" \in proc[p].loaded => DOMAIN accepted \subseteq proc[p].mem["replay"]
    BY DEF ReplayInv
  <2> QED BY <1>2, <2>1, <2>2, LoadedFields
<1> HIDE DEF r
<1>6. CASE Continue(p, r) /\ accepted' = accepted
  <2> DEFINE d == Done(r)
  <2>1. /\ d.mem["replay"] = r.mem["replay"] /\ d.writing = None
        /\ d.loaded = r.loaded
    BY <1>5, IdleFields DEF Done, Fields
  <2>2. proc' = [proc EXCEPT ![p] = Rest(d)] /\ disk' = disk
    BY <1>6 DEF Continue
  <2> HIDE DEF d
  <2>3. proc'[p] \in {Idle, d} /\ \A z \in Procs \ {p} : proc'[z] = Idle
    BY <1>2, <1>3, <2>2 DEF Rest
  <2>4. \A z \in Procs : /\ proc'[z].writing # "replay"
                         /\ "replay" \in proc'[z].loaded =>
                               DOMAIN accepted \subseteq proc'[z].mem["replay"]
    BY <1>2, <1>5, <2>1, <2>3, IdleFields
  <2> QED BY <1>2, <1>4, <1>6, <2>2, <2>3, <2>4 DEF ReplayInv, Whole
<1>7. CASE /\ k \notin r.mem["replay"] /\ Save(p, q, "replay")
           /\ accepted' = Over([x \in {k} |-> Times(k) + 1], accepted)
  <2> HIDE DEF k
  <2>1. k \notin DOMAIN accepted
    BY <1>5, <1>7
  <2>2. /\ DOMAIN accepted' = DOMAIN accepted \cup {k} /\ accepted'[k] = 1
        /\ \A x \in DOMAIN accepted : accepted'[x] = accepted[x]
    BY <1>7, <2>1 DEF Over, Times
  <2> DEFINE d == [Done(q) EXCEPT !.writing = "replay"]
  <2>3. Fields(q) /\ q.mem["replay"] = r.mem["replay"] \cup {k} /\ q.loaded = r.loaded
    BY <1>2, <1>5, IdleFields DEF Fields
  <2> HIDE DEF q
  <2>4. /\ d.mem["replay"] = r.mem["replay"] \cup {k} /\ d.writing = "replay"
        /\ d.loaded = r.loaded
    BY <2>3, IdleFields DEF Done, Fields
  <2>5. proc' = [proc EXCEPT ![p] = d] /\ disk' = [disk EXCEPT !["replay"] = Partial]
    BY <1>7 DEF Save
  <2> HIDE DEF d
  <2>6. /\ proc'[p] = d /\ disk'["replay"] = Partial
        /\ \A z \in Procs \ {p} : proc'[z] = Idle
    BY <1>2, <1>3, <2>5
  <2>7. \A z \in Procs : "replay" \in proc'[z].loaded =>
                               DOMAIN accepted' \subseteq proc'[z].mem["replay"]
    BY <1>5, <2>2, <2>4, <2>6, IdleFields
  <2>8. \A z \in Procs : proc'[z].writing = "replay" =>
                               "replay" \in proc'[z].loaded /\ disk'["replay"] = Partial
    BY <1>2, <1>5, <2>4, <2>6, IdleFields
  <2>9. \A x \in DOMAIN accepted' : accepted'[x] \in Nat /\ accepted'[x] <= 1
    BY <2>2 DEF ReplayInv
  <2> QED BY <2>4, <2>6, <2>7, <2>8, <2>9 DEF ReplayInv
<1> QED BY <1>1, <1>6, <1>7

LEMMA StartReplay ==
  ASSUME StoresInv, ReplayInv, session \in Sessions, NEW p \in Procs,
         NEW c \in session.commands, Start(p, c)
  PROVE  ReplayInv'
<1> SUFFICES ASSUME blame' = {}
             PROVE  ReplayInv'
  BY DEF ReplayInv
<1>1. blame = {} /\ \A q \in Procs : proc[q] = Idle
  BY DEF Start
<1>2. PICK doc : proc' = [proc EXCEPT ![p] = Started(c, doc)]
  BY DEF Start, Started
<1>3. accepted' = accepted /\ disk' = disk
  BY DEF Start, walletVars
<1>4. \A q \in Procs \ {p} : proc'[q] = Idle
  BY <1>1, <1>2 DEF StoresInv
<1>5. proc'[p].loaded = {} /\ proc'[p].writing = None
  BY <1>2, StartFields DEF StoresInv
<1>6. \A q \in Procs : proc'[q].loaded = {} /\ proc'[q].writing # "replay"
                       /\ proc[q].writing # "replay"
  BY <1>1, <1>4, <1>5, IdleFields, KindsApart, OtherFiles
<1> QED BY <1>1, <1>3, <1>4, <1>6 DEF ReplayInv, Whole

LEMMA WriteReplay ==
  ASSUME StoresInv, ReplayInv, NEW p \in Procs, WriteStep(p)
  PROVE  ReplayInv'
<1> SUFFICES ASSUME blame = {}
             PROVE  ReplayInv'
  BY DEF ReplayInv, WriteStep, cliVars
<1> DEFINE f == proc[p].writing
           q == [proc[p] EXCEPT !.writing = None]
<1>1. blame' = blame /\ accepted' = accepted
  BY DEF WriteStep, walletVars, cliVars
<1>2. /\ f \in Files /\ proc' = [proc EXCEPT ![p] = Rest(q)] /\ Fields(q)
      /\ q.mem = proc[p].mem /\ q.loaded = proc[p].loaded /\ q.writing = None
      /\ DOMAIN proc = Procs /\ DOMAIN disk = Files /\ "replay" \in Files /\ None # "replay"
      /\ None \notin Files
  BY WriteFields, OtherFiles, KindsApart DEF WriteStep, StoresInv
<1>3. /\ WriteReturns(p)
      /\ \/ disk' = [disk EXCEPT ![f] = proc[p].mem[f]]
         \/ Whole(disk[f]) /\ disk' = [disk EXCEPT ![f] = Partial]
  BY DEF WriteStep, WriteReturns
<1> HIDE DEF q
<1>4. proc[p] # Idle
  BY <1>2, IdleFields
<1>5. proc'[p] \in {Idle, q} /\ \A z \in Procs \ {p} : proc[z] = Idle /\ proc'[z] = Idle
  BY <1>2, <1>4 DEF Rest, ReplayInv
<1>6. CASE f # "replay"
  <2>1. disk'["replay"] = disk["replay"]
    BY <1>2, <1>3, <1>6
  <2>2. SameReplay(proc[p], q)
    BY <1>2 DEF SameReplay
  <2> QED BY <1>1, <1>4, <1>5, <1>6, <2>1, <2>2, ReplayFrame
<1>7. CASE f = "replay"
  <2>1. /\ disk["replay"] = Partial /\ "replay" \in proc[p].loaded
        /\ DOMAIN accepted \subseteq proc[p].mem["replay"]
    BY <1>7 DEF ReplayInv
  <2>2. disk'["replay"] = proc[p].mem["replay"]
    BY <1>2, <1>3, <1>7, <2>1 DEF Whole
  <2>3. Whole(proc[p].mem["replay"])
    <3>1. StoreOK("replay", proc[p].mem["replay"], serial, switched)
      BY <1>2 DEF StoresInv, ProcessOK
    <3>2. \A x \in proc[p].mem["replay"] : x.kind = "keys"
      BY <3>1, OtherFiles DEF StoreOK, RecordOK
    <3> QED BY <3>2, RecFields DEF Whole, Absent, Partial
  <2>4. \A z \in Procs : /\ proc'[z].writing # "replay"
                         /\ "replay" \in proc'[z].loaded =>
                               DOMAIN accepted \subseteq proc'[z].mem["replay"]
    BY <1>2, <1>5, <2>1, IdleFields
  <2> QED BY <1>1, <1>5, <2>1, <2>2, <2>3, <2>4 DEF ReplayInv
<1> QED BY <1>6, <1>7

LEMMA ReplayStep ==
  ASSUME StoresInv, ReplayInv, session \in Sessions, [Next]_vars
  PROVE  ReplayInv'
<1> USE DEF cliVars
<1>1. CASE UNCHANGED vars
  BY <1>1 DEF vars, persistVars, walletVars, ReplayInv, Whole
<1>2. CASE User
  BY <1>2 DEF User, EditCredential, CredentialsExpire, ResendRequest, persistVars, walletVars, ReplayInv, Whole
<1>3. ASSUME NEW p \in Procs, Step(p)
      PROVE  ReplayInv'
  <2>1. CASE \E c \in session.commands : Start(p, c)
    BY <2>1, StartReplay
  <2>2. CASE WalletStep(p)
    BY <2>2, WalletReplay, VerifyReplay DEF WalletStep
  <2>3. CASE ClearStep(p) \/ CrashStep(p)
    BY <2>3 DEF ClearStep, CrashStep, ReplayInv
  <2>4. CASE CredentialStep(p)
    BY <2>4, CredentialReplay
  <2>5. CASE DeckStep(p)
    BY <2>5, DeckReplay
  <2>6. CASE CheckStep(p)
    BY <2>6, PipelineReplay
  <2>7. CASE WriteStep(p)
    BY <2>7, WriteReplay
  <2> QED BY <1>3, <2>1, <2>2, <2>3, <2>4, <2>5, <2>6, <2>7 DEF Step
<1> QED BY <1>1, <1>2, <1>3 DEF Next

-----------------------------------------------------------------------------
(* The inductive invariant: what the stores do not say                     *)

SessionInv ==
    /\ session \in Sessions
    /\ started \in 0..session.most
    /\ blame \subseteq {"overlap", "crash", "clear"}
    /\ late \in BOOLEAN /\ rekeyed \in BOOLEAN
    /\ \A k \in DOMAIN accepted : accepted[k] \in Nat
    /\ DOMAIN last = Files

CommandLineInv == SessionInv /\ StoresInv /\ OrderInv /\ ReplayInv

\* Which steps change what the invariants above do not follow.
LEMMA StepFrame ==
  ASSUME NEW p \in Procs, Step(p)
  PROVE  /\ session' = session /\ late' = late
         /\ \/ last' = last
            \/ /\ proc[p].writing \in Files
               /\ last' = [last EXCEPT ![proc[p].writing] = proc[p].mem[proc[p].writing]]
         /\ rekeyed' = rekeyed \/ LoadOrGenerateIssuerKey(p)
         /\ accepted' = accepted \/ Verify(p)
         /\ \/ started' = started /\ blame' = blame
            \/ \E c \in session.commands : Start(p, c)
            \/ started' = started /\ (ClearStep(p) \/ CrashStep(p))
<1> USE DEF walletVars, credentialVars, deckVars, cliVars, Exit, Continue, Save, Publish
<1>1. CASE \E c \in session.commands : Start(p, c)
  BY <1>1 DEF Start
<1>2. CASE WalletStep(p)
  BY <1>2 DEF WalletStep, Initialize, InitializePersistence, LoadOrGenerateKeys, GetPairwiseId,
     CreateRequest, CreateConsentGrant, CreateConsentGrantWithSigner, CheckGrant, GenerateProof,
     SubmitReceipt, GetOrCreateLocalSigner, CreateGrant, Verify
<1>3. CASE ClearStep(p)
  BY <1>3 DEF ClearStep, ClearReplayCache
<1>4. CASE CredentialStep(p)
  BY <1>4 DEF CredentialStep, LoadOrGenerateIssuerKey, IssueCredential, VerifyCredential,
     FindCredential, CheckCredential, GenerateProofFromCredential, AnchorCredential,
     InitMidnight, StoreCredential, LoadCredential, DeleteCredential, Encrypt, Decrypt
<1>5. CASE DeckStep(p)
  BY <1>5 DEF DeckStep, DeckList, DeckShow, DeckCreate, DeckAddSource, DeckExport, DeckImport,
     CreateProof, GetOrCreateDid, LaceInit, LaceConnect, LaceAddresses, LaceSign
<1>6. CASE CheckStep(p)
  BY <1>6 DEF CheckStep, Check, checkOnly, checkIdentity, checkAnchor, checkDeck, checkGrant,
     checkProof, checkReceipt, cleanup
<1>7. CASE WriteStep(p)
  BY <1>7 DEF WriteStep, WriteReturns
<1>8. CASE CrashStep(p)
  BY <1>8 DEF CrashStep, Crash
<1> QED BY <1>1, <1>2, <1>3, <1>4, <1>5, <1>6, <1>7, <1>8 DEF Step

LEMMA SessionStep ==
  ASSUME SessionInv, [Next]_vars
  PROVE  SessionInv'
<1>1. CASE UNCHANGED vars
  BY <1>1 DEF vars, persistVars, walletVars, credentialVars, cliVars, SessionInv
<1>2. CASE User
  BY <1>2 DEF User, EditCredential, CredentialsExpire, ResendRequest, persistVars, walletVars, credentialVars,
     cliVars, SessionInv
<1>3. ASSUME NEW p \in Procs, Step(p)
      PROVE  SessionInv'
  <2>1. session' \in Sessions /\ late' \in BOOLEAN /\ DOMAIN last' = Files
    BY <1>3, StepFrame DEF SessionInv
  <2>2. rekeyed' \in BOOLEAN
    BY <1>3, StepFrame DEF SessionInv, LoadOrGenerateIssuerKey
  <2>3. \A k \in DOMAIN accepted' : accepted'[k] \in Nat
    <3>1. CASE accepted' = accepted
      BY <3>1 DEF SessionInv
    <3>2. ASSUME NEW k, accepted' = Over([x \in {k} |-> Times(k) + 1], accepted)
          PROVE  \A z \in DOMAIN accepted' : accepted'[z] \in Nat
      <4>1. Times(k) \in Nat
        BY DEF Times, SessionInv
      <4> QED BY <3>2, <4>1 DEF Over, SessionInv
    <3> QED BY <1>3, <3>1, <3>2, StepFrame DEF Verify
  <2>4. started' \in 0..session'.most /\ blame' \subseteq {"overlap", "crash", "clear"}
    <3>1. session.most \in Nat /\ session' = session
      BY <1>3, StepFrame, SessionAssumption DEF SessionInv
    <3>2. /\ \/ started' = started
             \/ started' = started + 1 /\ started < session.most
          /\ \/ blame' = blame
             \/ \E why \in {"overlap", "crash", "clear"} : blame' = blame \cup {why}
      BY <1>3, StepFrame DEF Start, ClearStep, CrashStep
    <3>3. started' \in 0..session'.most
      BY <3>1, <3>2 DEF SessionInv
    <3>4. blame' \subseteq {"overlap", "crash", "clear"}
      BY <3>2 DEF SessionInv
    <3> QED BY <3>3, <3>4
  <2> QED BY <2>1, <2>2, <2>3, <2>4 DEF SessionInv
<1> QED BY <1>1, <1>2, <1>3 DEF Next

LEMMA InitInv ==
  Init => CommandLineInv
<1> SUFFICES ASSUME Init
             PROVE  CommandLineInv
  OBVIOUS
<1> USE DEF Init, PersistInit, WalletInit, CredentialInit
<1>1. DOMAIN accepted = {}
  OBVIOUS
<1>2. SessionInv
  <2>1. session \in Sessions /\ session.most \in Nat /\ started = 0 /\ blame = {}
    BY SessionAssumption
  <2>2. started \in 0..session.most
    BY <2>1
  <2>3. late \in BOOLEAN /\ rekeyed \in BOOLEAN /\ DOMAIN last = Files
    OBVIOUS
  <2> QED BY <1>1, <2>1, <2>2, <2>3 DEF SessionInv
<1>3. StoresInv
  BY IdleOK, AbsentPartial DEF StoresInv, Busy
<1>4. OrderInv
  BY OrderIdle DEF OrderInv, PrintedInv
<1>5. ReplayInv
  <2>1. disk["replay"] = Absent /\ \A p \in Procs : proc[p] = Idle
    BY OtherFiles
  <2> QED BY <1>1, <2>1, IdleFields, KindsApart, OtherFiles DEF ReplayInv
<1> QED BY <1>2, <1>3, <1>4, <1>5 DEF CommandLineInv

LEMMA NextInv ==
  CommandLineInv /\ [Next]_vars => CommandLineInv'
BY StoresStep, OrderStepAll, ReplayStep, SessionStep DEF CommandLineInv, SessionInv

\* The invariant holds of every session.
THEOREM CommandLineInvariant ==
  Spec => []CommandLineInv
BY InitInv, NextInv, PTL DEF Spec

-----------------------------------------------------------------------------
(* The theorems                                                            *)

\* Every variable has its type, and a process that has nothing left to do is
\* gone (process.exit or the end of main).
THEOREM TypeCorrect ==
  Spec => []TypeOK
<1>1. CommandLineInv => TypeOK
  <2> SUFFICES ASSUME CommandLineInv
               PROVE  TypeOK
    OBVIOUS
  <2>1. \A f \in Files : KindsOf(f) \subseteq Kinds
    BY DEF KindsOf, Kinds
  <2>2. \A f \in Files : Whole(disk[f]) =>
           \A x \in disk[f] : DOMAIN x = {"kind", "id", "data"} /\ x.kind \in Kinds
    <3> SUFFICES ASSUME NEW f \in Files, Whole(disk[f]), NEW x \in disk[f]
                 PROVE  DOMAIN x = {"kind", "id", "data"} /\ x.kind \in Kinds
      OBVIOUS
    <3>1. x = Rec(x.kind, x.id, x.data) /\ x.kind \in KindsOf(f)
      BY DEF CommandLineInv, StoresInv, StoreOK, RecordOK
    <3> QED BY <2>1, <3>1, RecFields
  <2>3. \A p \in Procs :
           /\ DOMAIN proc[p] = DOMAIN Idle
           /\ proc[p].writing \in Files \cup {None}
           /\ proc[p] = Idle \/ proc[p].todo # <<>> \/ proc[p].writing # None
    BY DEF CommandLineInv, StoresInv, ProcessOK, Fields, Busy
  <2> QED BY <2>2, <2>3 DEF CommandLineInv, StoresInv, SessionInv, TypeOK
<1> QED BY <1>1, CommandLineInvariant, PTL

\* A store that parses holds pairwise ids of its own root key and credentials
\* sealed under its own midnight key (LocalProver.loadOrGenerateKeys, and
\* LocalEncryptedMidnightAdapter.init), whatever overlaps or is killed, until
\* an initialize() has changed the store under an object that holds its key.
THEOREM KeysOfEveryStoreAgree ==
  Spec => []KeysAgree
<1>1. CommandLineInv => KeysAgree
  BY DEF CommandLineInv, StoresInv, StoreOK, Agree, KeysAgree
<1> QED BY <1>1, CommandLineInvariant, PTL

\* While commands run one after the other, none is killed and demo phase1 does
\* not clear the replay cache, `verify` accepts no proof twice.
THEOREM ProofsAcceptedOnce ==
  Spec => []AcceptedOnceAlone
<1>1. CommandLineInv => AcceptedOnceAlone
  <2> SUFFICES ASSUME CommandLineInv, NEW k \in DOMAIN accepted, accepted[k] > 1
               PROVE  blame # {}
    BY DEF AcceptedOnceAlone
  <2>1. blame = {} => accepted[k] \in Nat /\ accepted[k] <= 1
    BY DEF CommandLineInv, ReplayInv
  <2> QED BY <2>1
<1> QED BY <1>1, CommandLineInvariant, PTL

\* `credential verify` gives one answer about one credential until it expires
\* or another issuer key is generated, and never calls an edited one valid.
THEOREM CredentialVerdictsAgree ==
  Spec => []VerdictsAgree
<1>1. CommandLineInv => VerdictsAgree
  <2> SUFFICES ASSUME CommandLineInv
               PROVE  VerdictsAgree
    OBVIOUS
  <2>1. \A v \in verdicts : VerdictOK(v, rekeyed, late)
    BY DEF CommandLineInv, OrderInv, PrintedInv
  <2> QED BY <2>1 DEF VerdictOK, VerdictsAgree
<1> QED BY <1>1, CommandLineInvariant, PTL

\* A proof of the wallet answers a request, by its id and audience, that a
\* consent grant was made for; made from that grant, it shows nothing the grant
\* does not give, whatever a caller grants and however the request comes again:
\* every command compares grant and request (generateProof,
\* generateProofFromCredential) before it proves.
THEOREM EveryProofConsented ==
  Spec => []ProofsConsented
<1>1. CommandLineInv => ProofsConsented
  BY DEF CommandLineInv, OrderInv, PrintedInv, DocumentOK, ProofsConsented
<1> QED BY <1>1, CommandLineInvariant, PTL

\* A command writes back every record it has read, but a deck source that it
\* gives a new reference and a pairwise id of a root key that is not its own:
\* a lost record had not been read by the process that wrote the file.
THEOREM LossesExplained ==
  Spec => LossExplained
<1> DEFINE Explained ==
      \A f \in Files : \A x \in last[f] \ last'[f] :
          \E p \in Procs :
             /\ proc[p].writing = f
             /\ \/ x \notin proc[p].seen[f]
                \/ x.kind = "pairwiseIds" /\ x.data # proc[p].root /\ switched
                \/ /\ x.kind \in Permissions
                   /\ \E y \in last'[f] : y.kind = x.kind /\ y.id = x.id
<1>1. CommandLineInv /\ [Next]_vars => [Explained]_vars
  <2> SUFFICES ASSUME CommandLineInv, Next
               PROVE  Explained
    OBVIOUS
  <2>1. CASE last' = last
    BY <2>1
  <2>2. ASSUME NEW p \in Procs, proc[p].writing \in Files,
               last' = [last EXCEPT ![proc[p].writing] = proc[p].mem[proc[p].writing]]
        PROVE  Explained
    <3> DEFINE g == proc[p].writing
    <3>1. KeptOK(proc[p], switched)
      BY DEF CommandLineInv, StoresInv, ProcessOK
    <3>2. last'[g] = proc[p].mem[g] /\ \A f \in Files : f # g => last'[f] = last[f]
      BY <2>2 DEF CommandLineInv, SessionInv
    <3> QED BY <2>2, <3>1, <3>2 DEF KeptOK
  <2>3. last' = last \/ \E p \in Procs : Step(p)
    BY DEF Next, User, EditCredential, CredentialsExpire, ResendRequest, persistVars
  <2> QED BY <2>1, <2>2, <2>3, StepFrame
<1> QED BY <1>1, CommandLineInvariant, PTL DEF Spec, LossExplained
=============================================================================
