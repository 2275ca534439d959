--------------------------- MODULE JsonPersistence ---------------------------
(***************************************************************************)
(* The JSON files that the commands of the command line keep on disk, and  *)
(* the processes that run the commands. Every store of the repository that *)
(* is a file works the same way: a process reads the whole file into       *)
(* memory (JsonPersistence.initialize, the constructors of DeckStore,      *)
(* PairwiseDidManager and ReplayStore), changes its copy, and writes the   *)
(* copy back whole with writeFileSync: no lock, no merge, and no rename.   *)
(* A store is here the set of its records.                                 *)
(***************************************************************************)
EXTENDS Naturals, Sequences

CONSTANTS
    Procs,        \* slots for processes: how many commands may run at once
    Permissions,  \* what requests ask for and claims and decks provide
    Audiences,
    None          \* what is not there: no key, no file

Files == {"cliTest",      \* ./.agility-cli-test/persistence.json
          "agilityData",  \* AGILITY_STORAGE_PATH, ./.agility-data by default
          "offline",      \* ./.agility-demo-offline
          "decks",        \* data/decks.json
          "didMap",       \* data/did-map.json
          "replay"}       \* data/replay-cache.json

\* rootKeyPair and midnightKey are fields of the store, the other kinds are
\* arrays of it; "instances", "entries" and "keys" are the other three files',
\* and a source of a deck instance is a record with its permission as kind.
Scalars == {"rootKeyPair", "midnightKey"}
Collections ==
    {"identities", "anchors", "decks", "grants", "proofs", "receipts",
     "proofRequests", "consentGrants", "localKeys", "pairwiseIds",
     "credentials", "issuerKeys", "midnightCredentials"}
Kinds == Scalars \cup Collections \cup Permissions \cup {"instances", "entries", "keys"}

ASSUME PersistenceAssumption ==
    /\ None \notin Nat /\ None \notin Files
    /\ Permissions \cap (Scalars \cup Collections \cup {"instances", "entries", "keys"}) = {}

\* saveAnchor, saveProof and saveReceipt append whatever the id is.
Appended == {"anchors", "proofs", "receipts"}

Rec(kind, id, data) == [kind |-> kind, id |-> id, data |-> data]

VARIABLES
    disk,     \* disk[f]: Absent, Partial (does not parse), or the records
    proc,     \* proc[p]: the process in slot p
    serial,   \* how many ids and keys have been drawn
    last      \* history: the records of f when it last was whole

persistVars == <<disk, proc, serial, last>>

Fresh == serial + 1

\* The function f, and g where f is not defined. (The provers know no @@.)
Over(f, g) == [x \in DOMAIN f \cup DOMAIN g |-> IF x \in DOMAIN f THEN f[x] ELSE g[x]]

\* What a path has when there is no file, and when its text does not parse.
Absent  == {Rec("absent", None, None)}
Partial == {Rec("partial", None, None)}
Whole(content) == content \notin {Absent, Partial}

\* A process: what it has still to do, its copies of the files, what it read
\* of them last, the file it has truncated and not yet written, the arrays of
\* the module's EMPTY_STORE (and whether the store in use shares them), the
\* keys its objects hold, and the documents it works on.
Idle ==
    [todo |-> <<>>, dir |-> "cliTest", mem |-> [f \in Files |-> {}],
     seen |-> [f \in Files |-> {}], loaded |-> {}, writing |-> None,
     empty |-> {}, shared |-> TRUE,
     root |-> None, issuer |-> None, midnight |-> None,
     pairwise |-> [a \in Audiences |-> None], doc |-> <<>>]

PersistInit ==
    /\ disk = [f \in Files |-> Absent]
    /\ proc = [p \in Procs |-> Idle]
    /\ serial = 0
    /\ last = [f \in Files |-> {}]

Active(p) == proc[p].todo # <<>>
At(p, op) == Active(p) /\ proc[p].writing = None /\ Head(proc[p].todo) = op
Done(r) == [r EXCEPT !.todo = Tail(@)]

\* A command that ends, by its last step, by process.exit or by an exception.
Exit(p) == proc' = [proc EXCEPT ![p] = Idle] /\ UNCHANGED <<disk, serial, last>>

\* An open handle keeps the process.
Fault_RestOpen(r) == r

\* A process that has done everything, and waits for no write, is gone.
Rest(r) == IF r.todo = <<>> /\ r.writing = None THEN Idle ELSE r

\* Nothing of the disk changes: the process goes on as r.
Continue(p, r) ==
    /\ proc' = [proc EXCEPT ![p] = Rest(Done(r))]
    /\ UNCHANGED <<disk, serial, last>>

-----------------------------------------------------------------------------
(* Reading *)

\* What initialize() leaves in memory: the file's records; of a file that does
\* not parse, the EMPTY_STORE, whose arrays hold what this process pushed into
\* them; of no file, what was there.
Reread(r, content) ==
    CASE content = Absent  -> r
      [] content = Partial ->
            [r EXCEPT !.mem[r.dir] = r.empty, !.shared = TRUE]
      [] OTHER ->
            [r EXCEPT !.mem[r.dir] = content, !.shared = FALSE]

InitializePersistence(p) ==
    LET r == Reread(proc[p], disk[proc[p].dir])
    IN  /\ At(p, "initialize")
        /\ Continue(p, [r EXCEPT !.seen[r.dir] = r.mem[r.dir],
                                 !.loaded = @ \cup {r.dir}])

\* The constructor that does not read its file.
Fault_LoadedEmpty(r, f) ==
    IF f \in r.loaded THEN r
    ELSE [r EXCEPT !.mem[f] = {}, !.seen[f] = {}, !.loaded = @ \cup {f}]

\* The other stores are loaded once in a process, when they are first asked
\* for; a file that does not parse is an empty store.
Loaded(r, f) ==
    IF f \in r.loaded THEN r
    ELSE LET content == IF Whole(disk[f]) THEN disk[f] ELSE {}
         IN  [r EXCEPT !.mem[f] = content, !.seen[f] = content,
                       !.loaded = @ \cup {f}]

-----------------------------------------------------------------------------
(* Writing *)

With(store, rec) ==
    {x \in store : x.kind # rec.kind \/ x.id # rec.id \/ x.kind \in Appended} \cup {rec}

\* The new record takes the place of the whole array.
Fault_PutAlone(r, f, rec) ==
    [r EXCEPT !.mem[f] = {x \in @ : x.kind # rec.kind} \cup {rec}]

\* save<Kind>(): a record with the id in use is replaced. An array that is
\* still the one of EMPTY_STORE changes there too.
Put(r, f, rec) ==
    [r EXCEPT !.mem[f] = With(@, rec),
              !.empty = IF r.shared /\ rec.kind \in Collections THEN With(@, rec) ELSE @]

Get(r, f, kind, id) == {x \in r.mem[f] : x.kind = kind /\ x.id = id}
Has(r, f, kind, id) == Get(r, f, kind, id) # {}
DataOf(r, f, kind, id) == (CHOOSE x \in Get(r, f, kind, id) : TRUE).data

\* writeFileSync truncates the file and then writes it: others may read it,
\* or truncate it, in between. r is the process with its changed copy of f.
Save(p, r, f) ==
    /\ proc' = [proc EXCEPT ![p] = [Done(r) EXCEPT !.writing = f]]
    /\ disk' = [disk EXCEPT ![f] = Partial]
    /\ UNCHANGED last

\* The rest of writeFileSync. When another process has written the file since
\* it was truncated here, the tail of a longer text may be left behind.
WriteReturns(p) ==
    LET f == proc[p].writing
        text == proc[p].mem[f]
    IN  /\ f \in Files
        /\ \E content \in {text} \cup (IF Whole(disk[f]) THEN {Partial} ELSE {}) :
              /\ disk' = [disk EXCEPT ![f] = content]
              /\ last' = IF content = text THEN [last EXCEPT ![f] = text] ELSE last
        /\ proc' = [proc EXCEPT ![p] = Rest([@ EXCEPT !.writing = None])]
        /\ UNCHANGED serial

\* The process is killed, or dies of an error that no command catches.
Crash(p) ==
    /\ Active(p) \/ proc[p].writing # None
    /\ Exit(p)
=============================================================================
