------------------------------ MODULE DeckStore ------------------------------
(***************************************************************************)
(* Deck definitions (DeckRegistry), the deck instances of data/decks.json  *)
(* (DeckStore), the legacy prove command that uses an instance, and the    *)
(* pairwise DIDs of data/did-map.json (PairwiseDidManager,                 *)
(* DidResolverRegistry).  No command calls DeckEvaluator.                  *)
(***************************************************************************)
EXTENDS Credentials, Integers

CONSTANTS
    DeckDefinitions,  \* deckId |-> the permissions the deck defines
    SourceRefs        \* what a source of a permission may refer to

ASSUME DeckAssumption ==
    \A deck \in DOMAIN DeckDefinitions : DeckDefinitions[deck] \subseteq Permissions

-----------------------------------------------------------------------------
(* Definitions and sources *)

Defined(deck) == IF deck \in DOMAIN DeckDefinitions THEN DeckDefinitions[deck] ELSE {}

\* The sources of an instance: one record for each permission that has one.
SourceOf(store, id, permission) ==
    {x \in store : x.kind = permission /\ x.id = id}

-----------------------------------------------------------------------------
(* The deck commands: DeckStore is loaded when a process first uses it *)

Instances(store) == {x \in store : x.kind = "instances"}

deckVars == <<walletVars, credentialVars>>

\* create(): `deck init`, `deck create` and the first half of `deck import`.
DeckCreate(p) ==
    LET r == Loaded(proc[p], "decks")
        deck == r.doc["deck"].id
        instance == [type |-> "instance", id |-> Fresh, deck |-> deck]
    IN  /\ At(p, "deckCreate")
        /\ IF deck \in DOMAIN DeckDefinitions
           THEN /\ Save(p, Keep(Put(r, "decks", Rec("instances", Fresh, deck)), "instance", instance),
                        "decks")
                /\ serial' = serial + 1
                /\ printed' = printed \cup {instance}
                /\ UNCHANGED <<accepted, switched>>
           ELSE Exit(p) /\ UNCHANGED walletVars
        /\ UNCHANGED credentialVars

HasInstance(r, instance) ==
    Rec("instances", instance.id, instance.deck) \in r.mem["decks"]

\* `deck add-source`: the permission has to be one of the deck's.
DeckAddSource(p) ==
    LET r == Loaded(proc[p], "decks")
        instance == r.doc["instance"]
        source == r.doc["source"]
    IN  /\ At(p, "addSource")
        /\ IF HasInstance(r, instance) /\ source.permission \in Defined(instance.deck)
           THEN /\ Save(p, Put(r, "decks", Rec(source.permission, instance.id, source.ref)), "decks")
                /\ UNCHANGED serial
           ELSE Exit(p)
        /\ UNCHANGED deckVars

\* `deck list` and `deck show` only read; the second fails without the instance.
DeckList(p) ==
    /\ At(p, "deckList")
    /\ Continue(p, Loaded(proc[p], "decks"))
    /\ UNCHANGED deckVars

DeckShow(p) ==
    LET r == Loaded(proc[p], "decks")
    IN  /\ At(p, "deckShow")
        /\ IF HasInstance(r, r.doc["instance"]) THEN Continue(p, r) ELSE Exit(p)
        /\ UNCHANGED deckVars

\* `deck export` prints the instance with its sources.
DeckExport(p) ==
    LET r == Loaded(proc[p], "decks")
        instance == r.doc["instance"]
    IN  /\ At(p, "deckExport")
        /\ IF HasInstance(r, instance)
           THEN /\ Continue(p, r)
                /\ printed' = printed \cup
                     {[type |-> "export", id |-> instance.id, deck |-> instance.deck,
                       sources |-> {x \in r.mem["decks"] : x.id = instance.id} \ Instances(r.mem["decks"])]}
           ELSE Exit(p) /\ UNCHANGED printed
        /\ UNCHANGED <<accepted, switched, credentialVars>>

\* `deck import`, after the new instance: its sources, unless it has none.
DeckImport(p) ==
    LET r == Loaded(proc[p], "decks")
        sources == {[x EXCEPT !.id = r.doc["instance"].id] : x \in r.doc["export"].sources}
    IN  /\ At(p, "importSources")
        /\ IF sources = {} THEN Continue(p, r)
           ELSE /\ Save(p, [r EXCEPT !.mem["decks"] = @ \cup sources], "decks")
                /\ UNCHANGED serial
        /\ UNCHANGED deckVars

-----------------------------------------------------------------------------
(* The legacy prove command *)

\* The permissions that --deck-instance makes available: those the instance
\* has a source for or the deck defines, of the ones required.
DeckPermissions(store, instance, required) ==
    LET satisfied == {permission \in Defined(instance.deck) :
                        SourceOf(store, instance.id, permission) # {}}
    IN  {permission \in required :
            permission \in satisfied \/ permission \in Defined(instance.deck)}

\* Without one, the permissions of a deck that has all required; and when
\* nothing is available, all that are required.
Available(store, r) ==
    LET required == r.doc["request"].required
        fromDeck == IF Holds(r, "instance")
                    THEN DeckPermissions(store, r.doc["instance"], required) ELSE {}
    IN  IF fromDeck = {} THEN required ELSE fromDeck

CreateProof(p) ==
    LET r == IF Holds(proc[p], "instance") THEN Loaded(proc[p], "decks") ELSE proc[p]
        request == r.doc["request"]
        available == Available(r.mem["decks"], r)
        proof == Proof(Fresh, request, request.required \cap available, Legacy,
                       DeckPermissionsGiven(available))
    IN  /\ At(p, "createProof")
        /\ IF Holds(r, "instance") => HasInstance(r, r.doc["instance"])
           THEN /\ Save(p, Keep(Put(r, r.dir, Rec("proofs", Fresh, None)), "proof", proof), r.dir)
                /\ serial' = serial + 1
                /\ printed' = printed \cup {proof}
                /\ UNCHANGED <<accepted, switched>>
           ELSE Exit(p) /\ UNCHANGED walletVars
        /\ UNCHANGED credentialVars

-----------------------------------------------------------------------------
(* PairwiseDidManager and DidResolverRegistry *)

\* getOrCreate(masterDid, audience), the master DID being the root id.
GetOrCreateDid(p) ==
    LET r == Loaded(proc[p], "didMap")
        a == r.doc["ask"].audience
        entry == Rec("entries", a, r.root)
    IN  /\ At(p, "pairwiseDid")
        /\ IF entry \in r.mem["didMap"] THEN Continue(p, r)
           ELSE /\ Save(p, [r EXCEPT !.mem["didMap"] = @ \cup {entry}], "didMap")
                /\ UNCHANGED serial
        /\ UNCHANGED deckVars
=============================================================================
