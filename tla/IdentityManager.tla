--------------------------- MODULE IdentityManager ---------------------------
(***************************************************************************)
(* IdentityManager: the one identity of an instance, its anchor on XRPL    *)
(* and its contract on Midnight.                                           *)
(*                                                                         *)
(* createIdentity, anchorIdentity and updateIdentity each read the         *)
(* identity, cross awaits, and write a whole identity built from what they *)
(* read.  A stretch between two awaits is one action; what the adapters do *)
(* with a request they do in the stretch that makes it, and they refuse it *)
(* when they are not connected or may fail of their own.                   *)
(***************************************************************************)
CONSTANTS
    Id,     \* identity identifiers (generateIdentityId)
    Hash,   \* identity hashes (generateIdentityHash): the time is hashed in
    Call,   \* slots for calls that overlap
    None    \* undefined or null

ASSUME NoneAssumption == None \notin Id \cup Hash

VARIABLES
    identity,   \* StateManager.state.identity.identity
    xrpl,       \* XRPLAdapter.state.connected
    midnight,   \* MidnightAdapter.state.connected
    anchors,    \* hashes that were anchored on XRPL
    contracts,  \* identities for which a Midnight contract was created
    used,       \* identifiers and hashes generated so far
    call,       \* the calls in flight
    twice,      \* history: hashes that were anchored more than once
    broken,     \* history: hashes whose anchoring failed after XRPL had them
    overlapped  \* history: two calls have been in flight together

vars == <<identity, xrpl, midnight, anchors, contracts, used, call, twice, broken, overlapped>>

\* `tx` is the hash that anchorTxHash was cut from, `contract` the identity
\* that midnightContractId was cut from.
NoIdentity == [id |-> None, hash |-> None, anchored |-> FALSE, tx |-> None, contract |-> None]

IdentityRec == [id : Id, hash : Hash, anchored : BOOLEAN,
                tx : Hash \cup {None}, contract : Id \cup {None}]
                  \cup {NoIdentity}

(* A call and the identity that it has read.                               *)
CallRec == [kind  : {"none", "create", "anchor", "update"},
            stage : {"idle", "read", "xrpl", "anchored", "midnight", "contracted",
                     "created", "connected"},
            copy  : IdentityRec]

Idle == [kind |-> "none", stage |-> "idle", copy |-> NoIdentity]

Init ==
    /\ identity = NoIdentity
    /\ xrpl = FALSE /\ midnight = FALSE
    /\ anchors = {} /\ contracts = {}
    /\ used = {}
    /\ call = [c \in Call |-> Idle]
    /\ twice = {} /\ broken = {}
    /\ overlapped = FALSE

-----------------------------------------------------------------------------

(* The beginning of each method, up to `await this.getIdentity()`.         *)
Begin(c, kind) ==
    /\ call[c] = Idle
    /\ call' = [call EXCEPT ![c] = [kind |-> kind, stage |-> "read", copy |-> identity]]
    /\ overlapped' = (overlapped \/ \E k \in Call : call[k] # Idle)
    /\ UNCHANGED <<identity, xrpl, midnight, anchors, contracts, used, twice, broken>>

At(c, kind, stage) == call[c].kind = kind /\ call[c].stage = stage

Go(c, stage) == call' = [call EXCEPT ![c].stage = stage]

Return(c) == call' = [call EXCEPT ![c] = Idle]

-----------------------------------------------------------------------------
(* createIdentity *)

(* "Identity already exists": what was read decides.                       *)
CreateExists(c) ==
    /\ At(c, "create", "read")
    /\ call[c].copy # NoIdentity
    /\ Return(c)
    /\ UNCHANGED <<identity, xrpl, midnight, anchors, contracts, used, twice, broken, overlapped>>

\* Fault: the fields that anchoring fills in later are left out.
CreateWriteBare(c, id, hash) ==
    /\ At(c, "create", "read")
    /\ call[c].copy = NoIdentity
    /\ id \notin used /\ hash \notin used
    /\ used' = used \cup {id, hash}
    /\ identity' = [id |-> id, hash |-> hash, anchored |-> FALSE]
    /\ Go(c, "created")
    /\ UNCHANGED <<xrpl, midnight, anchors, contracts, twice, broken, overlapped>>

CreateWrite(c, id, hash) ==
    /\ At(c, "create", "read")
    /\ call[c].copy = NoIdentity
    /\ id \notin used /\ hash \notin used
    /\ used' = used \cup {id, hash}
    /\ identity' = [NoIdentity EXCEPT !.id = id, !.hash = hash]
    /\ Go(c, "created")
    /\ UNCHANGED <<xrpl, midnight, anchors, contracts, twice, broken, overlapped>>

(* The save is done and XRPL is connected, or the save throws; then        *)
(* Midnight.                                                               *)
CreateConnectXRPL(c) ==
    /\ At(c, "create", "created")
    /\ \/ xrpl' = TRUE /\ Go(c, "connected")
       \/ Return(c) /\ UNCHANGED xrpl
    /\ UNCHANGED <<identity, midnight, anchors, contracts, used, twice, broken, overlapped>>

CreateConnectMidnight(c) ==
    /\ At(c, "create", "connected")
    /\ midnight' = TRUE
    /\ Return(c)
    /\ UNCHANGED <<identity, xrpl, anchors, contracts, used, twice, broken, overlapped>>

-----------------------------------------------------------------------------
(* anchorIdentity *)

(* No identity, or one that is anchored already.                           *)
AnchorNothing(c) ==
    /\ At(c, "anchor", "read")
    /\ call[c].copy = NoIdentity \/ call[c].copy.anchored
    /\ Return(c)
    /\ UNCHANGED <<identity, xrpl, midnight, anchors, contracts, used, twice, broken, overlapped>>

Anchorable(c) ==
    /\ At(c, "anchor", "read")
    /\ call[c].copy # NoIdentity /\ ~call[c].copy.anchored

AnchorConnectXRPL(c) ==
    /\ Anchorable(c)
    /\ ~xrpl
    /\ xrpl' = TRUE
    /\ Go(c, "xrpl")
    /\ UNCHANGED <<identity, midnight, anchors, contracts, used, twice, broken, overlapped>>

(* anchorHash, at once on a connected adapter or after connect().          *)
AnchorHash(c) ==
    LET hash == call[c].copy.hash IN
    /\ (Anchorable(c) /\ xrpl) \/ At(c, "anchor", "xrpl")
    /\ \/ /\ xrpl
          /\ anchors' = anchors \cup {hash}
          /\ twice' = twice \cup ({hash} \cap anchors)
          /\ Go(c, "anchored")
       \/ /\ Return(c)
          /\ UNCHANGED <<anchors, twice>>
    /\ UNCHANGED <<identity, xrpl, midnight, contracts, used, broken, overlapped>>

AnchorConnectMidnight(c) ==
    /\ At(c, "anchor", "anchored")
    /\ ~midnight
    /\ midnight' = TRUE
    /\ Go(c, "midnight")
    /\ UNCHANGED <<identity, xrpl, anchors, contracts, used, twice, broken, overlapped>>

(* createIdentityContract; when it fails the call throws, and the hash     *)
(* stays on XRPL.                                                          *)
CreateIdentityContract(c) ==
    /\ (At(c, "anchor", "anchored") /\ midnight) \/ At(c, "anchor", "midnight")
    /\ \/ /\ midnight
          /\ contracts' = contracts \cup {call[c].copy.id}
          /\ Go(c, "contracted")
          /\ UNCHANGED broken
       \/ /\ broken' = broken \cup {call[c].copy.hash}
          /\ Return(c)
          /\ UNCHANGED contracts
    /\ UNCHANGED <<identity, xrpl, midnight, anchors, used, twice, overlapped>>

\* Fault: only the transaction is written down.
AnchorWritePartly(c) ==
    /\ At(c, "anchor", "contracted")
    /\ identity' = [call[c].copy EXCEPT !.tx = call[c].copy.hash]
    /\ Return(c)
    /\ UNCHANGED <<xrpl, midnight, anchors, contracts, used, twice, broken, overlapped>>

AnchorWrite(c) ==
    /\ At(c, "anchor", "contracted")
    /\ identity' = [call[c].copy EXCEPT !.anchored = TRUE, !.tx = call[c].copy.hash,
                                        !.contract = call[c].copy.id]
    /\ Return(c)
    /\ UNCHANGED <<xrpl, midnight, anchors, contracts, used, twice, broken, overlapped>>

-----------------------------------------------------------------------------
(* updateIdentity *)

UpdateMissing(c) ==
    /\ At(c, "update", "read")
    /\ call[c].copy = NoIdentity
    /\ Return(c)
    /\ UNCHANGED <<identity, xrpl, midnight, anchors, contracts, used, twice, broken, overlapped>>

(* Updates that name no address leave the hash and the anchor alone.       *)
UpdateNothing(c) ==
    /\ At(c, "update", "read")
    /\ call[c].copy # NoIdentity
    /\ identity' = call[c].copy
    /\ Return(c)
    /\ UNCHANGED <<xrpl, midnight, anchors, contracts, used, twice, broken, overlapped>>

\* Fault: a new address keeps the old anchor.
UpdateAddressAnchored(c, hash) ==
    /\ At(c, "update", "read")
    /\ call[c].copy # NoIdentity
    /\ hash \notin used
    /\ used' = used \cup {hash}
    /\ identity' = [call[c].copy EXCEPT !.hash = hash]
    /\ Return(c)
    /\ UNCHANGED <<xrpl, midnight, anchors, contracts, twice, broken, overlapped>>

\* Fault: a new address makes a new identity.
UpdateAddressRenamed(c, hash) ==
    /\ At(c, "update", "read")
    /\ call[c].copy # NoIdentity
    /\ hash \notin used
    /\ used' = used \cup {hash}
    /\ \E id \in Id : identity' = [NoIdentity EXCEPT !.id = id, !.hash = hash]
    /\ Return(c)
    /\ UNCHANGED <<xrpl, midnight, anchors, contracts, twice, broken, overlapped>>

(* A new address gives a new hash, which is not anchored; the contract     *)
(* stays.                                                                  *)
UpdateAddress(c, hash) ==
    /\ At(c, "update", "read")
    /\ call[c].copy # NoIdentity
    /\ hash \notin used
    /\ used' = used \cup {hash}
    /\ identity' = [call[c].copy EXCEPT !.hash = hash, !.anchored = FALSE, !.tx = None]
    /\ Return(c)
    /\ UNCHANGED <<xrpl, midnight, anchors, contracts, twice, broken, overlapped>>

-----------------------------------------------------------------------------
(* The adapters, connected and disconnected by other callers *)

ConnectXRPL ==
    /\ xrpl' = TRUE
    /\ UNCHANGED <<identity, midnight, anchors, contracts, used, call, twice, broken, overlapped>>

ConnectMidnight ==
    /\ midnight' = TRUE
    /\ UNCHANGED <<identity, xrpl, anchors, contracts, used, call, twice, broken, overlapped>>

\* disconnect() awaits between the two adapters.
DisconnectXRPL ==
    /\ xrpl' = FALSE
    /\ UNCHANGED <<identity, midnight, anchors, contracts, used, call, twice, broken, overlapped>>

DisconnectMidnight ==
    /\ midnight' = FALSE
    /\ UNCHANGED <<identity, xrpl, anchors, contracts, used, call, twice, broken, overlapped>>

CreateResume(c) ==
    \/ CreateExists(c)
    \/ \E id \in Id, hash \in Hash : CreateWrite(c, id, hash)
    \/ CreateConnectXRPL(c)
    \/ CreateConnectMidnight(c)

AnchorResume(c) ==
    \/ AnchorNothing(c)
    \/ AnchorConnectXRPL(c)
    \/ AnchorHash(c)
    \/ AnchorConnectMidnight(c)
    \/ CreateIdentityContract(c)
    \/ AnchorWrite(c)

UpdateResume(c) ==
    \/ UpdateMissing(c)
    \/ UpdateNothing(c)
    \/ \E hash \in Hash : UpdateAddress(c, hash)

Next ==
    \/ \E c \in Call, kind \in {"create", "anchor", "update"} : Begin(c, kind)
    \/ \E c \in Call : CreateResume(c) \/ AnchorResume(c) \/ UpdateResume(c)
    \/ ConnectXRPL \/ ConnectMidnight
    \/ DisconnectXRPL \/ DisconnectMidnight

Spec == Init /\ [][Next]_vars

-----------------------------------------------------------------------------
(* Properties *)

TypeOK ==
    /\ identity \in IdentityRec
    /\ xrpl \in BOOLEAN /\ midnight \in BOOLEAN
    /\ anchors \subseteq Hash /\ contracts \subseteq Id
    /\ used \subseteq Id \cup Hash
    /\ call \in [Call -> CallRec]
    /\ twice \subseteq Hash /\ broken \subseteq Hash
    /\ overlapped \in BOOLEAN

(* An identity that says it is anchored is: its very hash is on XRPL and   *)
(* its contract is on Midnight, whichever calls overlapped and whichever   *)
(* stale identity was written back.  It names a transaction exactly then.  *)
AnchorBacked(rec) ==
    /\ rec.anchored => rec.hash \in anchors /\ rec.contract = rec.id
    /\ rec.tx = IF rec.anchored THEN rec.hash ELSE None
    /\ rec.contract # None => rec.contract = rec.id /\ rec.id \in contracts

AnchorsBacked == AnchorBacked(identity)

(* When every call is awaited before the next, a hash is anchored a second *)
(* time only because Midnight failed after XRPL had accepted it.           *)
ReanchorExplained == ~overlapped => twice \subseteq broken

(* When every call is awaited before the next, the identity stays the one  *)
(* that was created, and its hash never goes back to an earlier one.       *)
IdentityKept ==
    [][(~overlapped' /\ identity # NoIdentity) =>
           /\ identity'.id = identity.id
           /\ identity'.hash = identity.hash \/ identity'.hash \notin used]_identity

(* "Identity already exists": an instance that has an identity does not    *)
(* get another.                                                            *)
CreatedOnce == [][identity # NoIdentity => identity'.id = identity.id]_identity

=============================================================================
