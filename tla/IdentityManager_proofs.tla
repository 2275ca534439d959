----------------------- MODULE IdentityManager_proofs -----------------------
(***************************************************************************)
(* Theorems about the identity and its anchor, for every number of calls,  *)
(* identifiers and hashes.                                                 *)
(***************************************************************************)
EXTENDS IdentityManager, TLAPS

-----------------------------------------------------------------------------
(* The inductive invariant *)

\* The stages of an anchorIdentity that has checked its copy, that has paid
\* on XRPL, and those of a call that may still write its copy back.
Checked == {"xrpl", "anchored", "midnight", "contracted"}
Paid    == {"anchored", "midnight", "contracted"}
Writing == {"read"} \cup Checked

(* What holds of an identity, written down or copied, given what is on the *)
(* two ledgers and what has been generated.                                *)
Sound(rec, anc, con, gen) ==
    /\ rec.anchored => rec.hash \in anc /\ rec.contract = rec.id
    /\ rec.tx = IF rec.anchored THEN rec.hash ELSE None
    /\ rec.contract # None => rec.contract = rec.id /\ rec.id \in con
    /\ rec # NoIdentity => rec.hash \in gen

(* What holds of one call.                                                 *)
CallInv(r, anc, con, gen) ==
    /\ r.stage = "idle" => r = Idle
    /\ r.stage \in Checked => r.copy # NoIdentity /\ ~r.copy.anchored
    /\ r.stage \in Paid => r.copy.hash \in anc
    /\ r.stage = "contracted" => r.copy.id \in con
    /\ Sound(r.copy, anc, con, gen)

AllSound ==
    /\ Sound(identity, anchors, contracts, used)
    /\ \A c \in Call : CallInv(call[c], anchors, contracts, used)
    /\ anchors \subseteq used

(* Without overlap there is one call, what it writes is up to date, and a  *)
(* hash that is on XRPL for nothing is one whose anchoring failed.         *)
OneCall == \A j, k \in Call : call[j] # Idle /\ call[k] # Idle => j = k

UpToDate == \A c \in Call : call[c].stage \in Writing => call[c].copy = identity

PaidForNothing ==
    (identity.hash \in anchors /\ ~identity.anchored)
        => identity.hash \in broken \/ \E c \in Call : call[c].stage \in Paid

Orderly == OneCall /\ UpToDate /\ PaidForNothing /\ twice \subseteq broken

IInv ==
    /\ TypeOK
    /\ AllSound
    /\ ~overlapped => Orderly

-----------------------------------------------------------------------------
(* Records *)

LEMMA NoIdentityFields ==
  /\ NoIdentity \in IdentityRec /\ NoIdentity.hash = None /\ ~NoIdentity.anchored
  /\ NoIdentity.tx = None /\ NoIdentity.contract = None /\ NoIdentity.id = None
BY DEF NoIdentity, IdentityRec

LEMMA IdleFields ==
  /\ Idle \in CallRec /\ Idle.stage = "idle" /\ Idle.copy = NoIdentity
BY NoIdentityFields DEF Idle, CallRec

LEMMA IdleSound ==
  ASSUME NEW anc, NEW con, NEW gen
  PROVE  CallInv(Idle, anc, con, gen)
BY IdleFields, NoIdentityFields DEF CallInv, Sound, Checked, Paid

(* A new stage leaves the rest of a call alone.                            *)
LEMMA StageFields ==
  ASSUME NEW r \in CallRec,
         NEW s \in {"xrpl", "anchored", "midnight", "contracted", "created", "connected"}
  PROVE  LET q == [r EXCEPT !.stage = s]
         IN  q \in CallRec /\ q.stage = s /\ q.copy = r.copy /\ q # Idle
BY IdleFields DEF CallRec

(* What is on the ledgers and what has been generated only grows.          *)
LEMMA SoundGrows ==
  ASSUME NEW r, NEW anc, NEW con, NEW gen, NEW anc2, NEW con2, NEW gen2,
         anc \subseteq anc2, con \subseteq con2, gen \subseteq gen2
  PROVE  /\ Sound(r, anc, con, gen) => Sound(r, anc2, con2, gen2)
         /\ CallInv(r, anc, con, gen) => CallInv(r, anc2, con2, gen2)
BY DEF Sound, CallInv

(* A step of one call that keeps what is sound: its new record and the new *)
(* identity are all there is to look at.                                   *)
LEMMA CallsStaySound ==
  ASSUME IInv, NEW c \in Call, NEW r, call' = [call EXCEPT ![c] = r],
         anchors \subseteq anchors', contracts \subseteq contracts', used \subseteq used',
         CallInv(r, anchors', contracts', used')
  PROVE  /\ call'[c] = r /\ \A k \in Call \ {c} : call'[k] = call[k]
         /\ \A k \in Call : CallInv(call'[k], anchors', contracts', used')
         /\ Sound(identity, anchors', contracts', used')
<1>1. call'[c] = r /\ \A k \in Call \ {c} : call'[k] = call[k]
  BY DEF IInv, TypeOK
<1>2. \A k \in Call \ {c} : CallInv(call'[k], anchors', contracts', used')
  BY <1>1, SoundGrows DEF IInv, AllSound
<1>3. Sound(identity, anchors', contracts', used')
  BY SoundGrows DEF IInv, AllSound
<1>4. QED BY <1>1, <1>2, <1>3

LEMMA InitIInv == Init => IInv
<1> SUFFICES ASSUME Init
             PROVE  IInv
  OBVIOUS
<1>1. TypeOK
  BY IdleFields, NoIdentityFields DEF Init, TypeOK
<1>2. AllSound
  BY IdleSound, NoIdentityFields DEF Init, AllSound, Sound
<1>3. Orderly
  BY IdleFields DEF Init, Orderly, OneCall, UpToDate, PaidForNothing, Writing, Checked
<1>4. QED BY <1>1, <1>2, <1>3 DEF IInv

-----------------------------------------------------------------------------
(* The steps preserve it *)

LEMMA BeginStep ==
  ASSUME IInv, NEW c \in Call, NEW kind \in {"create", "anchor", "update"}, Begin(c, kind)
  PROVE  IInv'
<1> DEFINE r == [kind |-> kind, stage |-> "read", copy |-> identity]
<1>1. /\ r \in CallRec /\ r.stage = "read" /\ r.copy = identity
      /\ call[c] = Idle /\ call' = [call EXCEPT ![c] = r]
      /\ overlapped' = (overlapped \/ \E k \in Call : call[k] # Idle)
      /\ UNCHANGED <<identity, xrpl, midnight, anchors, contracts, used, twice, broken>>
  BY DEF IInv, TypeOK, CallRec, Begin
<1> HIDE DEF r
<1>2. CallInv(r, anchors', contracts', used')
  BY <1>1 DEF CallInv, Checked, Paid, IInv, AllSound
<1>3. /\ call'[c] = r /\ \A k \in Call \ {c} : call'[k] = call[k]
      /\ \A k \in Call : CallInv(call'[k], anchors', contracts', used')
  BY <1>1, <1>2, CallsStaySound
<1>4. TypeOK' /\ AllSound'
  BY <1>1, <1>3 DEF IInv, TypeOK, AllSound
<1>5. ASSUME ~overlapped' PROVE Orderly'
  <2>1. Orderly /\ \A k \in Call : call[k] = Idle
    BY <1>1, <1>5 DEF IInv
  <2>2. OneCall'
    BY <1>3, <2>1 DEF OneCall
  <2>3. UpToDate'
    BY <1>1, <1>3, <2>1, IdleFields DEF UpToDate, Writing, Checked
  <2>4. PaidForNothing'
    BY <1>1, <1>3, <2>1, IdleFields DEF Orderly, PaidForNothing, Paid
  <2>5. QED BY <1>1, <2>1, <2>2, <2>3, <2>4 DEF Orderly
<1>6. QED BY <1>4, <1>5 DEF IInv

(* A call that returns without writing an identity.                        *)
LEMMA ReturnStep ==
  ASSUME IInv, NEW c \in Call, Return(c), xrpl' \in BOOLEAN, midnight' \in BOOLEAN,
         UNCHANGED <<identity, anchors, contracts, used, twice, overlapped>>,
         broken \subseteq broken', broken' \subseteq Hash,
         call[c].stage \in Paid => call[c].copy.hash \in broken'
  PROVE  IInv'
<1>1. /\ call'[c] = Idle /\ \A k \in Call \ {c} : call'[k] = call[k]
      /\ \A k \in Call : CallInv(call'[k], anchors', contracts', used')
  BY IdleSound, CallsStaySound DEF Return
<1>2. TypeOK' /\ AllSound'
  BY <1>1, IdleFields DEF IInv, TypeOK, AllSound, Return
<1>3. ASSUME ~overlapped' PROVE Orderly'
  <2>1. Orderly
    BY <1>3 DEF IInv
  <2>2. OneCall' /\ UpToDate'
    BY <1>1, <2>1, IdleFields DEF Orderly, OneCall, UpToDate, Writing, Checked
  <2>3. PaidForNothing'
    BY <1>1, <2>1 DEF Orderly, PaidForNothing, UpToDate, Writing, Checked, Paid
  <2>4. QED BY <2>1, <2>2, <2>3 DEF Orderly
<1>4. QED BY <1>2, <1>3 DEF IInv

(* A call that writes an identity `rec` and goes on with record `r`.  When *)
(* nothing overlaps, `rec` is not a hash paid for nothing unless it was    *)
(* one before.                                                             *)
LEMMA WriteStep ==
  ASSUME IInv, NEW c \in Call, NEW rec \in IdentityRec, NEW r \in CallRec,
         call[c] # Idle, r.stage \in {"idle", "created"}, r.stage = "idle" => r = Idle,
         call' = [call EXCEPT ![c] = r], identity' = rec,
         Sound(r.copy, anchors, contracts, used), Sound(rec, anchors, contracts, used'),
         used \subseteq used', used' \subseteq Id \cup Hash,
         UNCHANGED <<xrpl, midnight, anchors, contracts, twice, broken, overlapped>>,
         rec.anchored \/ rec.hash \notin anchors \/ (rec = call[c].copy /\ call[c].stage = "read")
  PROVE  IInv'
<1>1. CallInv(r, anchors', contracts', used')
  BY SoundGrows DEF CallInv, Checked, Paid
<1>2. /\ call'[c] = r /\ \A k \in Call \ {c} : call'[k] = call[k]
      /\ \A k \in Call : CallInv(call'[k], anchors', contracts', used')
  BY <1>1, CallsStaySound
<1>3. TypeOK' /\ AllSound'
  BY <1>2 DEF IInv, TypeOK, AllSound
<1>4. ASSUME ~overlapped' PROVE Orderly'
  <2>1. Orderly /\ \A k \in Call \ {c} : call'[k] = Idle
    BY <1>2, <1>4 DEF IInv, Orderly, OneCall
  <2>2. OneCall' /\ UpToDate'
    BY <1>2, <2>1, IdleFields DEF OneCall, UpToDate, Writing, Checked
  <2>3. PaidForNothing'
    <3> SUFFICES ASSUME rec = call[c].copy, call[c].stage = "read",
                        rec.hash \in anchors, ~rec.anchored
                 PROVE  rec.hash \in broken
      BY DEF PaidForNothing
    <3>1. rec = identity /\ \A k \in Call : call[k].stage \notin Paid
      BY <2>1, <1>2, IdleFields DEF Orderly, UpToDate, Writing, Paid
    <3>2. QED BY <2>1, <3>1 DEF Orderly, PaidForNothing
  <2>4. QED BY <2>1, <2>2, <2>3 DEF Orderly
<1>5. QED BY <1>3, <1>4 DEF IInv

(* A call that goes on to stage `s` without touching the identity.         *)
LEMMA GoStep ==
  ASSUME IInv, NEW c \in Call,
         NEW s \in {"xrpl", "anchored", "midnight", "contracted", "connected"}, Go(c, s),
         call[c] # Idle, xrpl' \in BOOLEAN, midnight' \in BOOLEAN,
         UNCHANGED <<identity, used, broken, overlapped>>,
         anchors \subseteq anchors', anchors' \subseteq anchors \cup {call[c].copy.hash},
         contracts \subseteq contracts', contracts' \subseteq Id,
         twice' \subseteq Hash, anchors' \subseteq Hash \cap used,
         s \in Checked => /\ call[c].copy # NoIdentity /\ ~call[c].copy.anchored
                          /\ call[c].stage \in Writing,
         s \in Paid => call[c].copy.hash \in anchors',
         s = "contracted" => call[c].copy.id \in contracts',
         s \notin Paid => anchors' = anchors /\ call[c].stage \notin Paid,
         ~overlapped => twice' \subseteq broken
  PROVE  IInv'
<1> DEFINE r == [call[c] EXCEPT !.stage = s]
<1>1. r \in CallRec /\ r.stage = s /\ r.copy = call[c].copy /\ r # Idle
  <2>1. call[c] \in CallRec
    BY DEF IInv, TypeOK
  <2>2. s \in {"xrpl", "anchored", "midnight", "contracted", "created", "connected"}
    OBVIOUS
  <2> HIDE DEF r
  <2>3. LET q == [call[c] EXCEPT !.stage = s]
        IN  q \in CallRec /\ q.stage = s /\ q.copy = call[c].copy /\ q # Idle
    BY <2>1, <2>2, StageFields
  <2>4. QED BY <2>3 DEF r
<1>2. call' = [call EXCEPT ![c] = r]
  BY DEF Go
<1> HIDE DEF r
<1>3. CallInv(r, anchors', contracts', used')
  <2>1. Sound(r.copy, anchors', contracts', used')
    BY <1>1, SoundGrows DEF IInv, AllSound, CallInv
  <2>2. QED BY <1>1, <2>1 DEF CallInv
<1>4. /\ call'[c] = r /\ \A k \in Call \ {c} : call'[k] = call[k]
      /\ \A k \in Call : CallInv(call'[k], anchors', contracts', used')
      /\ Sound(identity, anchors', contracts', used')
  BY <1>2, <1>3, CallsStaySound
<1>5. TypeOK' /\ AllSound'
  BY <1>1, <1>2, <1>4 DEF IInv, TypeOK, AllSound
<1>6. ASSUME ~overlapped' PROVE Orderly'
  <2>1. Orderly
    BY <1>6 DEF IInv
  <2>2. OneCall'
    BY <1>1, <1>4, <2>1 DEF Orderly, OneCall
  <2>3. UpToDate'
    BY <1>1, <1>4, <2>1 DEF Orderly, UpToDate, Writing, Checked
  <2>4. PaidForNothing'
    <3>1. CASE s \in Paid
      BY <1>1, <1>4, <3>1 DEF PaidForNothing
    <3>2. CASE s \notin Paid
      BY <1>1, <1>4, <2>1, <3>2 DEF Orderly, PaidForNothing
    <3>3. QED BY <3>1, <3>2
  <2>5. QED BY <1>6, <2>2, <2>3, <2>4 DEF Orderly
<1>7. QED BY <1>5, <1>6 DEF IInv

-----------------------------------------------------------------------------

LEMMA CreateSteps ==
  ASSUME IInv, NEW c \in Call, CreateResume(c)
  PROVE  IInv'
<1>1. CASE CreateExists(c) \/ (CreateConnectXRPL(c) /\ Return(c)) \/ CreateConnectMidnight(c)
  BY <1>1, ReturnStep DEF CreateExists, CreateConnectXRPL, CreateConnectMidnight, At,
     IInv, TypeOK, Paid
<1>2. CASE CreateConnectXRPL(c) /\ Go(c, "connected")
  <2>1. call[c] # Idle
    BY <1>2, IdleFields DEF CreateConnectXRPL, At
  <2>2. QED BY <1>2, <2>1, GoStep DEF CreateConnectXRPL, At, IInv, TypeOK, AllSound,
           Orderly, Checked, Paid
<1>3. ASSUME NEW id \in Id, NEW hash \in Hash, CreateWrite(c, id, hash)
      PROVE  IInv'
  <2> DEFINE rec == [NoIdentity EXCEPT !.id = id, !.hash = hash]
             r == [call[c] EXCEPT !.stage = "created"]
  <2>1. /\ rec \in IdentityRec /\ rec.hash = hash /\ ~rec.anchored /\ rec.tx = None
        /\ rec.contract = None
    BY DEF NoIdentity, IdentityRec
  <2>2. r \in CallRec /\ r.stage = "created" /\ r.copy = call[c].copy
    BY StageFields DEF IInv, TypeOK
  <2>3. call' = [call EXCEPT ![c] = r] /\ identity' = rec
    BY <1>3 DEF CreateWrite, Go
  <2> HIDE DEF rec, r
  <2>4. /\ call[c] # Idle /\ hash \notin used /\ used' = used \cup {id, hash}
        /\ UNCHANGED <<xrpl, midnight, anchors, contracts, twice, broken, overlapped>>
    BY <1>3, IdleFields DEF CreateWrite, At
  <2>5. Sound(r.copy, anchors, contracts, used) /\ anchors \subseteq used
    BY <2>2 DEF IInv, AllSound, CallInv
  <2>6. Sound(rec, anchors, contracts, used')
    BY <2>1, <2>4 DEF Sound
  <2>7. used' \subseteq Id \cup Hash
    BY <2>4 DEF IInv, TypeOK
  <2>8. QED BY <2>1, <2>2, <2>3, <2>4, <2>5, <2>6, <2>7, WriteStep
<1>4. QED BY <1>1, <1>2, <1>3 DEF CreateResume, CreateConnectXRPL

LEMMA AnchorSteps ==
  ASSUME IInv, NEW c \in Call, AnchorResume(c)
  PROVE  IInv'
<1> USE DEF At
<1>0. /\ CallInv(call[c], anchors, contracts, used) /\ call[c] \in CallRec
      /\ anchors \subseteq used /\ anchors \subseteq Hash /\ contracts \subseteq Id
      /\ twice \subseteq Hash /\ broken \subseteq Hash
      /\ xrpl \in BOOLEAN /\ midnight \in BOOLEAN
      /\ call[c].copy \in IdentityRec
      /\ ~overlapped => Orderly
      /\ call[c].stage # "idle" => call[c] # Idle
  BY IdleFields DEF IInv, TypeOK, AllSound, CallRec
<1>1. call[c].copy # NoIdentity => /\ call[c].copy.hash \in Hash /\ call[c].copy.id \in Id
                                   /\ call[c].copy.hash \in used
  BY <1>0 DEF IdentityRec, CallInv, Sound
<1>2. CASE AnchorNothing(c)
  BY <1>0, <1>2, ReturnStep DEF AnchorNothing, Paid
<1>3. CASE AnchorConnectXRPL(c)
  BY <1>0, <1>3, GoStep DEF AnchorConnectXRPL, Anchorable, Orderly, Checked, Paid, Writing
<1>4. CASE AnchorHash(c) /\ Return(c) /\ UNCHANGED <<anchors, twice>>
  BY <1>0, <1>4, ReturnStep DEF AnchorHash, Anchorable, Paid
<1>5. CASE AnchorHash(c) /\ Go(c, "anchored") /\ anchors' = anchors \cup {call[c].copy.hash}
           /\ twice' = twice \cup ({call[c].copy.hash} \cap anchors)
  <2>1. /\ call[c].copy # NoIdentity /\ ~call[c].copy.anchored
        /\ call[c].stage \in {"read", "xrpl"}
    BY <1>0, <1>5 DEF AnchorHash, Anchorable, CallInv, Checked
  <2>2. /\ anchors' = anchors \cup {call[c].copy.hash}
        /\ twice' = twice \cup ({call[c].copy.hash} \cap anchors)
        /\ UNCHANGED <<identity, xrpl, midnight, contracts, used, broken, overlapped>>
    BY <1>5 DEF AnchorHash
  <2>3. ~overlapped => twice' \subseteq broken
    <3> SUFFICES ASSUME ~overlapped, call[c].copy.hash \in anchors
                 PROVE  call[c].copy.hash \in broken
      BY <1>0, <2>2 DEF Orderly
    <3>1. Orderly /\ call[c].copy = identity
      BY <1>0, <2>1 DEF Orderly, UpToDate, Writing, Checked
    <3>2. \A k \in Call : call[k].stage \notin Paid
      BY <1>0, <2>1, <3>1, IdleFields DEF Orderly, OneCall, Paid
    <3>3. QED BY <2>1, <3>1, <3>2 DEF Orderly, PaidForNothing
  <2>4. QED BY <1>0, <1>1, <1>5, <2>1, <2>2, <2>3, GoStep DEF Checked, Paid, Writing
<1>6. CASE AnchorConnectMidnight(c)
  BY <1>0, <1>1, <1>6, GoStep DEF AnchorConnectMidnight, CallInv, Orderly, Checked, Paid, Writing
<1>7. CASE CreateIdentityContract(c) /\ Go(c, "contracted")
  <2>1. /\ call[c].stage \in {"anchored", "midnight"} /\ call[c].copy # NoIdentity
        /\ ~call[c].copy.anchored /\ call[c].copy.hash \in anchors
    BY <1>0, <1>7 DEF CreateIdentityContract, CallInv, Checked, Paid
  <2>2. CASE broken' = broken /\ contracts' = contracts \cup {call[c].copy.id}
    BY <1>0, <1>1, <1>7, <2>1, <2>2, GoStep DEF CreateIdentityContract, Orderly, Checked, Paid, Writing
  <2>3. CASE Return(c)
    BY <1>0, <1>7, <2>1, <2>3, IdleFields, StageFields DEF Return, Go, IInv, TypeOK
  <2>4. QED BY <1>7, <2>2, <2>3 DEF CreateIdentityContract
<1>8. CASE CreateIdentityContract(c) /\ Return(c) /\ broken' = broken \cup {call[c].copy.hash}
           /\ contracts' = contracts
  <2>1. call[c].copy.hash \in Hash
    BY <1>0, <1>1, <1>8 DEF CreateIdentityContract, CallInv, Checked
  <2>2. QED BY <1>0, <1>8, <2>1, ReturnStep DEF CreateIdentityContract
<1>9. CASE AnchorWrite(c)
  <2> DEFINE rec == [call[c].copy EXCEPT !.anchored = TRUE, !.tx = call[c].copy.hash,
                                         !.contract = call[c].copy.id]
  <2>1. call[c].stage = "contracted" /\ call[c].copy # NoIdentity
    BY <1>0, <1>9 DEF AnchorWrite, CallInv, Checked
  <2>2. /\ rec \in IdentityRec /\ rec.anchored /\ rec.tx = rec.hash /\ rec.contract = rec.id
        /\ rec.hash = call[c].copy.hash /\ rec.id = call[c].copy.id
    BY <1>0, <1>1, <2>1 DEF IdentityRec
  <2>3. call' = [call EXCEPT ![c] = Idle] /\ identity' = rec
    BY <1>9 DEF AnchorWrite, Return
  <2> HIDE DEF rec
  <2>4. Sound(rec, anchors, contracts, used)
    BY <1>0, <1>1, <2>1, <2>2 DEF Sound, CallInv, Paid
  <2>5. Sound(Idle.copy, anchors, contracts, used)
    BY IdleSound DEF CallInv
  <2>6. QED BY <1>0, <1>9, <2>1, <2>2, <2>3, <2>4, <2>5, IdleFields, WriteStep
           DEF AnchorWrite, IInv, TypeOK
<1>10. QED BY <1>2, <1>3, <1>4, <1>5, <1>6, <1>7, <1>8, <1>9
          DEF AnchorResume, AnchorHash, CreateIdentityContract

LEMMA UpdateSteps ==
  ASSUME IInv, NEW c \in Call, UpdateResume(c)
  PROVE  IInv'
<1> USE DEF At
<1>0. /\ CallInv(call[c], anchors, contracts, used) /\ call[c].copy \in IdentityRec
      /\ Sound(Idle.copy, anchors, contracts, used) /\ anchors \subseteq used
      /\ used \subseteq Id \cup Hash
      /\ call[c].stage # "idle" => call[c] # Idle
  BY IdleFields, IdleSound DEF IInv, TypeOK, AllSound, CallInv, CallRec
<1>1. CASE UpdateMissing(c)
  BY <1>1, ReturnStep DEF UpdateMissing, Paid, IInv, TypeOK
<1>2. CASE UpdateNothing(c)
  <2>1. /\ call[c].stage = "read" /\ call' = [call EXCEPT ![c] = Idle]
        /\ identity' = call[c].copy
    BY <1>2 DEF UpdateNothing, Return
  <2>2. Sound(call[c].copy, anchors, contracts, used)
    BY <1>0 DEF CallInv
  <2>3. QED BY <1>0, <1>2, <2>1, <2>2, IdleFields, WriteStep DEF UpdateNothing
<1>3. ASSUME NEW hash \in Hash, UpdateAddress(c, hash)
      PROVE  IInv'
  <2> DEFINE rec == [call[c].copy EXCEPT !.hash = hash, !.anchored = FALSE, !.tx = None]
  <2>1. /\ call[c].stage = "read" /\ call[c].copy # NoIdentity
        /\ hash \notin used /\ used' = used \cup {hash}
        /\ call' = [call EXCEPT ![c] = Idle] /\ identity' = rec
        /\ UNCHANGED <<xrpl, midnight, anchors, contracts, twice, broken, overlapped>>
    BY <1>3 DEF UpdateAddress, Return
  <2>2. /\ rec \in IdentityRec /\ rec.hash = hash /\ ~rec.anchored /\ rec.tx = None
        /\ rec.contract = call[c].copy.contract /\ rec.id = call[c].copy.id
    BY <1>0, <2>1 DEF IdentityRec
  <2> HIDE DEF rec
  <2>3. Sound(rec, anchors, contracts, used')
    BY <1>0, <2>1, <2>2 DEF Sound, CallInv
  <2>4. used' \subseteq Id \cup Hash
    BY <1>0, <2>1
  <2>5. QED BY <1>0, <2>1, <2>2, <2>3, <2>4, IdleFields, WriteStep
<1>4. QED BY <1>1, <1>2, <1>3 DEF UpdateResume

(* The adapters are not part of the invariant.                             *)
LEMMA AdapterStep ==
  ASSUME IInv, xrpl' \in BOOLEAN, midnight' \in BOOLEAN,
         UNCHANGED <<identity, anchors, contracts, used, call, twice, broken, overlapped>>
  PROVE  IInv'
BY DEF IInv, TypeOK, AllSound, Orderly, OneCall, UpToDate, PaidForNothing

LEMMA Inductive == IInv /\ [Next]_vars => IInv'
<1> SUFFICES ASSUME IInv, [Next]_vars
             PROVE  IInv'
  OBVIOUS
<1>1. CASE UNCHANGED vars \/ ConnectXRPL \/ ConnectMidnight \/ DisconnectXRPL \/ DisconnectMidnight
  BY <1>1, AdapterStep DEF vars, ConnectXRPL, ConnectMidnight, DisconnectXRPL,
     DisconnectMidnight, IInv, TypeOK
<1>2. QED BY <1>1, BeginStep, CreateSteps, AnchorSteps, UpdateSteps DEF Next

LEMMA Invariant == Spec => []IInv
BY InitIInv, Inductive, PTL DEF Spec

-----------------------------------------------------------------------------
(* What holds in every instance *)

(* The identity, the ledgers and the calls in flight are well typed.       *)
THEOREM TypeCorrect == Spec => []TypeOK
<1>1. IInv => TypeOK
  BY DEF IInv
<1>2. QED BY <1>1, Invariant, PTL

(* An identity that says it is anchored is on XRPL and has its contract,   *)
(* however many calls overlap.                                             *)
THEOREM AnchorIsReal == Spec => []AnchorsBacked
<1>1. IInv => AnchorsBacked
  BY DEF IInv, AllSound, Sound, AnchorsBacked, AnchorBacked
<1>2. QED BY <1>1, Invariant, PTL

(* Without overlap a hash is anchored again only after Midnight failed.    *)
THEOREM PaidTwiceOnlyAfterFailure == Spec => []ReanchorExplained
<1>1. IInv => ReanchorExplained
  BY DEF IInv, Orderly, ReanchorExplained
<1>2. QED BY <1>1, Invariant, PTL

(* Without overlap the identity stays, and no old hash comes back.         *)
THEOREM IdentityStays == Spec => IdentityKept
<1>1. ASSUME IInv, Next, ~overlapped', identity # NoIdentity, identity' # identity
      PROVE  /\ identity'.id = identity.id
             /\ identity'.hash = identity.hash \/ identity'.hash \notin used
  <2>1. ASSUME NEW c \in Call, call[c].stage \in Writing, overlapped' = overlapped
        PROVE  call[c].copy = identity
    BY <1>1, <2>1 DEF IInv, Orderly, UpToDate
  <2>2. identity \in IdentityRec \ {NoIdentity}
    BY <1>1 DEF IInv, TypeOK
  <2>3. PICK c \in Call :
          \/ \E id \in Id, hash \in Hash : CreateWrite(c, id, hash)
          \/ AnchorWrite(c) \/ UpdateNothing(c) \/ \E hash \in Hash : UpdateAddress(c, hash)
    BY <1>1 DEF Next, Begin, CreateResume, CreateExists, CreateConnectXRPL,
       CreateConnectMidnight, AnchorResume, AnchorNothing, AnchorConnectXRPL, AnchorHash,
       AnchorConnectMidnight, CreateIdentityContract, UpdateResume, UpdateMissing,
       ConnectXRPL, ConnectMidnight, DisconnectXRPL, DisconnectMidnight
  <2>4. call[c].stage \in Writing /\ overlapped' = overlapped
    BY <2>3 DEF CreateWrite, AnchorWrite, UpdateNothing, UpdateAddress, At, Writing, Checked
  <2>5. call[c].copy = identity
    BY <2>1, <2>4
  <2>6. CASE \E id \in Id, hash \in Hash : CreateWrite(c, id, hash)
    BY <1>1, <2>5, <2>6 DEF CreateWrite
  <2>7. CASE AnchorWrite(c)
    BY <2>2, <2>5, <2>7 DEF AnchorWrite, IdentityRec
  <2>8. CASE UpdateNothing(c)
    BY <1>1, <2>5, <2>8 DEF UpdateNothing
  <2>9. CASE \E hash \in Hash : UpdateAddress(c, hash)
    BY <2>2, <2>5, <2>9 DEF UpdateAddress, IdentityRec
  <2>10. QED BY <2>3, <2>6, <2>7, <2>8, <2>9
<1>2. IInv /\ [Next]_vars
        => [(~overlapped' /\ identity # NoIdentity) =>
               /\ identity'.id = identity.id
               /\ identity'.hash = identity.hash \/ identity'.hash \notin used]_identity
  BY <1>1 DEF vars
<1>3. QED BY <1>2, Invariant, PTL DEF Spec, IdentityKept

=============================================================================
