-------------------------- MODULE Payments_proofs --------------------------
(***************************************************************************)
(* Theorems about payments, for any number of requests, transactions,      *)
(* callers and clients, any amounts and any way of rounding them.          *)
(*                                                                         *)
(* A validated transaction does not change and a request, once made, stays *)
(* what it was.  So what verifyPayment, getPaymentStatus and submitPayment *)
(* once said of the XRP ledger stays true of it, whatever happens between  *)
(* their awaits.                                                           *)
(***************************************************************************)
EXTENDS Payments, TLAPS

USE DEF Xrpl

---------------------------------------------------------------------------
(* Type correctness *)

Made == {h \in TxHashes : tx[h] # NoTx}

CallOK(v) ==
    /\ v.op = "submit" => v.txHash \in Made
    /\ v.op = "status" => v.txHash \in TxHashes
    /\ v.op \in {"prepare", "verify"} => v.payment \in Requested
    /\ v.op = "prepare" => v = PrepareCall(v.payment, v.step)
    /\ v.op = "verify" => v.proof.txHash \in TxHashes
    /\ v.op \in {"connect", "disconnect"} => v.client \in Clients

CallsTyped == call = [c \in Callers |-> call[c]] /\ \A c \in Callers : CallOK(call[c])

QrTyped == "type" \in DOMAIN qr /\ (qr.type = "request" => qr.paymentId \in Requested)

Typed == TypeOK /\ CallsTyped /\ QrTyped

\* Requests and transactions are made and never unmade.
Grows == Requested \subseteq Requested' /\ Made \subseteq Made'

LEMMA RequestsExist ==
    ASSUME TypeOK, NEW p \in Requested PROVE p \in PaymentIds /\ request[p] \in PaymentRequests
BY DEF TypeOK, Requested

LEMMA RequestMade ==
    ASSUME TypeOK, NEW amount \in AmountTexts, NEW currency \in Currencies,
           NEW to \in Shops, NEW kyc \in SUBSET Permissions, NEW p \in PaymentIds
    PROVE  createPaymentRequest(p, amount, currency, to, kyc) \in PaymentRequests
<1>1. clock + DefaultExpiry \in 0 .. MaxTime + DefaultExpiry
    BY PaymentConstants DEF TypeOK, Times
<1> QED
    BY <1>1, SessionConstants DEF createPaymentRequest, PaymentRequests, TypeOK

LEMMA NotNoRequest ==
    ASSUME NEW r \in PaymentRequests PROVE r # NoRequest
BY DEF PaymentRequests, NoRequest, PaymentNetworks

LEMMA TxMade ==
    ASSUME NEW r \in PaymentRequests PROVE PaymentTx(r) \in Transactions
<1>1. AmountAsked(r) \in Nat
    BY PaymentConstants DEF PaymentRequests, AmountTexts, AmountAsked, adaToLovelace, xrpToDrops
<1>2. createAgilityMemo(r.paymentId) \in AgilityMemos
    BY DEF createAgilityMemo, AgilityMemos, PaymentRequests
<1> QED
    BY <1>1, <1>2 DEF PaymentTx, Transactions, PaymentRequests

LEMMA ResultsTyped ==
    ASSUME NEW p \in PaymentIds, NEW h \in TxHashes
    PROVE  /\ \A why \in Reasons : Failed(p, h, why) \in PaymentVerificationResults
           /\ \A s \in PaymentStatuses : Unconfirmed(p, h, s) \in PaymentVerificationResults
           /\ Confirmed(p, h) \in PaymentVerificationResults
BY DEF Failed, Unconfirmed, Confirmed, PaymentVerificationResults, PaymentStatuses, Reasons

LEMMA RefusalsTyped ==
    ASSUME NEW p \in PaymentIds, NEW h \in TxHashes, NEW proof, proof.txHash = h
    PROVE  /\ BridgeRefusal(p, h) \subseteq PaymentVerificationResults
           /\ ValidationRefusal(p, proof) \subseteq PaymentVerificationResults
BY ResultsTyped DEF BridgeRefusal, ValidationRefusal, Reasons

LEMMA CallsKept ==
    ASSUME CallsTyped, Grows,
           \/ UNCHANGED call
           \/ \E c \in Callers : \E v : CallOK(v) /\ call' = [call EXCEPT ![c] = v]
    PROVE  CallsTyped'
<1>1. ASSUME NEW v, CallOK(v) PROVE CallOK(v)'
    BY <1>1 DEF CallOK, Grows
<1>2. CASE UNCHANGED call
    BY <1>1, <1>2 DEF CallsTyped
<1>3. ASSUME NEW c \in Callers, NEW v, CallOK(v), call' = [call EXCEPT ![c] = v]
      PROVE  CallsTyped'
    BY <1>1, <1>3 DEF CallsTyped
<1> QED
    BY <1>2, <1>3

LEMMA CallEnds ==
    ASSUME CallsTyped, NEW c \in Callers, Ends(c), Grows PROVE CallsTyped'
BY CallsKept DEF CallOK, Idle, Ends

LEMMA CallBegins ==
    ASSUME CallsTyped, NEW c \in Callers, NEW v, Begins(c, v), CallOK(v), Grows
    PROVE  CallsTyped'
BY CallsKept DEF Begins

LEMMA CallsUntouched ==
    ASSUME CallsTyped, UNCHANGED call, Grows PROVE CallsTyped'
BY CallsKept

LEMMA QrKept ==
    ASSUME QrTyped, Grows, UNCHANGED counter PROVE QrTyped'
BY DEF QrTyped, Grows, counter

LEMMA NothingMade ==
    ASSUME UNCHANGED <<request, tx>> PROVE Grows
BY DEF Grows, Requested, Made

\* Connecting and disconnecting, on the three networks.
LEMMA ConnectionTyped ==
    ASSUME Typed, NEW c \in Callers, UNCHANGED held,
           \/ XrplConnect(c) \/ XrplConnectReturns(c) \/ XrplDisconnect(c)
           \/ XrplDisconnectReturns(c) \/ LaceConnect(c) \/ LaceEnabled(c)
           \/ LaceConnectReturns(c) \/ LaceDisconnect(c) \/ MidnightConnect(c)
           \/ MidnightClientMade(c) \/ MidnightConnectReturns(c) \/ MidnightDisconnect(c)
    PROVE  Typed'
<1>0. /\ \A k \in Clients : CallOK(ConnectCall(k)) /\ CallOK(DisconnectCall(k))
      /\ FreshClients \subseteq Clients /\ Clients \cup {0} \subseteq 0 .. MaxClients
      /\ call[c].op = "connect" => call[c].client \in Clients
      /\ ClientOpen => client \in Clients
    BY SessionConstants DEF CallOK, ConnectCall, DisconnectCall, FreshClients, Clients, Typed,
       CallsTyped, ClientOpen, TypeOK
<1> USE <1>0, CallBegins, CallEnds, CallsUntouched, NothingMade, QrKept
<1>1. CASE XrplConnect(c)
    BY <1>1 DEF Typed, TypeOK, XrplConnect, NoteOverlap, answers, counter
<1>2. CASE XrplConnectReturns(c)
    BY <1>2 DEF Typed, TypeOK, XrplConnectReturns, answers, counter
<1>3. CASE XrplDisconnect(c)
    BY <1>3 DEF Typed, TypeOK, XrplDisconnect, NoteOverlap, answers, counter
<1>4. CASE XrplDisconnectReturns(c)
    BY <1>4 DEF Typed, TypeOK, XrplDisconnectReturns, answers, counter
<1>5. CASE LaceConnect(c)
    BY <1>5 DEF Typed, TypeOK, LaceConnect, NoteOverlap, answers, counter
<1>6. CASE LaceEnabled(c)
    BY <1>6 DEF Typed, TypeOK, LaceEnabled, answers, counter
<1>7. CASE LaceConnectReturns(c)
    BY <1>7 DEF Typed, TypeOK, LaceConnectReturns, answers, counter
<1>8. CASE LaceDisconnect(c)
    BY <1>8 DEF Typed, TypeOK, LaceDisconnect, NoteOverlap, answers, counter
<1>9. CASE MidnightConnect(c)
    BY <1>9 DEF Typed, TypeOK, MidnightConnect, NoteOverlap, answers, counter
<1>10. CASE MidnightClientMade(c)
    BY <1>10 DEF Typed, TypeOK, MidnightClientMade, answers, counter
<1>11. CASE MidnightConnectReturns(c)
    BY <1>11 DEF Typed, TypeOK, MidnightConnectReturns, answers, counter
<1>12. CASE MidnightDisconnect(c)
    BY <1>12 DEF Typed, TypeOK, MidnightDisconnect, NoteOverlap, answers, counter
<1> QED
    BY <1>1, <1>2, <1>3, <1>4, <1>5, <1>6, <1>7, <1>8, <1>9, <1>10, <1>11, <1>12

\* Making, preparing and submitting a payment, and asking for its status.
LEMMA TxsKept ==
    ASSUME TypeOK, NEW h \in TxHashes, NEW t \in Transactions, tx' = [tx EXCEPT ![h] = t],
           UNCHANGED request
    PROVE  tx' \in [TxHashes -> Transactions \cup {NoTx}] /\ Grows
<1>1. t # NoTx
    BY DEF Transactions, NoTx
<1> QED
    BY <1>1 DEF TypeOK, Grows, Made, Requested

LEMMA PhaseKept ==
    ASSUME TypeOK, NEW h \in Made, UNCHANGED request,
           NEW phase \in {"unsigned", "proposed", "validated", "lost"},
           NEW result \in {"tesSUCCESS", "tecFAILED"},
           \/ tx' = [tx EXCEPT ![h].phase = phase]
           \/ tx' = [tx EXCEPT ![h].phase = phase, ![h].result = result]
    PROVE  tx' \in [TxHashes -> Transactions \cup {NoTx}] /\ Grows
<1>1. tx[h] \in Transactions
    BY DEF TypeOK, Made
<1>2. \/ tx' = [tx EXCEPT ![h] = [tx[h] EXCEPT !.phase = phase]]
      \/ tx' = [tx EXCEPT ![h] = [tx[h] EXCEPT !.phase = phase, !.result = result]]
    BY <1>1 DEF TypeOK, Transactions, Made
<1>3. /\ [tx[h] EXCEPT !.phase = phase] \in Transactions
      /\ [tx[h] EXCEPT !.phase = phase, !.result = result] \in Transactions
    BY <1>1 DEF Transactions
<1> QED
    BY <1>2, <1>3, TxsKept DEF Made

LEMMA Phases ==
    ASSUME NEW h \in TxHashes, tx[h].phase \in {"unsigned", "proposed", "validated", "lost"}
    PROVE  h \in Made
BY DEF Made, NoTx

LEMMA PaymentBegun ==
    ASSUME Typed, NEW c \in Callers, NEW p, NEW h \in TxHashes, UNCHANGED held,
           \/ XrplCreatePayment(c, p, h) \/ LaceCreatePayment(c, p, h)
           \/ MidnightCreatePayment(c, p, h)
           \/ XrplSubmit(c, h) \/ LaceSubmit(c, h) \/ MidnightSubmit(c, h)
           \/ XrplStatus(c, h) \/ LaceStatus(c, h) \/ MidnightStatus(c, h)
    PROVE  Typed'
<1>0. /\ TypeOK /\ CallsTyped
      /\ \A q \in Requested : PaymentTx(request[q]) \in Transactions
      /\ h \in Made => CallOK(SubmitCall(h))
      /\ CallOK(StatusCall(h))
      /\ {"pending", "confirming", "confirmed", "failed"} \subseteq PaymentStatuses
    BY RequestsExist, TxMade DEF Typed, CallOK, PaymentStatuses, SubmitCall, StatusCall
<1> USE <1>0, CallBegins, CallEnds, CallsUntouched, NothingMade, QrKept, TxsKept, PhaseKept, Phases
<1>1. CASE XrplCreatePayment(c, p, h)
    BY <1>1 DEF Typed, TypeOK, XrplCreatePayment, connection, answers, counter
<1>2. CASE XrplSubmit(c, h)
    BY <1>2 DEF Typed, TypeOK, XrplSubmit, connection, answers, counter
<1>3. CASE XrplStatus(c, h)
    BY <1>3 DEF Typed, TypeOK, XrplStatus, connection, answers, counter
<1>4. CASE LaceCreatePayment(c, p, h)
    BY <1>4 DEF Typed, TypeOK, LaceCreatePayment, connection, answers, counter
<1>5. CASE LaceSubmit(c, h)
    BY <1>5 DEF Typed, TypeOK, LaceSubmit, connection, answers, counter
<1>6. CASE LaceStatus(c, h)
    BY <1>6 DEF Typed, TypeOK, LaceStatus, connection, answers, counter
<1>7. CASE MidnightCreatePayment(c, p, h)
    BY <1>7 DEF Typed, TypeOK, MidnightCreatePayment, connection, answers, counter
<1>8. CASE MidnightSubmit(c, h)
    BY <1>8 DEF Typed, TypeOK, MidnightSubmit, connection, answers, counter
<1>9. CASE MidnightStatus(c, h)
    BY <1>9 DEF Typed, TypeOK, MidnightStatus, connection, answers, counter, StubTransactionStatus
<1> QED
    BY <1>1, <1>2, <1>3, <1>4, <1>5, <1>6, <1>7, <1>8, <1>9

LEMMA PaymentGoesOn ==
    ASSUME Typed, NEW c \in Callers, NEW p, UNCHANGED held,
           \/ XrplPrepare(c, p) \/ XrplPrepareGoesOn(c) \/ XrplPrepareReturns(c)
           \/ XrplSubmitReturns(c) \/ XrplStatusReturns(c) \/ LaceSubmitReturns(c)
    PROVE  Typed'
<1>0. /\ TypeOK /\ CallsTyped
      /\ \A q \in Requested : PaymentTx(request[q]) \in Transactions
      /\ call[c].op = "submit" => call[c].txHash \in Made
      /\ call[c].op = "status" => call[c].txHash \in TxHashes
      /\ call[c].op = "prepare" => call[c].payment \in Requested
      /\ \A g \in TxHashes : LedgerStatus(g) \in PaymentStatuses
      /\ p \in Requested => CallOK(PrepareCall(p, "account_info"))
      /\ Made \subseteq TxHashes
      /\ {"pending", "confirming", "confirmed", "failed"} \subseteq PaymentStatuses
    BY RequestsExist, TxMade DEF Typed, CallsTyped, CallOK, LedgerStatus, PaymentStatuses,
       PrepareCall, Made
<1> USE <1>0, CallBegins, CallEnds, CallsUntouched, NothingMade, QrKept, TxsKept, PhaseKept, Phases
<1>1. CASE XrplPrepare(c, p)
    BY <1>1 DEF Typed, TypeOK, XrplPrepare, connection, answers, counter
<1>2. CASE XrplPrepareGoesOn(c)
    <2>1. Grows
        BY <1>2, NothingMade DEF XrplPrepareGoesOn
    <2>2. CallsTyped'
        <3>1. CASE Ends(c)
            BY <3>1, <2>1
        <3>2. CASE call' = [call EXCEPT ![c].step = "ledger_current"]
            <4> DEFINE q == call[c].payment
            <4>1. q \in Requested /\ call[c] = PrepareCall(q, call[c].step)
                BY <1>2 DEF CallsTyped, CallOK, XrplPrepareGoesOn
            <4>2. call' = [call EXCEPT ![c] = PrepareCall(q, "ledger_current")]
                <5>1. [call[c] EXCEPT !.step = "ledger_current"] = PrepareCall(q, "ledger_current")
                    BY <4>1 DEF PrepareCall
                <5> QED
                    BY <3>2, <5>1
            <4>3. CallOK(PrepareCall(q, "ledger_current"))
                BY <4>1 DEF PrepareCall, CallOK
            <4> QED
                BY <4>2, <4>3, <2>1, CallsKept
        <3> QED
            BY <1>2, <3>1, <3>2 DEF XrplPrepareGoesOn
    <2> QED
        BY <1>2, <2>2 DEF Typed, TypeOK, XrplPrepareGoesOn, connection, answers, counter
<1>3. CASE XrplPrepareReturns(c)
    <2> DEFINE q == call[c].payment
    <2>1. ASSUME NEW g \in TxHashes, tx' = [tx EXCEPT ![g] = PaymentTx(request[q])]
          PROVE  tx' \in [TxHashes -> Transactions \cup {NoTx}] /\ Grows
        BY <1>3, <2>1 DEF XrplPrepareReturns
    <2>2. tx' \in [TxHashes -> Transactions \cup {NoTx}] /\ Grows
        BY <1>3, <2>1 DEF XrplPrepareReturns, TypeOK
    <2>3. CallsTyped'
        BY <1>3, <2>2 DEF XrplPrepareReturns
    <2> QED
        BY <1>3, <2>2, <2>3 DEF Typed, TypeOK, XrplPrepareReturns, connection, answers, counter
<1>4. CASE XrplSubmitReturns(c)
    BY <1>4 DEF Typed, TypeOK, XrplSubmitReturns, connection, answers, counter
<1>5. CASE XrplStatusReturns(c)
    <2>1. CallsTyped'
        BY <1>5 DEF XrplStatusReturns
    <2>2. reported' \in [TxHashes -> PaymentStatuses \cup {"none"}]
        <3> DEFINE g == call[c].txHash
        <3>1. /\ g \in TxHashes
              /\ \/ reported' = [reported EXCEPT ![g] = LedgerStatus(g)]
                 \/ reported' = [reported EXCEPT ![g] = "pending"]
            BY <1>5 DEF XrplStatusReturns
        <3>2. LedgerStatus(g) \in PaymentStatuses /\ "pending" \in PaymentStatuses
            BY <3>1
        <3> HIDE DEF g
        <3> QED
            BY <3>1, <3>2 DEF TypeOK
    <2> QED
        BY <1>5, <2>1, <2>2 DEF Typed, TypeOK, XrplStatusReturns, connection, counter
<1>6. CASE LaceSubmitReturns(c)
    BY <1>6 DEF Typed, TypeOK, LaceSubmitReturns, connection, answers, counter
<1> QED
    BY <1>1, <1>2, <1>3, <1>4, <1>5, <1>6

\* Verification.
LEMMA VerdictsTyped ==
    ASSUME NEW p \in PaymentIds, NEW h \in TxHashes
    PROVE  /\ LedgerVerdict(p, h) \in PaymentVerificationResults
           /\ StubVerdict(p, h) \in PaymentVerificationResults
BY ResultsTyped DEF LedgerVerdict, StubVerdict, Reasons, PaymentStatuses

LEMMA VerificationTyped ==
    ASSUME Typed, NEW c \in Callers, NEW p \in PaymentIds, NEW proof, proof.txHash \in TxHashes,
           NEW onChain \in BOOLEAN, UNCHANGED held,
           \/ XrplVerify(c, p, proof, onChain) \/ XrplVerifyReturns(c)
           \/ LaceVerify(c, p, proof) \/ MidnightVerify(c, p, proof, onChain)
           \/ MidnightProofVerified(c) \/ MidnightVerifyReturns(c)
    PROVE  Typed'
<1> DEFINE h == proof.txHash
           Kept == /\ UNCHANGED <<net, clock, connection, request, tx, reported, submitted,
                                  counter, overlapped, held>>
                   /\ verdict' \in PaymentVerificationResults \cup {NoVerdict}
                   /\ CallsTyped'
<1>0. /\ TypeOK /\ CallsTyped /\ UNCHANGED <<request, tx>> /\ h \in TxHashes
      /\ \A q \in PaymentIds, g \in TxHashes, why \in Reasons :
            Failed(q, g, why) \in PaymentVerificationResults
      /\ \A q \in PaymentIds, g \in TxHashes, s \in PaymentStatuses :
            Unconfirmed(q, g, s) \in PaymentVerificationResults
      /\ {"disconnected", "lookup failed", "zk failed"} \subseteq Reasons
      /\ {"pending", "confirming"} \subseteq PaymentStatuses
      /\ \A q \in Requested : \A s : CallOK(VerifyCall(q, proof, s))
      /\ \A q \in Requested, g \in TxHashes : \A s :
            CallOK(VerifyCall(q, createPaymentProof(request[q], g, "none"), s))
      /\ call[c].op = "verify" =>
            /\ call[c].payment \in Requested /\ call[c].payment \in PaymentIds
            /\ call[c].proof.txHash \in TxHashes
      /\ BridgeRefusal(p, h) \subseteq PaymentVerificationResults
      /\ ValidationRefusal(p, proof) \subseteq PaymentVerificationResults
    <2>1. TypeOK /\ CallsTyped /\ UNCHANGED <<request, tx>>
        BY DEF Typed, XrplVerify, XrplVerifyReturns, LaceVerify, MidnightVerify,
               MidnightProofVerified, MidnightVerifyReturns
    <2>2. /\ {"disconnected", "lookup failed", "zk failed"} \subseteq Reasons
          /\ {"pending", "confirming"} \subseteq PaymentStatuses
        BY DEF Reasons, PaymentStatuses
    <2>3. /\ \A q \in Requested : \A s : CallOK(VerifyCall(q, proof, s))
          /\ \A q \in Requested, g \in TxHashes : \A s :
                CallOK(VerifyCall(q, createPaymentProof(request[q], g, "none"), s))
        BY DEF CallOK, VerifyCall, createPaymentProof
    <2>4. call[c].op = "verify" =>
            /\ call[c].payment \in Requested /\ call[c].payment \in PaymentIds
            /\ call[c].proof.txHash \in TxHashes
        BY <2>1, RequestsExist DEF CallsTyped, CallOK
    <2> QED
        BY <2>1, <2>2, <2>3, <2>4, ResultsTyped, RefusalsTyped
<1>k. Kept => Typed'
    BY <1>0, NothingMade, QrKept DEF Typed, TypeOK, connection
<1> USE <1>0, CallBegins, CallEnds, CallsUntouched, NothingMade, QrKept, CallsKept
<1> HIDE DEF h
<1>1. CASE XrplVerify(c, p, proof, onChain)
    <2>1. /\ Begins(c, VerifyCall(p, proof, "tx")) \/ UNCHANGED call
          /\ verdict' \in PaymentVerificationResults \/ UNCHANGED verdict
        BY <1>1 DEF XrplVerify, Answer, h
    <2> QED
        BY <1>1, <1>k, <2>1 DEF XrplVerify, TypeOK
<1>2. CASE XrplVerifyReturns(c)
    BY <1>2, <1>k, VerdictsTyped DEF XrplVerifyReturns, Answer
<1>3. CASE LaceVerify(c, p, proof)
    <2>1. verdict' \in PaymentVerificationResults
        BY <1>3 DEF LaceVerify, Answer, h
    <2> QED
        BY <1>3, <1>k, <2>1 DEF LaceVerify
<1>4. CASE MidnightVerify(c, p, proof, onChain)
    <2>1. /\ \/ \E s : Begins(c, VerifyCall(p, proof, s))
             \/ UNCHANGED call
             \/ Ends(c)
             \/ call' = [call EXCEPT ![c] =
                    VerifyCall(p, createPaymentProof(request[p], h, "none"), "tx")]
          /\ verdict' \in PaymentVerificationResults \/ UNCHANGED verdict
        BY <1>4 DEF MidnightVerify, MidnightAfterProof, Answer, h
    <2> QED
        BY <1>4, <1>k, <2>1 DEF MidnightVerify, TypeOK
<1>5. CASE MidnightProofVerified(c)
    <2> DEFINE q == call[c].payment
               g == call[c].proof.txHash
    <2>1. q \in Requested /\ q \in PaymentIds /\ g \in TxHashes
        BY <1>5 DEF MidnightProofVerified
    <2>2. /\ \/ Ends(c)
             \/ call' = [call EXCEPT ![c] =
                    VerifyCall(q, createPaymentProof(request[q], g, "none"), "tx")]
          /\ verdict' \in PaymentVerificationResults \/ UNCHANGED verdict
        BY <1>5, <2>1 DEF MidnightProofVerified, MidnightAfterProof, Answer
    <2> QED
        BY <1>5, <1>k, <2>1, <2>2 DEF MidnightProofVerified, TypeOK
<1>6. CASE MidnightVerifyReturns(c)
    BY <1>6, <1>k, VerdictsTyped DEF MidnightVerifyReturns, Answer
<1> QED
    BY <1>1, <1>2, <1>3, <1>4, <1>5, <1>6

\* The registry, the clock, the ledger and new requests.
LEMMA WorldTyped ==
    ASSUME Typed, World, UNCHANGED held PROVE Typed'
<1>0. TypeOK /\ CallsTyped /\ UNCHANGED call
    BY DEF Typed, World, Tick, SocketDrops, Register, ClearRegistry, PayElsewhere, Validate, Lose,
       RequestPayment
<1> USE <1>0, CallsUntouched, NothingMade, QrKept
<1>1. CASE Tick
    BY <1>1, PaymentConstants DEF Typed, TypeOK, Tick, Times, connection, answers
<1>2. CASE SocketDrops
    BY <1>2 DEF Typed, TypeOK, SocketDrops, answers
<1>3. CASE Register \/ ClearRegistry
    BY <1>3 DEF Typed, TypeOK, Register, ClearRegistry, answers
<1>4. ASSUME NEW h \in TxHashes, PayElsewhere(h) PROVE Typed'
    <2>1. PICK to \in Addresses, unit \in {"drops", "issued"}, amount \in Micros :
              tx' = [tx EXCEPT ![h] =
                  [phase |-> "proposed", result |-> "tesSUCCESS", to |-> to,
                   unit |-> unit, amount |-> amount, memo |-> NoMemo]]
        BY <1>4 DEF PayElsewhere
    <2>2. [phase |-> "proposed", result |-> "tesSUCCESS", to |-> to,
           unit |-> unit, amount |-> amount, memo |-> NoMemo] \in Transactions
        BY PaymentConstants DEF Transactions
    <2>3. tx' \in [TxHashes -> Transactions \cup {NoTx}] /\ Grows
        BY <1>4, <2>1, <2>2, TxsKept DEF PayElsewhere
    <2> QED
        BY <1>4, <2>3 DEF Typed, TypeOK, PayElsewhere, connection, answers
<1>5. ASSUME NEW h \in TxHashes, Validate(h) \/ Lose(h) PROVE Typed'
    <2>1. tx' \in [TxHashes -> Transactions \cup {NoTx}] /\ Grows
        BY <1>5, Phases, PhaseKept DEF Validate, Lose
    <2> QED
        BY <1>5, <2>1 DEF Typed, TypeOK, Validate, Lose, connection, answers
<1>6. ASSUME NEW p \in PaymentIds, RequestPayment(p) PROVE Typed'
    <2>1. PICK r \in PaymentRequests : request' = [request EXCEPT ![p] = r]
        BY <1>6, RequestMade, SessionConstants DEF RequestPayment
    <2>2. Grows
        BY <1>6, <2>1, NotNoRequest DEF RequestPayment, Grows, Requested, Made, TypeOK
    <2> QED
        BY <1>6, <2>1, <2>2 DEF Typed, TypeOK, RequestPayment, connection, answers
<1> QED
    BY <1>1, <1>2, <1>3, <1>4, <1>5, <1>6 DEF World

LEMMA CounterTyped ==
    ASSUME Typed, CounterStep PROVE Typed'
<1>0. TypeOK /\ CallsTyped /\ QrTyped /\ UNCHANGED call
    BY DEF Typed, CounterStep, MerchantCheckout, ShowPaymentQR, ScanPaymentQR, AlterBundle,
       ShowResponseQR, CheckPaymentQR, CheckBundle, session
<1> USE <1>0, CallsUntouched, NothingMade, QrKept
<1>1. ASSUME NEW p \in PaymentIds, MerchantCheckout(p) \/ ShowPaymentQR(p) PROVE Typed'
    <2>1. PICK r \in PaymentRequests : request' = [request EXCEPT ![p] = r]
        <3>1. \A micro \in Micros, form \in {"shortest", "padded"} :
                 [micro |-> micro, form |-> form] \in AmountTexts /\ FixedTwo(micro) \in AmountTexts
            BY PaymentConstants DEF AmountTexts, FixedTwo
        <3> QED
            BY <1>1, <3>1, RequestMade
               DEF MerchantCheckout, ShowPaymentQR, createMerchantCheckout, Currencies
    <2>2. Grows
        BY <1>1, <2>1, NotNoRequest
           DEF MerchantCheckout, ShowPaymentQR, Grows, Requested, Made, TypeOK, session
    <2>3. QrTyped'
        <3>1. p \in Requested'
            BY <2>1, NotNoRequest DEF Requested, TypeOK
        <3> QED
            BY <1>1, <2>2, <3>1 DEF MerchantCheckout, ShowPaymentQR, createPaymentQR, QrTyped
    <2> QED
        BY <1>1, <2>1, <2>2, <2>3
           DEF Typed, TypeOK, MerchantCheckout, ShowPaymentQR, session, connection, answers
<1>2. CASE ScanPaymentQR
    <2>1. held' \subseteq PaymentIds
        BY <1>2, RequestsExist DEF ScanPaymentQR, QrTyped
    <2> QED
        BY <1>2, <2>1 DEF Typed, TypeOK, ScanPaymentQR, session, connection, answers
<1>3. CASE AlterBundle
    <2>1. QrTyped'
        <3>1. qr.type # "request" /\ DOMAIN qr' = DOMAIN qr /\ qr'.type = qr.type
            BY <1>3 DEF AlterBundle, QrTyped
        <3> QED
            BY <3>1 DEF QrTyped
    <2> QED
        BY <1>3, <2>1 DEF Typed, TypeOK, AlterBundle, session, connection, answers
<1>5. ASSUME NEW h \in TxHashes, ShowResponseQR(h) PROVE Typed'
    <2>1. QrTyped'
        BY <1>5 DEF ShowResponseQR, QrTyped, createPaymentOnlyQR, createPaymentResponseQR,
                    encodeBundleToQR
    <2> QED
        BY <1>5, <2>1 DEF Typed, TypeOK, ShowResponseQR, session, connection, answers
<1>4. ASSUME NEW p \in PaymentIds, CheckPaymentQR(p) \/ CheckBundle(p) PROVE Typed'
    <2>1. QrTyped'
        BY <1>4 DEF CheckPaymentQR, CheckBundle, QrTyped, session, Requested
    <2> QED
        BY <1>4, <2>1 DEF Typed, TypeOK, CheckPaymentQR, CheckBundle, session, connection, answers
<1> QED
    BY <1>1, <1>2, <1>3, <1>4, <1>5 DEF CounterStep

LEMMA StepTyped == Typed /\ [Next]_vars => Typed'
<1> SUFFICES ASSUME Typed, [Next]_vars PROVE Typed'
    OBVIOUS
<1>1. CASE UNCHANGED vars
    BY <1>1, NothingMade, CallsUntouched, QrKept
       DEF Typed, TypeOK, vars, connection, answers
<1>2. CASE World /\ UNCHANGED held
    BY <1>2, WorldTyped
<1>3. ASSUME NEW c \in Callers, Step(c), UNCHANGED held PROVE Typed'
    <2>0. /\ call[c].op = "verify" =>
                call[c].payment \in PaymentIds /\ call[c].proof.txHash \in TxHashes
          /\ \A q, h, zk : createPaymentProof(request[q], h, zk).txHash = h
          /\ Requested \subseteq PaymentIds
        BY <1>3, RequestsExist DEF Typed, CallsTyped, CallOK, createPaymentProof, Requested
    <2>1. ASSUME \/ XrplVerifyReturns(c) \/ MidnightProofVerified(c) \/ MidnightVerifyReturns(c)
          PROVE  Typed'
        <3>1. call[c].op = "verify"
            BY <2>1 DEF XrplVerifyReturns, MidnightProofVerified, MidnightVerifyReturns
        <3> QED
            BY <1>3, <2>0, <2>1, <3>1, VerificationTyped
    <2>2. ASSUME NEW p \in Requested, NEW q \in Requested, NEW h \in TxHashes,
                 NEW onChain \in BOOLEAN, NEW zk,
                 \/ XrplVerify(c, p, createPaymentProof(request[q], h, zk), onChain)
                 \/ LaceVerify(c, p, createPaymentProof(request[q], h, zk))
                 \/ MidnightVerify(c, p, createPaymentProof(request[q], h, zk), onChain)
          PROVE  Typed'
        <3> DEFINE proof == createPaymentProof(request[q], h, zk)
        <3>1. proof.txHash \in TxHashes /\ p \in PaymentIds
            BY <2>0
        <3> HIDE DEF proof
        <3> QED
            BY <1>3, <2>2, <3>1, VerificationTyped DEF proof
    <2>3. CASE XrplStep(c)
        BY <1>3, <2>1, <2>2, <2>3, ConnectionTyped, PaymentBegun, PaymentGoesOn DEF XrplStep
    <2>4. CASE LaceStep(c)
        BY <1>3, <2>2, <2>4, ConnectionTyped, PaymentBegun, PaymentGoesOn DEF LaceStep
    <2>5. CASE MidnightStep(c)
        BY <1>3, <2>1, <2>2, <2>5, ConnectionTyped, PaymentBegun, PaymentGoesOn DEF MidnightStep
    <2> QED
        BY <1>3, <2>3, <2>4, <2>5 DEF Step
<1>4. CASE CounterStep
    BY <1>4, CounterTyped
<1> QED
    BY <1>1, <1>2, <1>3, <1>4 DEF Next

LEMMA InitTyped == Init => Typed
<1> SUFFICES ASSUME Init PROVE Typed
    OBVIOUS
<1>1. CallsTyped /\ QrTyped
    BY DEF Init, CallsTyped, CallOK, Idle, QrTyped, NoQr
<1>2. clock \in Times /\ client \in 0 .. MaxClients
    BY PaymentConstants, SessionConstants DEF Init, Times
<1>3. /\ registered \in BOOLEAN /\ connected \in BOOLEAN /\ helper \in BOOLEAN
      /\ overlapped \in BOOLEAN
    BY Zenon DEF Init
<1>4. /\ socket \in [Clients -> {"unused", "opening", "open", "closed"}]
      /\ request \in [PaymentIds -> PaymentRequests \cup {NoRequest}]
      /\ tx \in [TxHashes -> Transactions \cup {NoTx}]
      /\ reported \in [TxHashes -> PaymentStatuses \cup {"none"}]
    BY DEF Init
<1> QED
    BY <1>1, <1>2, <1>3, <1>4 DEF Init, Typed, TypeOK

\* Type correctness of the session, whatever its network.
THEOREM TypeCorrect == Spec => []TypeOK
<1>1. Typed => TypeOK
    BY DEF Typed
<1> QED
    BY <1>1, InitTyped, StepTyped, PTL DEF Spec

---------------------------------------------------------------------------
(* What stays *)

\* A step of the XRPL adapter connects, pays or verifies.
Linking(c) ==
    XrplConnect(c) \/ XrplConnectReturns(c) \/ XrplDisconnect(c) \/ XrplDisconnectReturns(c)
Paying(c) ==
    \/ XrplPrepareGoesOn(c) \/ XrplPrepareReturns(c) \/ XrplSubmitReturns(c) \/ XrplStatusReturns(c)
    \/ \E p \in PaymentIds : XrplPrepare(c, p)
    \/ \E h \in TxHashes : XrplSubmit(c, h) \/ XrplStatus(c, h)
    \/ \E p \in PaymentIds, h \in TxHashes : XrplCreatePayment(c, p, h)
Verifying(c) ==
    \/ XrplVerifyReturns(c)
    \/ \E p \in Requested, q \in Requested, h \in TxHashes, onChain \in BOOLEAN :
          XrplVerify(c, p, createPaymentProof(request[q], h, "none"), onChain)

LEMMA XrplParts ==
    ASSUME NEW c, XrplStep(c) PROVE Linking(c) \/ Paying(c) \/ Verifying(c)
BY DEF XrplStep, Linking, Paying, Verifying

LEMMA LinkingFrame ==
    ASSUME NEW c, Linking(c) PROVE UNCHANGED <<net, request, tx, counter, verdict, reported, submitted>>
BY DEF Linking, XrplConnect, XrplConnectReturns, XrplDisconnect, XrplDisconnectReturns, answers

LEMMA PayingFrame ==
    ASSUME NEW c, Paying(c) PROVE UNCHANGED <<net, request, counter, verdict>>
<1>1. ASSUME NEW p, XrplPrepare(c, p) PROVE UNCHANGED <<net, request, counter, verdict>>
    BY <1>1 DEF XrplPrepare, answers
<1>2. ASSUME NEW h, XrplSubmit(c, h) \/ XrplStatus(c, h)
      PROVE  UNCHANGED <<net, request, counter, verdict>>
    BY <1>2 DEF XrplSubmit, XrplStatus, answers
<1>3. ASSUME NEW p, NEW h, XrplCreatePayment(c, p, h) PROVE UNCHANGED <<net, request, counter, verdict>>
    BY <1>3 DEF XrplCreatePayment, answers
<1>4. CASE XrplPrepareGoesOn(c)
    BY <1>4 DEF XrplPrepareGoesOn, answers
<1>5. CASE XrplPrepareReturns(c) \/ XrplSubmitReturns(c) \/ XrplStatusReturns(c)
    BY <1>5 DEF XrplPrepareReturns, XrplSubmitReturns, XrplStatusReturns, answers
<1> QED
    BY <1>1, <1>2, <1>3, <1>4, <1>5 DEF Paying

LEMMA VerifyingFrame ==
    ASSUME NEW c, Verifying(c) PROVE UNCHANGED <<net, request, tx, counter, reported, submitted>>
<1>1. ASSUME NEW p, NEW proof, NEW onChain, XrplVerify(c, p, proof, onChain)
      PROVE  UNCHANGED <<net, request, tx, counter, reported, submitted>>
    BY <1>1 DEF XrplVerify
<1> QED
    BY <1>1 DEF Verifying, XrplVerifyReturns

LEMMA StepFrame ==
    ASSUME NEW c, Step(c) PROVE UNCHANGED <<net, request, counter>>
<1> DEFINE Framed == UNCHANGED <<net, request, counter>>
<1>1. ASSUME NEW h, NEW p, NEW proof, NEW onChain,
             \/ LaceSubmit(c, h) \/ LaceStatus(c, h) \/ LaceCreatePayment(c, p, h)
             \/ LaceVerify(c, p, proof)
      PROVE  Framed
    BY <1>1 DEF LaceSubmit, LaceStatus, LaceCreatePayment, LaceVerify
<1>2. LaceConnect(c) \/ LaceEnabled(c) \/ LaceConnectReturns(c) \/ LaceDisconnect(c)
      \/ LaceSubmitReturns(c) => Framed
    BY DEF LaceConnect, LaceEnabled, LaceConnectReturns, LaceDisconnect, LaceSubmitReturns
<1>3. ASSUME NEW h, NEW p, NEW proof, NEW onChain,
             \/ MidnightSubmit(c, h) \/ MidnightStatus(c, h) \/ MidnightCreatePayment(c, p, h)
             \/ MidnightVerify(c, p, proof, onChain)
      PROVE  Framed
    BY <1>3 DEF MidnightSubmit, MidnightStatus, MidnightCreatePayment, MidnightVerify
<1>4. \/ MidnightConnect(c) \/ MidnightClientMade(c) \/ MidnightConnectReturns(c)
      \/ MidnightDisconnect(c) \/ MidnightProofVerified(c) \/ MidnightVerifyReturns(c)
      => Framed
    BY DEF MidnightConnect, MidnightClientMade, MidnightConnectReturns, MidnightDisconnect,
       MidnightProofVerified, MidnightVerifyReturns
<1>5. LaceStep(c) => Framed
    BY <1>1, <1>2 DEF LaceStep
<1>6. MidnightStep(c) => Framed
    BY <1>3, <1>4 DEF MidnightStep
<1>7. XrplStep(c) => Framed
    BY XrplParts, LinkingFrame, PayingFrame, VerifyingFrame
<1> QED
    BY <1>5, <1>6, <1>7 DEF Step

LEMMA NetStays == [Next]_vars => UNCHANGED net
BY StepFrame DEF vars, Next, World, Tick, SocketDrops, Register, ClearRegistry, PayElsewhere,
   Validate, Lose, RequestPayment, CounterStep, MerchantCheckout, ShowPaymentQR, ScanPaymentQR,
   AlterBundle, ShowResponseQR, CheckPaymentQR, CheckBundle, session

\* On the XRP ledger only the ledger, the adapter and the counter take steps.
LEMMA XrplNext ==
    ASSUME net = "xrpl", Next
    PROVE  World \/ CounterStep \/ \E c \in Callers : XrplStep(c)
<1>1. ASSUME NEW c \in Callers PROVE ~LaceStep(c)
    BY DEF LaceStep, LaceConnect, LaceEnabled, LaceConnectReturns, LaceDisconnect,
       LaceSubmitReturns, LaceSubmit, LaceStatus, LaceCreatePayment, LaceVerify, Lace
<1>2. ASSUME NEW c \in Callers PROVE ~MidnightStep(c)
    BY DEF MidnightStep, MidnightConnect, MidnightClientMade, MidnightConnectReturns,
       MidnightDisconnect, MidnightProofVerified, MidnightVerifyReturns, MidnightSubmit,
       MidnightStatus, MidnightCreatePayment, MidnightVerify, Midnight
<1> QED
    BY <1>1, <1>2 DEF Next, Step

LEMMA RequestsStay ==
    ASSUME Typed, [Next]_vars, NEW p \in Requested
    PROVE  request'[p] = request[p] /\ p \in Requested'
<1>1. \/ UNCHANGED request
      \/ \E q \in PaymentIds \ Requested : \E r : request' = [request EXCEPT ![q] = r]
    <2>1. CASE UNCHANGED vars
        BY <2>1 DEF vars
    <2>2. CASE World
        BY <2>2 DEF World, Tick, SocketDrops, Register, ClearRegistry, PayElsewhere, Validate, Lose,
           RequestPayment
    <2>3. ASSUME NEW c \in Callers, Step(c) PROVE UNCHANGED request
        BY <2>3, StepFrame
    <2>4. CASE CounterStep
        BY <2>4 DEF CounterStep, MerchantCheckout, ShowPaymentQR, ScanPaymentQR, AlterBundle,
           ShowResponseQR, CheckPaymentQR, CheckBundle
    <2> QED
        BY <2>1, <2>2, <2>3, <2>4 DEF Next
<1> QED
    BY <1>1 DEF Typed, TypeOK, Requested

\* A validated transaction is final.
LEMMA FinalStays ==
    ASSUME Typed, net = "xrpl", [Next]_vars, NEW h \in TxHashes, Final(h)
    PROVE  tx'[h] = tx[h]
<1>0. tx \in [TxHashes -> Transactions \cup {NoTx}] /\ tx[h].phase = "validated" /\ tx[h] # NoTx
    BY DEF Typed, TypeOK, Final, NoTx
<1>1. CASE UNCHANGED tx
    BY <1>1
<1>2. ASSUME NEW g \in TxHashes,
             PayElsewhere(g) \/ Validate(g) \/ Lose(g)
             \/ \E c \in Callers : XrplSubmit(c, g) \/ \E p : XrplCreatePayment(c, p, g)
      PROVE  tx'[h] = tx[h]
    <2>1. g # h
        BY <1>0, <1>2 DEF PayElsewhere, Validate, Lose, XrplSubmit, XrplCreatePayment
    <2> QED
        BY <1>0, <1>2, <2>1 DEF PayElsewhere, Validate, Lose, XrplSubmit, XrplCreatePayment
<1>3. ASSUME NEW c \in Callers, XrplPrepareReturns(c) PROVE tx'[h] = tx[h]
    BY <1>0, <1>3 DEF XrplPrepareReturns
<1>4. CASE World
    BY <1>1, <1>2, <1>4 DEF World, Tick, SocketDrops, Register, ClearRegistry, RequestPayment
<1>5. CASE CounterStep
    BY <1>1, <1>5 DEF CounterStep, MerchantCheckout, ShowPaymentQR, ScanPaymentQR, AlterBundle,
       ShowResponseQR, CheckPaymentQR, CheckBundle, session
<1>6. ASSUME NEW c \in Callers, XrplStep(c) PROVE tx'[h] = tx[h]
    <2>1. CASE Paying(c)
        <3>1. ASSUME NEW g \in TxHashes, XrplStatus(c, g) PROVE UNCHANGED tx
            BY <3>1 DEF XrplStatus
        <3>2. ASSUME NEW p, XrplPrepare(c, p) PROVE UNCHANGED tx
            BY <3>2 DEF XrplPrepare
        <3>3. XrplPrepareGoesOn(c) \/ XrplSubmitReturns(c) \/ XrplStatusReturns(c) => UNCHANGED tx
            BY DEF XrplPrepareGoesOn, XrplSubmitReturns, XrplStatusReturns
        <3> QED
            BY <1>1, <1>2, <1>3, <2>1, <3>1, <3>2, <3>3 DEF Paying
    <2> QED
        BY <1>1, <1>6, <2>1, XrplParts, LinkingFrame, VerifyingFrame
<1> QED
    BY <1>1, <1>4, <1>5, <1>6, XrplNext DEF vars

---------------------------------------------------------------------------
(* What verifyPayment says *)

\* A confirmation is one the ledger would give again.
VerdictStands ==
    (net = "xrpl" /\ verdict.confirmed) =>
        \E p \in Requested, h \in TxHashes : Final(h) /\ verdict = LedgerVerdict(p, h)

\* The other answers: nobody was asked, or the proof does not fit the request.
LedgerNotAsked == ~verdict'.confirmed /\ TakenBackFor(verdict'.paymentId)

LEMMA ChecksFail ==
    ASSUME NEW r, NEW s, NEW h, clock <= r.expiresAt,
           ~ProofValid(r, createPaymentProof(s, h, "none"))
    PROVE  \/ s.amount # r.amount
           \/ s.destinationAddress # r.destinationAddress
           \/ s.network # r.network
<1> DEFINE checks == ProofChecks(r, createPaymentProof(s, h, "none"))
<1>1. /\ checks.amountMatch = (s.amount = r.amount)
      /\ checks.addressMatch = (s.destinationAddress = r.destinationAddress)
      /\ checks.networkMatch = (s.network = r.network)
      /\ checks.notExpired = (clock <= r.expiresAt)
      /\ DOMAIN checks = {"amountMatch", "addressMatch", "networkMatch", "notExpired"}
    BY DEF ProofChecks, createPaymentProof
<1>2. \E check \in DOMAIN checks : ~checks[check]
    BY DEF ProofValid
<1> QED
    BY <1>1, <1>2

LEMMA FailedFields ==
    ASSUME NEW p, NEW h, NEW why, verdict' = Failed(p, h, why)
    PROVE  ~verdict'.confirmed /\ verdict'.why = why /\ verdict'.paymentId = p
BY DEF Failed

LEMMA VerdictCases ==
    ASSUME Typed, net = "xrpl", [Next]_vars
    PROVE  \/ UNCHANGED verdict
           \/ LedgerNotAsked
           \/ /\ UNCHANGED <<request, tx>>
              /\ \E p \in Requested, h \in TxHashes : verdict' = LedgerVerdict(p, h)
<1>1. ASSUME NEW c \in Callers, NEW p \in Requested, NEW q \in Requested, NEW h \in TxHashes,
             NEW onChain \in BOOLEAN,
             XrplVerify(c, p, createPaymentProof(request[q], h, "none"), onChain)
      PROVE  UNCHANGED verdict \/ LedgerNotAsked
    <2> DEFINE proof == createPaymentProof(request[q], h, "none")
    <2>1. CASE verdict' \in BridgeRefusal(p, h)
        <3>1. \/ verdict' = Failed(p, h, "unregistered") /\ ~registered
              \/ verdict' = Failed(p, h, "disconnected") /\ ~connected
            BY <2>1 DEF BridgeRefusal
        <3> QED
            BY <3>1, FailedFields DEF LedgerNotAsked, TakenBackFor
    <2>2. CASE verdict' \in ValidationRefusal(p, proof)
        <3>1. ~ProofValid(request[p], proof)
              /\ verdict' = Failed(p, h, IF clock > request[p].expiresAt THEN "expired" ELSE "mismatch")
            BY <2>2 DEF ValidationRefusal, createPaymentProof
        <3>2. CASE clock > request[p].expiresAt
            BY <3>1, <3>2, FailedFields DEF LedgerNotAsked, TakenBackFor
        <3>3. CASE ~(clock > request[p].expiresAt)
            <4>1. clock <= request[p].expiresAt
                BY <1>1, <3>3, RequestsExist, PaymentConstants
                   DEF Typed, TypeOK, Times, PaymentRequests
            <4>2. \/ request[q].amount # request[p].amount
                  \/ request[q].destinationAddress # request[p].destinationAddress
                  \/ request[q].network # request[p].network
                BY <3>1, <4>1, ChecksFail
            <4>3. Terms(q) # Terms(p)
                BY <4>2 DEF Terms
            <4> QED
                BY <3>1, <3>3, <4>3, FailedFields DEF LedgerNotAsked, TakenBackFor
        <3> QED
            BY <3>2, <3>3
    <2>3. CASE verdict' = Unconfirmed(p, h, "pending")
        BY <2>3 DEF LedgerNotAsked, TakenBackFor, Unconfirmed
    <2>4. CASE verdict' = Failed(p, h, "disconnected") /\ ~ClientOpen
        BY <2>4, FailedFields DEF LedgerNotAsked, TakenBackFor
    <2>5. \/ UNCHANGED verdict
          \/ verdict' \in BridgeRefusal(p, h) \/ verdict' \in ValidationRefusal(p, proof)
          \/ verdict' = Unconfirmed(p, h, "pending")
          \/ verdict' = Failed(p, h, "disconnected") /\ ~ClientOpen
        <3>1. proof.txHash = h
            BY DEF createPaymentProof
        <3> QED
            BY <1>1, <3>1 DEF XrplVerify, Answer
    <2> QED
        BY <2>1, <2>2, <2>3, <2>4, <2>5
<1>2. ASSUME NEW c \in Callers, XrplVerifyReturns(c)
      PROVE  \/ LedgerNotAsked
             \/ /\ UNCHANGED <<request, tx>>
                /\ \E p \in Requested, h \in TxHashes : verdict' = LedgerVerdict(p, h)
    <2>1. call[c].payment \in Requested /\ call[c].proof.txHash \in TxHashes
        BY <1>2 DEF XrplVerifyReturns, Typed, CallsTyped, CallOK
    <2>2. verdict' = Failed(call[c].payment, call[c].proof.txHash, "lookup failed") => LedgerNotAsked
        BY FailedFields DEF LedgerNotAsked, TakenBackFor
    <2> QED
        BY <1>2, <2>1, <2>2 DEF XrplVerifyReturns, Answer
<1>3. World \/ UNCHANGED vars => UNCHANGED verdict
    BY DEF vars, answers, World, Tick, SocketDrops, Register, ClearRegistry, PayElsewhere, Validate,
       Lose, RequestPayment
<1>4. CounterStep => UNCHANGED verdict
    BY DEF CounterStep, MerchantCheckout, ShowPaymentQR, ScanPaymentQR, AlterBundle,
       ShowResponseQR, CheckPaymentQR, CheckBundle, session, answers
<1>5. ASSUME NEW c \in Callers, XrplStep(c)
      PROVE  UNCHANGED verdict \/ Verifying(c)
    BY <1>5, XrplParts, LinkingFrame, PayingFrame
<1> QED
    BY <1>1, <1>2, <1>3, <1>4, <1>5, XrplNext DEF Verifying

LEMMA LedgerVerdictKept ==
    ASSUME Typed, net = "xrpl", [Next]_vars, NEW p \in Requested, NEW h \in TxHashes, Final(h)
    PROVE  Final(h)' /\ LedgerVerdict(p, h)' = LedgerVerdict(p, h)
<1>1. tx'[h] = tx[h] /\ request'[p] = request[p]
    BY FinalStays, RequestsStay
<1> QED
    BY <1>1 DEF Final, LedgerVerdict, DeliveredDiffers, MemoNamesAnother, Unconfirmed, Failed, Confirmed

LEMMA VerdictKept == Typed /\ VerdictStands /\ [Next]_vars => VerdictStands'
<1> SUFFICES ASSUME Typed, VerdictStands, [Next]_vars, net = "xrpl", verdict.confirmed'
             PROVE  (\E p \in Requested, h \in TxHashes :
                        Final(h) /\ verdict = LedgerVerdict(p, h))'
    BY NetStays DEF VerdictStands
<1>1. CASE UNCHANGED verdict
    <2>1. PICK p \in Requested, h \in TxHashes : Final(h) /\ verdict = LedgerVerdict(p, h)
        BY <1>1 DEF VerdictStands
    <2> QED
        BY <1>1, <2>1, LedgerVerdictKept, RequestsStay
<1>2. ASSUME NEW p \in Requested, NEW h \in TxHashes, UNCHANGED <<request, tx>>,
             verdict' = LedgerVerdict(p, h)
      PROVE  (\E q \in Requested, g \in TxHashes :
                 Final(g) /\ verdict = LedgerVerdict(q, g))'
    <2>1. Final(h)
        BY <1>2 DEF LedgerVerdict, Unconfirmed
    <2> QED
        BY <1>2, <2>1, LedgerVerdictKept, RequestsStay
<1> QED
    BY <1>1, <1>2, VerdictCases DEF LedgerNotAsked

LEMMA InitStands == Init => VerdictStands
<1> SUFFICES ASSUME Init PROVE ~verdict.confirmed
    BY DEF VerdictStands
<1>1. verdict = [valid |-> FALSE, confirmed |-> FALSE, why |-> "not asked"]
    BY DEF Init, NoVerdict
<1>2. verdict.confirmed = FALSE
    BY <1>1
<1> QED
    BY <1>2

\* What a verdict of the ledger means.
LEMMA StandingVerdict ==
    ASSUME Typed, NEW p \in Requested, NEW h \in TxHashes, Final(h), verdict = LedgerVerdict(p, h)
    PROVE  /\ verdict.paymentId = p /\ verdict.txHash = h
           /\ verdict.confirmed =>
                 /\ Applied(h) /\ tx[h].to = request[p].destinationAddress
                 /\ parseAgilityMemo(tx[h].memo) \ {p} = {}
BY DEF LedgerVerdict, Final, Applied, Failed, Confirmed, MemoNamesAnother

LEMMA MemoOfPayment ==
    ASSUME Typed, NEW p \in PaymentIds, NEW h \in TxHashes, Final(h)
    PROVE  parseAgilityMemo(tx[h].memo) \ {p} = {} <=> tx[h].memo \in {NoMemo, createAgilityMemo(p)}
<1>1. tx[h].memo \in AgilityMemos \cup {NoMemo}
    BY DEF Typed, TypeOK, Final, NoTx, Transactions
<1>2. CASE tx[h].memo = NoMemo
    BY <1>2 DEF NoMemo, parseAgilityMemo
<1>3. ASSUME NEW q \in PaymentIds, tx[h].memo = createAgilityMemo(q)
      PROVE  parseAgilityMemo(tx[h].memo) \ {p} = {}
             <=> tx[h].memo \in {NoMemo, createAgilityMemo(p)}
    <2>1. parseAgilityMemo(tx[h].memo) = {q} /\ tx[h].memo # NoMemo
        BY <1>3 DEF createAgilityMemo, parseAgilityMemo, NoMemo
    <2>2. createAgilityMemo(q) = createAgilityMemo(p) <=> q = p
        BY DEF createAgilityMemo
    <2> QED
        BY <1>3, <2>1, <2>2
<1> QED
    BY <1>1, <1>2, <1>3 DEF AgilityMemos, createAgilityMemo

\* A payment confirmed on the XRP ledger rests on a final, successful transaction
\* to the request's address that no memo gives to another payment.
THEOREM ConfirmationsPaid == Spec => []ConfirmedMeansPaid
<1>1. ASSUME Typed, VerdictStands PROVE ConfirmedMeansPaid
    <2> SUFFICES ASSUME net = "xrpl", verdict.confirmed PROVE ConfirmedMeansPaid
        BY DEF ConfirmedMeansPaid
    <2>1. PICK p \in Requested, h \in TxHashes : Final(h) /\ verdict = LedgerVerdict(p, h)
        BY <1>1 DEF VerdictStands
    <2>2. /\ verdict.paymentId = p /\ verdict.txHash = h /\ Applied(h)
          /\ tx[h].to = request[p].destinationAddress
          /\ parseAgilityMemo(tx[h].memo) \ {p} = {}
        BY <1>1, <2>1, StandingVerdict
    <2>4. p \in PaymentIds
        BY <1>1, RequestsExist DEF Typed
    <2>5. tx[h].memo \in {NoMemo, createAgilityMemo(p)}
        BY <1>1, <2>1, <2>2, <2>4, MemoOfPayment
    <2> QED
        BY <2>2, <2>5 DEF ConfirmedMeansPaid
<1> QED
    BY <1>1, InitTyped, InitStands, StepTyped, VerdictKept, PTL DEF Spec

\* A confirmation is only taken back by an answer that the ledger had no part in.
THEOREM ConfirmationsKept == Spec => ConfirmationKept
<1> DEFINE Kept == (/\ net = "xrpl" /\ verdict.confirmed /\ ~verdict'.confirmed
                    /\ verdict'.txHash = verdict.txHash /\ verdict'.paymentId = verdict.paymentId)
                   => TakenBackFor(verdict.paymentId)
<1>1. ASSUME Typed, VerdictStands, [Next]_vars PROVE Kept
    <2> SUFFICES ASSUME net = "xrpl", verdict.confirmed, ~verdict'.confirmed,
                        verdict'.txHash = verdict.txHash, verdict'.paymentId = verdict.paymentId
                 PROVE  LedgerNotAsked
        BY DEF LedgerNotAsked
    <2>1. PICK p \in Requested, h \in TxHashes : Final(h) /\ verdict = LedgerVerdict(p, h)
        BY <1>1 DEF VerdictStands
    <2>2. ASSUME NEW q \in Requested, NEW g \in TxHashes, verdict' = LedgerVerdict(q, g)
          PROVE  verdict' = verdict
        <3>1. verdict'.paymentId = q /\ verdict'.txHash = g
            BY <2>2 DEF LedgerVerdict, Unconfirmed, Failed, Confirmed
        <3> QED
            BY <1>1, <2>1, <2>2, <3>1, StandingVerdict
    <2> QED
        BY <1>1, <2>2, VerdictCases
<1> QED
    BY <1>1, InitTyped, InitStands, StepTyped, VerdictKept, PTL DEF Spec, ConfirmationKept

---------------------------------------------------------------------------
(* What getPaymentStatus and submitPayment say *)

StatusTrue ==
    net = "xrpl" =>
        /\ \A h \in submitted : Applied(h)
        /\ \A h \in TxHashes : /\ reported[h] = "confirmed" => Applied(h)
                               /\ reported[h] = "failed" => Final(h) /\ ~Applied(h)

LEMMA StatusTrueKept == Typed /\ StatusTrue /\ [Next]_vars => StatusTrue'
<1> SUFFICES ASSUME Typed, StatusTrue, [Next]_vars, net = "xrpl" PROVE StatusTrue'
    BY NetStays DEF StatusTrue
<1>1. ASSUME NEW h \in TxHashes, Final(h)
      PROVE  Final(h)' /\ Applied(h)' = Applied(h)
    BY <1>1, FinalStays DEF Final, Applied
<1>2. submitted \subseteq TxHashes /\ reported \in [TxHashes -> PaymentStatuses \cup {"none"}]
    BY DEF Typed, TypeOK
<1>3. \A h \in TxHashes : Applied(h) => Final(h)
    BY DEF Applied, Final
<1>4. CASE UNCHANGED <<reported, submitted>>
    BY <1>1, <1>2, <1>3, <1>4 DEF StatusTrue
<1>5. ASSUME NEW c \in Callers, XrplSubmitReturns(c) PROVE StatusTrue'
    <2>1. \A h \in submitted' : h \in submitted \/ (h \in TxHashes /\ Applied(h))
        <3>1. call[c].op = "submit" /\ call[c].txHash \in TxHashes
            BY <1>5 DEF XrplSubmitReturns, Typed, CallsTyped, CallOK, Made
        <3>2. \/ submitted' = submitted
              \/ AppliedTx(call[c].txHash) /\ submitted' = submitted \cup {call[c].txHash}
            BY <1>5 DEF XrplSubmitReturns
        <3>3. AppliedTx(call[c].txHash) <=> Applied(call[c].txHash)
            BY DEF AppliedTx, Applied
        <3> QED
            BY <3>1, <3>2, <3>3
    <2> QED
        BY <1>1, <1>2, <1>3, <1>5, <2>1 DEF StatusTrue, XrplSubmitReturns
<1>6. ASSUME NEW c \in Callers, XrplStatusReturns(c) \/ \E h \in TxHashes : XrplStatus(c, h)
      PROVE  StatusTrue'
    <2>1. /\ UNCHANGED submitted
          /\ \A h \in TxHashes : reported'[h] \in {reported[h], "pending", LedgerStatus(h)}
        BY <1>2, <1>6 DEF XrplStatusReturns, XrplStatus
    <2>2. \A h \in TxHashes : /\ LedgerStatus(h) = "confirmed" => Applied(h)
                              /\ LedgerStatus(h) = "failed" => Final(h) /\ ~Applied(h)
        BY DEF LedgerStatus, Applied, Final
    <2> QED
        BY <1>1, <1>2, <1>3, <2>1, <2>2 DEF StatusTrue
<1>7. World \/ UNCHANGED vars => UNCHANGED <<reported, submitted>>
    BY DEF vars, answers, World, Tick, SocketDrops, Register, ClearRegistry, PayElsewhere, Validate,
       Lose, RequestPayment
<1>8. CounterStep => UNCHANGED <<reported, submitted>>
    BY DEF CounterStep, MerchantCheckout, ShowPaymentQR, ScanPaymentQR, AlterBundle,
       ShowResponseQR, CheckPaymentQR, CheckBundle, session, answers
<1>9. ASSUME NEW c \in Callers, Paying(c) PROVE StatusTrue'
    <2>1. ASSUME NEW p, NEW h,
                 XrplPrepare(c, p) \/ XrplPrepareGoesOn(c) \/ XrplPrepareReturns(c)
                 \/ XrplSubmit(c, h) \/ XrplCreatePayment(c, p, h)
          PROVE  UNCHANGED <<reported, submitted>>
        <3>1. XrplPrepare(c, p) \/ XrplPrepareGoesOn(c) => UNCHANGED <<reported, submitted>>
            BY DEF XrplPrepare, XrplPrepareGoesOn, answers
        <3> QED
            BY <2>1, <3>1 DEF XrplPrepareReturns, XrplSubmit, XrplCreatePayment, answers
    <2> QED
        BY <1>4, <1>5, <1>6, <1>9, <2>1 DEF Paying
<1> QED
    BY <1>4, <1>7, <1>8, <1>9, XrplNext, XrplParts, LinkingFrame, VerifyingFrame

LEMMA StatusTrueAlways == Spec => []StatusTrue
<1>1. Init => StatusTrue
    BY DEF Init, StatusTrue
<1> QED
    BY <1>1, InitTyped, StepTyped, StatusTrueKept, PTL DEF Spec

\* A final status reported for an XRPL transaction is the ledger's.
THEOREM StatusFinal == Spec => []ReportedIsFinal
<1>1. StatusTrue => ReportedIsFinal
    BY DEF StatusTrue, ReportedIsFinal, Final, Applied
<1> QED
    BY <1>1, StatusTrueAlways, PTL

\* submitPayment answers success on the XRP ledger only for what was applied.
THEOREM SuccessApplied == Spec => []SuccessMeansApplied
<1>1. StatusTrue => SuccessMeansApplied
    BY DEF StatusTrue, SuccessMeansApplied
<1> QED
    BY <1>1, StatusTrueAlways, PTL

---------------------------------------------------------------------------
(* The merchant's counter *)

BundleTypes == {"kyc_payment", "kyc_payment_bundle"}

\* An altered code carries other permissions than its hash, another code the same.
QrHashed ==
    /\ {"type", "altered", "bundle"} \subseteq DOMAIN qr \/ qr.type \notin BundleTypes
    /\ qr.type \in BundleTypes =>
          /\ {"payment", "permissions", "bundleHash"} \subseteq DOMAIN qr.bundle
          /\ qr.altered \in BOOLEAN
          /\ qr.altered => qr.bundle.permissions # qr.bundle.bundleHash.permissions
          /\ ~qr.altered => qr.bundle.permissions = qr.bundle.bundleHash.permissions

OwnIds == \A p \in Requested : request[p].paymentId = p

DeskTrue == (desk.valid => desk.paymentId \in Requested) /\ AcceptedAnswersItsRequest

LEMMA CodeShown ==
    ASSUME NEW h, ShowResponseQR(h) PROVE QrHashed' /\ DeskTrue'
<1>1. desk'.valid = FALSE
    BY DEF ShowResponseQR, NotChecked
<1>2. ASSUME NEW proof, qr' = createPaymentOnlyQR(proof) PROVE QrHashed'
    BY <1>2 DEF createPaymentOnlyQR, QrHashed, BundleTypes
<1>3. ASSUME NEW proof, NEW permissions,
             \/ qr' = createPaymentResponseQR(proof, permissions)
             \/ qr' = encodeBundleToQR(createKycPaymentBundle(proof, permissions))
      PROVE  QrHashed'
    <2>1. PICK type, by : qr' =
              [type |-> type, altered |-> FALSE,
               bundle |-> [payment |-> proof, permissions |-> permissions,
                           bundleHash |-> Hash(by, proof, permissions)]]
        BY <1>3 DEF createPaymentResponseQR, encodeBundleToQR, createKycPaymentBundle
    <2>2. /\ DOMAIN qr' = {"type", "altered", "bundle"} /\ qr'.altered = FALSE
          /\ DOMAIN qr'.bundle = {"payment", "permissions", "bundleHash"}
          /\ qr'.bundle.permissions = permissions
          /\ qr'.bundle.bundleHash.permissions = permissions
        BY <2>1 DEF Hash
    <2> QED
        BY <2>2 DEF QrHashed
<1> QED
    BY <1>1, <1>2, <1>3 DEF ShowResponseQR, DeskTrue, AcceptedAnswersItsRequest

LEMMA CodeAltered ==
    ASSUME QrTyped, QrHashed, AlterBundle PROVE QrHashed' /\ DeskTrue'
<1>1. desk'.valid = FALSE
    BY DEF AlterBundle, NotChecked
<1>2. PICK permissions : /\ permissions # qr.bundle.permissions
                         /\ qr' = [qr EXCEPT !.bundle.permissions = permissions, !.altered = TRUE]
    BY DEF AlterBundle
<1>3. qr.type \in BundleTypes /\ ~qr.altered
    BY DEF AlterBundle, BundleTypes
<1>4. /\ DOMAIN qr' = DOMAIN qr /\ qr'.type = qr.type /\ qr'.altered = TRUE
      /\ DOMAIN qr'.bundle = DOMAIN qr.bundle /\ qr'.bundle.permissions = permissions
      /\ qr'.bundle.bundleHash = qr.bundle.bundleHash
    BY <1>2, <1>3 DEF QrHashed
<1>5. QrHashed'
    BY <1>2, <1>3, <1>4 DEF QrHashed
<1> QED
    BY <1>1, <1>5 DEF DeskTrue, AcceptedAnswersItsRequest

LEMMA CodeChecked ==
    ASSUME QrHashed, OwnIds, NEW p \in Requested, CheckPaymentQR(p) \/ CheckBundle(p)
    PROVE  DeskTrue'
<1>0. UNCHANGED <<qr, request>>
    BY DEF CheckPaymentQR, CheckBundle
<1>1. CASE CheckPaymentQR(p)
    <2>1. /\ desk'.paymentId = p /\ desk'.via = "response"
          /\ desk'.valid = verifyPaymentQR(request[p], qr).valid
        BY <1>1 DEF CheckPaymentQR, Record
    <2>2. verifyPaymentQR(request[p], qr).valid =>
             /\ Matches(request[p], qr.bundle.payment)
             /\ \/ qr.type = "payment" /\ request[p].requiredKyc = {}
                \/ qr.type = "kyc_payment" /\ request[p].requiredKyc \subseteq qr.bundle.permissions
        BY DEF verifyPaymentQR
    <2> QED
        BY <1>0, <2>1, <2>2 DEF DeskTrue, AcceptedAnswersItsRequest, Matches, Requested, OwnIds
<1>2. CASE CheckBundle(p)
    <2>1. /\ desk'.paymentId = p /\ qr.type \in BundleTypes
          /\ desk'.valid = verifyMerchantBundle(request[p], qr.bundle).valid
        BY <1>2 DEF CheckBundle, Record, BundleTypes
    <2>2. verifyMerchantBundle(request[p], qr.bundle).valid =>
             /\ Matches(request[p], qr.bundle.payment)
             /\ request[p].requiredKyc \subseteq qr.bundle.permissions
             /\ qr.bundle.bundleHash.permissions = qr.bundle.permissions
        <3>1. HashMatches(qr.bundle) => qr.bundle.bundleHash.permissions = qr.bundle.permissions
            BY DEF HashMatches, Hash
        <3> QED
            BY <3>1 DEF verifyMerchantBundle
    <2> QED
        BY <1>0, <2>1, <2>2
           DEF DeskTrue, AcceptedAnswersItsRequest, Matches, Requested, QrHashed, BundleTypes, OwnIds
<1> QED
    BY <1>1, <1>2

CounterInv == QrHashed /\ OwnIds /\ DeskTrue

LEMMA OwnIdsKept == Typed /\ OwnIds /\ [Next]_vars => OwnIds'
<1> SUFFICES ASSUME Typed, OwnIds, [Next]_vars PROVE OwnIds'
    OBVIOUS
<1>1. ASSUME NEW p \in PaymentIds, RequestPayment(p) \/ MerchantCheckout(p) \/ ShowPaymentQR(p)
      PROVE  OwnIds'
    <2>1. PICK r : r.paymentId = p /\ request' = [request EXCEPT ![p] = r]
        BY <1>1 DEF RequestPayment, MerchantCheckout, ShowPaymentQR, createMerchantCheckout,
           createPaymentRequest
    <2> QED
        BY <2>1 DEF OwnIds, Requested, Typed, TypeOK
<1>2. UNCHANGED request => OwnIds'
    BY DEF OwnIds, Requested
<1>3. World => UNCHANGED request \/ \E p \in PaymentIds : RequestPayment(p)
    BY DEF World, Tick, SocketDrops, Register, ClearRegistry, PayElsewhere, Validate, Lose
<1>4. CounterStep =>
         UNCHANGED request \/ \E p \in PaymentIds : MerchantCheckout(p) \/ ShowPaymentQR(p)
    BY DEF CounterStep, ScanPaymentQR, AlterBundle, ShowResponseQR, CheckPaymentQR, CheckBundle
<1> QED
    BY <1>1, <1>2, <1>3, <1>4, StepFrame DEF Next, vars

LEMMA CounterKept == Typed /\ CounterInv /\ [Next]_vars => CounterInv'
<1> SUFFICES ASSUME Typed, CounterInv, [Next]_vars PROVE QrHashed' /\ DeskTrue'
    BY OwnIdsKept DEF CounterInv
<1>0. QrTyped /\ QrHashed /\ OwnIds /\ DeskTrue /\ Requested \subseteq Requested'
      /\ \A p \in Requested : request'[p] = request[p]
    BY RequestsStay DEF Typed, CounterInv
<1>1. UNCHANGED counter => QrHashed' /\ DeskTrue'
    BY <1>0 DEF counter, QrHashed, DeskTrue, AcceptedAnswersItsRequest
<1>2. World \/ UNCHANGED vars => UNCHANGED counter
    BY DEF World, Tick, SocketDrops, Register, ClearRegistry, PayElsewhere, Validate, Lose,
       RequestPayment, vars, counter
<1>3. ASSUME NEW p \in PaymentIds, ShowPaymentQR(p) PROVE QrHashed' /\ DeskTrue'
    <2>1. desk'.valid = FALSE /\ qr'.type = "request"
        BY <1>3 DEF ShowPaymentQR, NotChecked, createPaymentQR
    <2> QED
        BY <2>1 DEF QrHashed, BundleTypes, DeskTrue, AcceptedAnswersItsRequest
<1>4. ASSUME NEW p \in PaymentIds, CheckPaymentQR(p) \/ CheckBundle(p)
      PROVE  QrHashed' /\ DeskTrue'
    <2>1. p \in Requested /\ UNCHANGED qr
        BY <1>4 DEF CheckPaymentQR, CheckBundle
    <2> QED
        BY <1>0, <1>4, <2>1, CodeChecked DEF QrHashed
<1>5. ASSUME NEW p \in PaymentIds, MerchantCheckout(p) \/ ScanPaymentQR
      PROVE  UNCHANGED counter
    BY <1>5 DEF MerchantCheckout, ScanPaymentQR
<1>6. ScanPaymentQR => UNCHANGED counter
    BY DEF ScanPaymentQR
<1>7. CounterStep => QrHashed' /\ DeskTrue'
    BY <1>0, <1>1, <1>3, <1>4, <1>5, <1>6, CodeShown, CodeAltered DEF CounterStep
<1> QED
    BY <1>1, <1>2, <1>7, StepFrame DEF Next

\* What the merchant accepts belongs to the request it is checked against, with
\* the permissions asked for, and is the bundle that was made when its hash was
\* checked.
THEOREM AcceptedAnswers == Spec => []AcceptedAnswersItsRequest
<1>1. Init => CounterInv
    <2> SUFFICES ASSUME Init PROVE CounterInv
        OBVIOUS
    <2>1. desk.valid = FALSE /\ qr.type = "none" /\ Requested = {}
        BY DEF Init, NotChecked, NoQr, Requested
    <2> QED
        BY <2>1 DEF CounterInv, QrHashed, BundleTypes, OwnIds, DeskTrue, AcceptedAnswersItsRequest
<1>2. CounterInv => AcceptedAnswersItsRequest
    BY DEF CounterInv, DeskTrue
<1> QED
    BY <1>1, <1>2, InitTyped, StepTyped, CounterKept, PTL DEF Spec

---------------------------------------------------------------------------
(* Connections *)

Linked(c) == call[c].op \in {"connect", "disconnect"}

OneLink == \A c \in Callers, d \in Callers : Linked(c) /\ Linked(d) => c = d

\* XRPL: the only socket that may be open is the client's, and it is connected
\* unless somebody is at it.
XrplLink ==
    /\ \A k \in Clients : socket[k] = "open" => k = client
    /\ \A c \in Callers :
          /\ Linked(c) => client = call[c].client
          /\ call[c].op = "connect" => socket[client] = "opening"
    /\ ClientOpen => connected \/ \E c \in Callers : Linked(c)

\* Lace and Midnight: the client that has been made for a connect is the adapter's.
OtherLink ==
    /\ connected => helper
    /\ \A c \in Callers :
          call[c].op = "connect" /\ socket[call[c].client] = "open" => client = call[c].client

LinkInv ==
    ~overlapped =>
        /\ OneLink /\ (connected => client # 0)
        /\ (net = "xrpl" => XrplLink)
        /\ (net # "xrpl" => OtherLink)

\* Other calls begin and end without touching the connection.
Unlinked ==
    /\ UNCHANGED <<net, connected, client, socket, helper, overlapped>>
    /\ \A c \in Callers : /\ Linked(c) => call'[c] = call[c]
                          /\ Linked(c)' => Linked(c)

LEMMA UnlinkedKeeps ==
    ASSUME LinkInv, Unlinked PROVE LinkInv'
<1>1. \A c \in Callers : /\ Linked(c)' <=> Linked(c)
                         /\ Linked(c) => call'[c] = call[c]
                         /\ call'[c].op = "connect" => call[c].op = "connect"
    BY DEF Unlinked, Linked
<1>2. OneLink => OneLink'
    BY <1>1 DEF OneLink
<1>3. XrplLink => XrplLink'
    BY <1>1 DEF XrplLink, ClientOpen, Unlinked, Linked
<1>4. OtherLink => OtherLink'
    BY <1>1 DEF OtherLink, Unlinked, Linked
<1> QED
    BY <1>2, <1>3, <1>4 DEF LinkInv, Unlinked

\* A connect or disconnect that does not overlap finds nobody at it.
LEMMA Alone ==
    ASSUME NEW c \in Callers, LinkInv, NoteOverlap(c), call[c] = Idle, ~overlapped'
    PROVE  ~overlapped /\ \A d \in Callers : ~Linked(d)
<1>1. ~overlapped /\ ~Reconnecting(c)
    BY DEF NoteOverlap
<1>2. ~Linked(c)
    BY DEF Linked, Idle
<1> QED
    BY <1>1, <1>2 DEF Reconnecting, Linked

LEMMA XrplLinks ==
    ASSUME Typed, LinkInv, NEW c \in Callers, Linking(c) PROVE LinkInv'
<1> SUFFICES ASSUME ~overlapped'
             PROVE  OneLink' /\ (connected => client # 0)' /\ XrplLink' /\ net' = "xrpl"
    BY DEF LinkInv
<1>0. /\ socket \in [Clients -> {"unused", "opening", "open", "closed"}]
      /\ call = [d \in Callers |-> call[d]] /\ 0 \notin Clients
      /\ Linked(c) => call[c].client \in Clients
    BY DEF Typed, TypeOK, CallsTyped, CallOK, Clients, Linked
<1>1. CASE XrplConnect(c)
    <2>1. PICK k \in Clients : /\ socket[k] = "unused" /\ client' = k
                               /\ socket' = [socket EXCEPT ![k] = "opening"]
                               /\ call' = [call EXCEPT ![c] = ConnectCall(k)]
        BY <1>1 DEF XrplConnect, FreshClients, Begins
    <2>2. /\ net = "xrpl" /\ ~(connected /\ ClientOpen) /\ call[c] = Idle
          /\ NoteOverlap(c) /\ UNCHANGED <<net, connected>>
        BY <1>1 DEF XrplConnect, Begins
    <2>3. ~overlapped /\ \A d \in Callers : ~Linked(d)
        BY <2>2, Alone
    <2>4. XrplLink
        BY <2>2, <2>3 DEF LinkInv
    <2>5. \A j \in Clients : socket[j] # "open"
        BY <1>0, <2>2, <2>3, <2>4 DEF XrplLink, ClientOpen
    <2>6. \A d \in Callers : Linked(d)' => d = c
        BY <1>0, <2>1, <2>3 DEF Linked
    <2>7. call'[c].op = "connect" /\ call'[c].client = k /\ socket'[k] = "opening"
        BY <1>0, <2>1 DEF ConnectCall
    <2>8. OneLink'
        BY <2>6 DEF OneLink
    <2>9. ~ClientOpen' /\ \A j \in Clients : socket'[j] # "open"
        BY <1>0, <2>1, <2>5, <2>7 DEF ClientOpen
    <2>10. \A d \in Callers : call'[d].op = "connect" => d = c
        BY <2>6 DEF Linked
    <2> QED
        BY <1>0, <2>1, <2>2, <2>6, <2>7, <2>8, <2>9, <2>10 DEF XrplLink
<1>2. CASE XrplConnectReturns(c)
    <2> DEFINE k == call[c].client
    <2>1. /\ net = "xrpl" /\ call[c].op = "connect" /\ ~overlapped
          /\ UNCHANGED <<net, client>> /\ call' = [call EXCEPT ![c] = Idle]
        BY <1>2 DEF XrplConnectReturns, Ends
    <2>2. k \in Clients /\ client = k /\ XrplLink /\ OneLink
        BY <1>0, <2>1 DEF LinkInv, XrplLink, Linked
    <2>3. \/ socket' = [socket EXCEPT ![k] = "open"] /\ connected' = TRUE
          \/ socket' = [socket EXCEPT ![k] = "closed"] /\ connected' = FALSE
        BY <1>2 DEF XrplConnectReturns
    <2>4. \A d \in Callers : ~Linked(d)'
        BY <1>0, <2>1, <2>2 DEF OneLink, Linked, Idle
    <2> HIDE DEF k
    <2>5. (\A j \in Clients : socket[j] = "open" => j = client)'
        BY <1>0, <2>1, <2>2, <2>3 DEF XrplLink
    <2>6. (ClientOpen => connected)'
        BY <1>0, <2>1, <2>2, <2>3 DEF ClientOpen
    <2> QED
        BY <1>0, <2>1, <2>2, <2>4, <2>5, <2>6 DEF XrplLink, OneLink, Linked
<1>3. CASE XrplDisconnect(c)
    <2>1. net = "xrpl" /\ NoteOverlap(c) /\ call[c] = Idle /\ UNCHANGED <<net, socket>>
        BY <1>3 DEF XrplDisconnect, Begins
    <2>2. ~overlapped /\ \A d \in Callers : ~Linked(d)
        BY <2>1, Alone
    <2>3. XrplLink /\ (connected => client # 0)
        BY <2>1, <2>2 DEF LinkInv
    <2>4. CASE /\ UNCHANGED <<connected, client>>
               /\ call' = [call EXCEPT ![c] = DisconnectCall(client)]
        <3>1. call'[c].op = "disconnect" /\ call'[c].client = client
            BY <1>0, <2>4 DEF DisconnectCall
        <3>2. \A d \in Callers : Linked(d)' => d = c
            BY <1>0, <2>2, <2>4 DEF Linked
        <3>3. OneLink' /\ Linked(c)' /\ \A d \in Callers : call'[d].op # "connect"
            BY <3>1, <3>2 DEF OneLink, Linked
        <3> QED
            BY <2>1, <2>3, <2>4, <3>1, <3>2, <3>3 DEF XrplLink
    <2>5. CASE ~ClientOpen /\ connected' = FALSE /\ client' = 0 /\ UNCHANGED call
        <3>1. \A j \in Clients : socket[j] # "open"
            BY <1>0, <2>3, <2>5 DEF XrplLink, ClientOpen
        <3>2. \A d \in Callers : ~Linked(d)'
            BY <2>2, <2>5 DEF Linked
        <3>3. ~ClientOpen'
            BY <2>5 DEF ClientOpen
        <3> QED
            BY <2>1, <2>5, <3>1, <3>2, <3>3 DEF XrplLink, OneLink, Linked
    <2> QED
        BY <1>3, <2>4, <2>5 DEF XrplDisconnect, Begins
<1>4. CASE XrplDisconnectReturns(c)
    <2> DEFINE k == call[c].client
    <2>1. /\ net = "xrpl" /\ call[c].op = "disconnect" /\ ~overlapped
          /\ UNCHANGED net /\ call' = [call EXCEPT ![c] = Idle]
          /\ socket' = [socket EXCEPT ![k] = "closed"] /\ connected' = FALSE /\ client' = 0
        BY <1>4 DEF XrplDisconnectReturns, Ends
    <2>2. client = k /\ XrplLink /\ OneLink
        BY <1>0, <2>1 DEF LinkInv, XrplLink, Linked
    <2>3. \A d \in Callers : ~Linked(d)'
        BY <1>0, <2>1, <2>2 DEF OneLink, Linked, Idle
    <2> HIDE DEF k
    <2>4. \A j \in Clients : socket'[j] # "open"
        BY <1>0, <2>1, <2>2 DEF XrplLink
    <2>5. ~ClientOpen'
        BY <2>1 DEF ClientOpen
    <2> QED
        BY <2>1, <2>3, <2>4, <2>5 DEF XrplLink, OneLink, Linked
<1> QED
    BY <1>1, <1>2, <1>3, <1>4 DEF Linking

LEMMA OtherLinks ==
    ASSUME Typed, LinkInv, NEW c \in Callers,
           \/ LaceConnect(c) \/ LaceEnabled(c) \/ LaceConnectReturns(c) \/ LaceDisconnect(c)
           \/ MidnightConnect(c) \/ MidnightClientMade(c) \/ MidnightConnectReturns(c)
           \/ MidnightDisconnect(c)
    PROVE  LinkInv'
<1> SUFFICES ASSUME ~overlapped'
             PROVE  OneLink' /\ (connected => client # 0)' /\ OtherLink' /\ net' # "xrpl"
    BY DEF LinkInv
<1>0. /\ socket \in [Clients -> {"unused", "opening", "open", "closed"}]
      /\ call = [d \in Callers |-> call[d]] /\ 0 \notin Clients
      /\ call[c].op = "connect" => call[c].client \in Clients
    BY DEF Typed, TypeOK, CallsTyped, CallOK, Clients
<1>1. CASE LaceConnect(c) \/ MidnightConnect(c)
    <2>1. PICK k \in Clients : /\ socket' = [socket EXCEPT ![k] = "opening"]
                               /\ call' = [call EXCEPT ![c] = ConnectCall(k)]
        BY <1>1 DEF LaceConnect, MidnightConnect, FreshClients, Begins
    <2>2. /\ net # "xrpl" /\ call[c] = Idle
          /\ NoteOverlap(c) /\ UNCHANGED <<net, connected, client, helper>>
        BY <1>1 DEF LaceConnect, MidnightConnect, Lace, Midnight, Begins
    <2>3. ~overlapped /\ \A d \in Callers : ~Linked(d)
        BY <2>2, Alone
    <2>4. \A d \in Callers : Linked(d)' => d = c
        BY <1>0, <2>1, <2>3 DEF Linked
    <2>5. call'[c].client = k /\ socket'[k] = "opening"
        BY <1>0, <2>1 DEF ConnectCall
    <2>6. \A d \in Callers : call'[d].op = "connect" => d = c
        BY <2>4 DEF Linked
    <2> QED
        BY <2>2, <2>3, <2>4, <2>5, <2>6 DEF OneLink, OtherLink, LinkInv
<1>2. CASE LaceEnabled(c) \/ MidnightClientMade(c)
    <2> DEFINE k == call[c].client
    <2>1. /\ net # "xrpl" /\ call[c].op = "connect" /\ ~overlapped /\ UNCHANGED <<net, helper>>
          /\ \/ /\ client' = k /\ socket' = [socket EXCEPT ![k] = "open"]
                /\ UNCHANGED <<connected, call>>
             \/ /\ socket' = [socket EXCEPT ![k] = "closed"] /\ connected' = FALSE
                /\ call' = [call EXCEPT ![c] = Idle] /\ UNCHANGED client
        BY <1>2 DEF LaceEnabled, MidnightClientMade, Lace, Midnight, Ends
    <2>2. k \in Clients /\ OtherLink /\ OneLink /\ (connected => client # 0)
        BY <1>0, <2>1 DEF LinkInv
    <2>3. \A d \in Callers : /\ Linked(d)' => d = c
                             /\ call'[d].op = "connect" => d = c
        BY <1>0, <2>1, <2>2 DEF OneLink, Linked, Idle
    <2>4. call'[c].op = "connect" => client' = k /\ call'[c].client = k
        BY <1>0, <2>1 DEF Idle
    <2> HIDE DEF k
    <2>5. /\ connected' => client' # 0
          /\ connected' => helper'
        BY <1>0, <2>1, <2>2 DEF OtherLink
    <2> QED
        BY <2>1, <2>3, <2>4, <2>5 DEF OneLink, OtherLink
<1>3. CASE LaceConnectReturns(c) \/ MidnightConnectReturns(c)
    <2> DEFINE k == call[c].client
    <2>1. /\ net # "xrpl" /\ call[c].op = "connect" /\ ~overlapped /\ UNCHANGED <<net, client>>
          /\ socket[k] = "open" /\ call' = [call EXCEPT ![c] = Idle]
          /\ (connected' = TRUE /\ helper' = TRUE) \/ connected' = FALSE
        BY <1>3 DEF LaceConnectReturns, MidnightConnectReturns, Lace, Midnight, Ends
    <2>2. k \in Clients /\ client = k /\ OneLink
        BY <1>0, <2>1 DEF LinkInv, OtherLink
    <2>3. \A d \in Callers : ~Linked(d)' /\ call'[d].op # "connect"
        BY <1>0, <2>1, <2>2 DEF OneLink, Linked, Idle
    <2> QED
        BY <1>0, <2>1, <2>2, <2>3 DEF OneLink, OtherLink
<1>4. CASE LaceDisconnect(c) \/ MidnightDisconnect(c)
    <2>1. /\ net # "xrpl" /\ NoteOverlap(c) /\ call[c] = Idle /\ UNCHANGED <<net, socket, call>>
          /\ connected' = FALSE
        BY <1>4 DEF LaceDisconnect, MidnightDisconnect, Lace, Midnight
    <2>2. \A d \in Callers : ~Linked(d)
        BY <2>1, Alone
    <2> QED
        BY <2>1, <2>2 DEF OneLink, OtherLink, Linked
<1> QED
    BY <1>1, <1>2, <1>3, <1>4

\* A begun or ended call that is none of the connection leaves the links alone.
LEMMA CallsOff ==
    ASSUME Typed, NEW c \in Callers, ~Linked(c),
           UNCHANGED <<net, connected, client, socket, helper, overlapped>>,
           \/ UNCHANGED call
           \/ \E v : v.op \notin {"connect", "disconnect"} /\ call' = [call EXCEPT ![c] = v]
    PROVE  Unlinked
<1>1. \A d \in Callers : \/ call'[d] = call[d]
                         \/ d = c /\ call'[d].op \notin {"connect", "disconnect"}
    BY DEF Typed, CallsTyped
<1> QED
    BY <1>1 DEF Unlinked, Linked

LEMMA OffTheLink ==
    ASSUME Typed, NEW c \in Callers, NEW p, NEW h, NEW proof, NEW onChain,
           \/ XrplCreatePayment(c, p, h) \/ XrplPrepare(c, p) \/ XrplPrepareReturns(c)
           \/ XrplSubmit(c, h) \/ XrplSubmitReturns(c) \/ XrplStatus(c, h)
           \/ XrplStatusReturns(c) \/ XrplVerify(c, p, proof, onChain) \/ XrplVerifyReturns(c)
           \/ LaceCreatePayment(c, p, h) \/ LaceSubmit(c, h) \/ LaceSubmitReturns(c)
           \/ LaceVerify(c, p, proof) \/ LaceStatus(c, h)
           \/ MidnightCreatePayment(c, p, h) \/ MidnightSubmit(c, h) \/ MidnightStatus(c, h)
           \/ MidnightVerify(c, p, proof, onChain) \/ MidnightProofVerified(c)
           \/ MidnightVerifyReturns(c)
    PROVE  Unlinked
<1> DEFINE Off == \/ UNCHANGED call
                  \/ \E v : v.op \notin {"connect", "disconnect"} /\ call' = [call EXCEPT ![c] = v]
           Frame == UNCHANGED <<net, connected, client, socket, helper, overlapped>>
<1>0. /\ Idle.op = "idle" /\ SubmitCall(h).op = "submit" /\ StatusCall(h).op = "status"
      /\ \A q, s : PrepareCall(q, s).op = "prepare"
      /\ \A q, x, s : VerifyCall(q, x, s).op = "verify"
    BY DEF Idle, SubmitCall, StatusCall, PrepareCall, VerifyCall
<1>1. CASE XrplCreatePayment(c, p, h) \/ LaceCreatePayment(c, p, h) \/ MidnightCreatePayment(c, p, h)
    <2>1. Frame /\ UNCHANGED call /\ ~Linked(c)
        BY <1>0, <1>1 DEF XrplCreatePayment, LaceCreatePayment, MidnightCreatePayment, Linked,
           connection
    <2> QED
        BY <2>1, CallsOff
<1>2. CASE XrplPrepare(c, p) \/ XrplSubmit(c, h) \/ LaceSubmit(c, h)
    <2>1. Frame /\ call[c] = Idle /\ Off
        BY <1>0, <1>2 DEF XrplPrepare, XrplSubmit, LaceSubmit, connection, Begins
    <2> QED
        BY <1>0, <2>1, CallsOff DEF Linked
<1>3. CASE XrplPrepareReturns(c) \/ XrplSubmitReturns(c) \/ XrplStatusReturns(c)
           \/ LaceSubmitReturns(c)
    <2>1. Frame /\ call[c].op \in {"prepare", "submit", "status"} /\ call' = [call EXCEPT ![c] = Idle]
        BY <1>3 DEF XrplPrepareReturns, XrplSubmitReturns, XrplStatusReturns, LaceSubmitReturns,
           connection, Ends
    <2> QED
        BY <1>0, <2>1, CallsOff DEF Linked
<1>4. CASE XrplStatus(c, h) \/ LaceStatus(c, h) \/ MidnightStatus(c, h) \/ MidnightSubmit(c, h)
    <2>1. Frame /\ call[c] = Idle /\ Off
        BY <1>0, <1>4 DEF XrplStatus, LaceStatus, MidnightStatus, MidnightSubmit, connection, Begins
    <2> QED
        BY <1>0, <2>1, CallsOff DEF Linked
<1>5. CASE XrplVerify(c, p, proof, onChain) \/ LaceVerify(c, p, proof)
    <2>1. Frame /\ call[c] = Idle /\ Off
        BY <1>0, <1>5 DEF XrplVerify, LaceVerify, connection, Begins
    <2> QED
        BY <1>0, <2>1, CallsOff DEF Linked
<1>6. CASE XrplVerifyReturns(c) \/ MidnightVerifyReturns(c)
    <2>1. Frame /\ call[c].op = "verify" /\ call' = [call EXCEPT ![c] = Idle]
        BY <1>6 DEF XrplVerifyReturns, MidnightVerifyReturns, connection, Ends
    <2> QED
        BY <1>0, <2>1, CallsOff DEF Linked
<1>7. CASE MidnightVerify(c, p, proof, onChain)
    <2>1. Frame /\ call[c] = Idle /\ Off
        BY <1>0, <1>7 DEF MidnightVerify, MidnightAfterProof, connection, Begins, Ends
    <2> QED
        BY <1>0, <2>1, CallsOff DEF Linked
<1>8. CASE MidnightProofVerified(c)
    <2>1. Frame /\ call[c].op = "verify" /\ Off
        BY <1>0, <1>8 DEF MidnightProofVerified, MidnightAfterProof, connection, Ends
    <2> QED
        BY <1>0, <2>1, CallsOff DEF Linked
<1> QED
    BY <1>1, <1>2, <1>3, <1>4, <1>5, <1>6, <1>7, <1>8

LEMMA PrepareOffTheLink ==
    ASSUME Typed, NEW c \in Callers, XrplPrepareGoesOn(c) PROVE Unlinked
<1>1. /\ UNCHANGED <<net, connected, client, socket, helper, overlapped>>
      /\ call[c].op = "prepare" /\ call[c] = PrepareCall(call[c].payment, call[c].step)
      /\ call' = [call EXCEPT ![c].step = "ledger_current"] \/ call' = [call EXCEPT ![c] = Idle]
    BY DEF XrplPrepareGoesOn, Ends, connection, Typed, CallsTyped, CallOK
<1>2. [call[c] EXCEPT !.step = "ledger_current"].op = "prepare" /\ Idle.op = "idle"
    BY <1>1 DEF PrepareCall, Idle
<1>3. CASE call' = [call EXCEPT ![c].step = "ledger_current"]
    <2>1. call' = [call EXCEPT ![c] = [call[c] EXCEPT !.step = "ledger_current"]]
        BY <1>3
    <2> QED
        BY <1>1, <1>2, <2>1, CallsOff DEF Linked
<1>4. CASE call' = [call EXCEPT ![c] = Idle]
    BY <1>1, <1>2, <1>4, CallsOff DEF Linked
<1> QED
    BY <1>1, <1>3, <1>4

LEMMA LinksKept == Typed /\ LinkInv /\ [Next]_vars => LinkInv'
<1> SUFFICES ASSUME Typed, LinkInv, [Next]_vars PROVE LinkInv'
    OBVIOUS
<1>1. ASSUME UNCHANGED <<net, connected, client, socket, helper, overlapped, call>> PROVE LinkInv'
    BY <1>1, UnlinkedKeeps DEF Unlinked, Linked
<1>2. CASE UNCHANGED vars
    BY <1>1, <1>2 DEF vars, connection
<1>3. CASE SocketDrops
    <2>1. PICK k \in Clients : socket[k] = "open" /\ socket' = [socket EXCEPT ![k] = "closed"]
        BY <1>3 DEF SocketDrops
    <2>2. net = "xrpl" /\ UNCHANGED <<net, connected, client, helper, overlapped, call>>
        BY <1>3 DEF SocketDrops
    <2>3. socket \in [Clients -> {"unused", "opening", "open", "closed"}]
        BY DEF Typed, TypeOK
    <2>4. \A j : /\ socket'[j] = "open" /\ j \in Clients => socket[j] = "open"
                 /\ j \in Clients /\ socket[j] = "opening" => socket'[j] = "opening"
        BY <2>1, <2>3
    <2>5. client \in Clients \cup {0} /\ \A c \in Callers : Linked(c) => call[c].client \in Clients
        BY DEF Typed, TypeOK, CallsTyped, CallOK, Linked, Clients
    <2>6. XrplLink => XrplLink'
        BY <2>2, <2>4, <2>5 DEF XrplLink, ClientOpen, Linked
    <2> QED
        BY <2>2, <2>6 DEF LinkInv, OneLink, Linked
<1>4. CASE World
    <2>1. ~SocketDrops => UNCHANGED <<net, connected, client, socket, helper, overlapped, call>>
        BY <1>4 DEF World, Tick, Register, ClearRegistry, PayElsewhere, Validate, Lose,
           RequestPayment, connection
    <2> QED
        BY <1>1, <1>3, <2>1
<1>5. CASE CounterStep
    BY <1>1, <1>5 DEF CounterStep, MerchantCheckout, ShowPaymentQR, ScanPaymentQR, AlterBundle,
       ShowResponseQR, CheckPaymentQR, CheckBundle, session, connection
<1>6. ASSUME NEW c \in Callers, XrplStep(c) PROVE LinkInv'
    <2>1. Verifying(c) => LinkInv'
        BY OffTheLink, UnlinkedKeeps DEF Verifying
    <2>2. Paying(c) => LinkInv'
        BY OffTheLink, PrepareOffTheLink, UnlinkedKeeps DEF Paying
    <2> QED
        BY <1>6, <2>1, <2>2, XrplParts, XrplLinks
<1>7. ASSUME NEW c \in Callers, LaceStep(c) PROVE LinkInv'
    BY <1>7, OffTheLink, OtherLinks, UnlinkedKeeps DEF LaceStep
<1>8. ASSUME NEW c \in Callers, MidnightStep(c) PROVE LinkInv'
    BY <1>8, OffTheLink, OtherLinks, UnlinkedKeeps DEF MidnightStep
<1> QED
    BY <1>2, <1>4, <1>5, <1>6, <1>7, <1>8 DEF Next, Step

\* While no connect or disconnect began during another, a connected adapter has
\* its client, and on the XRP ledger no other socket stays open.
THEOREM SerialConnections == Spec => []SerialConnection
<1>1. Init => LinkInv
    <2> SUFFICES ASSUME Init PROVE OneLink /\ ~connected /\ XrplLink /\ OtherLink
        BY DEF LinkInv
    <2>1. /\ \A c \in Callers : call[c].op = "idle"
          /\ \A k \in Clients : socket[k] = "unused"
          /\ connected = FALSE /\ client = 0
        BY DEF Init, Idle
    <2>2. ~ClientOpen
        BY <2>1 DEF ClientOpen
    <2> QED
        BY <2>1, <2>2 DEF OneLink, XrplLink, OtherLink, Linked
<1>2. LinkInv => SerialConnection
    BY DEF LinkInv, SerialConnection, XrplLink, OtherLink
<1> QED
    BY <1>1, <1>2, InitTyped, StepTyped, LinksKept, PTL DEF Spec
===========================================================================
