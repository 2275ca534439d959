---------------------- MODULE MidnightPaymentAdapter ----------------------
(***************************************************************************)
(* agility-payments/midnight/MidnightPaymentAdapter.ts.  With the Midnight *)
(* packages or without, the client's answers come from createStubClient    *)
(* and the proof server's from createStubProofServer: every transaction is *)
(* confirmed, every proof is valid.  `client` is midnightClient, `helper`  *)
(* says that proofServer is set.                                           *)
(***************************************************************************)
EXTENDS LacePaymentAdapter

Midnight == net = "midnight"

---------------------------------------------------------------------------
(* The stubs *)

Fault_StubStatusRaw(h) == "submitted"
StubTransactionStatus(h) == "confirmed"
StubProofValid(proof) == TRUE

ZkCircuits == {"payment", "age_verification", "kyc"}
MidnightZkProofs == [circuitId : ZkCircuits, publicInputs : SUBSET (PaymentIds \cup Permissions)]

\* generatePaymentProof and generateKycProof, with a proof server; the amount
\* of the transaction is a public input the stub does not look at.
generatePaymentProof(r) == [circuitId |-> "payment", publicInputs |-> {r.paymentId}]
generateKycProof(permissions, agePermissions) ==
    [circuitId |-> IF permissions \cap agePermissions # {} THEN "age_verification" ELSE "kyc",
     publicInputs |-> permissions]
createKycPaymentProof(r, permissions, agePermissions) ==
    [payment |-> generatePaymentProof(r), kyc |-> generateKycProof(permissions, agePermissions),
     paymentId |-> r.paymentId]

---------------------------------------------------------------------------
(* connect: the client first, then the proof server *)

MidnightConnect(c) ==
    /\ Midnight /\ ~connected
    /\ \E k \in FreshClients :
          /\ socket' = [socket EXCEPT ![k] = "opening"]
          /\ Begins(c, ConnectCall(k))
    /\ NoteOverlap(c)
    /\ UNCHANGED <<net, clock, registered, connected, client, helper, request, tx, answers, counter>>

MidnightClientMade(c) ==
    /\ Midnight /\ call[c].op = "connect" /\ socket[call[c].client] = "opening"
    /\ client' = call[c].client
    /\ socket' = [socket EXCEPT ![call[c].client] = "open"]
    /\ UNCHANGED <<net, clock, registered, connected, helper, request, tx, call, answers, counter,
                   overlapped>>

MidnightConnectReturns(c) ==
    /\ Midnight /\ call[c].op = "connect" /\ socket[call[c].client] = "open"
    /\ helper' = TRUE /\ connected' = TRUE
    /\ Ends(c)
    /\ UNCHANGED <<net, clock, registered, client, socket, request, tx, answers, counter, overlapped>>

MidnightDisconnect(c) ==
    /\ Midnight /\ call[c] = Idle /\ NoteOverlap(c)
    /\ client' = 0 /\ helper' = FALSE /\ connected' = FALSE
    /\ UNCHANGED <<net, clock, registered, socket, request, tx, call, answers, counter>>

---------------------------------------------------------------------------
(* Payments *)

\* createPayment asks for a connection; preparePaymentWithProof for a proof
\* server, and does not check the request.
MidnightCreatePayment(c, p, h) ==
    /\ Midnight /\ call[c] = Idle /\ p \in Requested /\ tx[h] = NoTx
    /\ \/ RequestValid(request[p]) /\ connected
       \/ helper
    /\ tx' = [tx EXCEPT ![h] = PaymentTx(request[p])]
    /\ UNCHANGED <<net, clock, connection, request, call, answers, counter, overlapped>>

\* submitTransaction of the stub always succeeds, with a hash of its own making.
MidnightSubmit(c, h) ==
    /\ Midnight /\ call[c] = Idle /\ client # 0 /\ tx[h].phase = "unsigned"
    /\ tx' = [tx EXCEPT ![h].phase = "proposed"]
    /\ submitted' = submitted \cup {h}
    /\ UNCHANGED <<net, clock, connection, request, call, verdict, reported, counter, overlapped>>

\* The stub knows every hash and confirms it.
StubVerdict(p, h) ==
    IF StubTransactionStatus(h) = "failed" THEN Failed(p, h, "transaction failed")
    ELSE IF StubTransactionStatus(h) # "confirmed" THEN Unconfirmed(p, h, "confirming")
    ELSE Confirmed(p, h)

\* After the proof: verifyOnChain off, then this.midnightClient read again.
MidnightAfterProof(c, p, h, onChain) ==
    \/ ~onChain /\ Answer(Unconfirmed(p, h, "pending")) /\ Ends(c)
    \/ onChain /\ client = 0 /\ Answer(Failed(p, h, "disconnected")) /\ Ends(c)
    \/ /\ onChain /\ client # 0
       /\ call' = [call EXCEPT ![c] = VerifyCall(p, createPaymentProof(request[p], h, "none"), "tx")]
       /\ UNCHANGED verdict

MidnightVerify(c, p, proof, onChain) ==
    /\ Midnight /\ call[c] = Idle /\ p \in Requested
    /\ LET h == proof.txHash
           refusal == IF BridgeRefusal(p, h) # {} THEN BridgeRefusal(p, h)
                      ELSE ValidationRefusal(p, proof)
       IN \/ refusal # {} /\ (\E result \in refusal : Answer(result)) /\ UNCHANGED call
          \/ /\ refusal = {} /\ proof.zkProof = "garbled" /\ helper
             /\ Answer(Failed(p, h, "zk failed")) /\ UNCHANGED call
          \/ /\ refusal = {} /\ proof.zkProof = "proof" /\ helper
             /\ Begins(c, VerifyCall(p, proof, IF onChain THEN "zk, then tx" ELSE "zk"))
             /\ UNCHANGED verdict
          \/ /\ refusal = {} /\ (proof.zkProof = "none" \/ ~helper)
             /\ MidnightAfterProof(c, p, h, onChain)
    /\ UNCHANGED <<net, clock, connection, request, tx, reported, submitted, counter, overlapped>>

MidnightProofVerified(c) ==
    /\ Midnight /\ call[c].op = "verify" /\ call[c].step # "tx"
    /\ StubProofValid(call[c].proof)
    /\ MidnightAfterProof(c, call[c].payment, call[c].proof.txHash, call[c].step = "zk, then tx")
    /\ UNCHANGED <<net, clock, connection, request, tx, reported, submitted, counter, overlapped>>

MidnightVerifyReturns(c) ==
    /\ Midnight /\ call[c].op = "verify" /\ call[c].step = "tx"
    /\ Answer(StubVerdict(call[c].payment, call[c].proof.txHash))
    /\ Ends(c)
    /\ UNCHANGED <<net, clock, connection, request, tx, reported, submitted, counter, overlapped>>

MidnightStatus(c, h) ==
    /\ Midnight /\ call[c] = Idle
    /\ reported' = [reported EXCEPT ![h] = IF client = 0 THEN "pending" ELSE StubTransactionStatus(h)]
    /\ UNCHANGED <<net, clock, connection, request, tx, call, verdict, submitted, counter, overlapped>>

MidnightNetworkStatus == NetworkStatus(connected /\ client # 0)
MidnightTransactionDetails(h) ==
    IF client = 0 THEN {} ELSE {[txHash |-> h, status |-> StubTransactionStatus(h), to |-> "",
                                 amount |-> "0", confirmations |-> 1]}

MidnightStep(c) ==
    \/ MidnightConnect(c) \/ MidnightClientMade(c) \/ MidnightConnectReturns(c)
    \/ MidnightDisconnect(c) \/ MidnightProofVerified(c) \/ MidnightVerifyReturns(c)
    \/ \E h \in TxHashes : MidnightSubmit(c, h) \/ MidnightStatus(c, h)
    \/ \E p \in PaymentIds, h \in TxHashes : MidnightCreatePayment(c, p, h)
    \/ \E p \in Requested, q \in Requested, h \in TxHashes, onChain \in BOOLEAN,
          zk \in {"none", "proof", "garbled"} :
          MidnightVerify(c, p, createPaymentProof(request[q], h, zk), onChain)
===========================================================================
