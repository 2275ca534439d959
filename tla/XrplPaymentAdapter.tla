------------------------ MODULE XrplPaymentAdapter ------------------------
(***************************************************************************)
(* agility-payments/xrpl/XrplPaymentAdapter.ts: one action per stretch of  *)
(* a method between two awaits.                                            *)
(***************************************************************************)
EXTENDS ChainBridge

Xrpl == net = "xrpl"
ConnectCall(k) == [op |-> "connect", client |-> k]
DisconnectCall(k) == [op |-> "disconnect", client |-> k]
SubmitCall(h) == [op |-> "submit", txHash |-> h]
StatusCall(h) == [op |-> "status", txHash |-> h]
NetworkCall == [op |-> "network"]
VerifyCall(p, proof, step) ==
    [op |-> "verify", step |-> step, payment |-> p, proof |-> proof]
PrepareCall(p, step) == [op |-> "prepare", step |-> step, payment |-> p]

Begins(c, awaited) == call[c] = Idle /\ call' = [call EXCEPT ![c] = awaited]
Ends(c) == call' = [call EXCEPT ![c] = Idle]

NoteOverlap(c) == overlapped' = (overlapped \/ Reconnecting(c))

FreshClients == {k \in Clients : socket[k] = "unused"}

---------------------------------------------------------------------------
(* connect and disconnect *)

\* this.client is replaced before the await; an open one returns at once.
XrplConnect(c) ==
    /\ Xrpl /\ ~(connected /\ ClientOpen)
    /\ \E k \in FreshClients :
          /\ client' = k
          /\ socket' = [socket EXCEPT ![k] = "opening"]
          /\ Begins(c, ConnectCall(k))
    /\ NoteOverlap(c)
    /\ UNCHANGED <<net, clock, registered, connected, helper, request, tx, answers, counter>>

XrplConnectReturns(c) ==
    /\ Xrpl /\ call[c].op = "connect"
    /\ \E opened \in BOOLEAN :
          /\ socket' = [socket EXCEPT ![call[c].client] = IF opened THEN "open" ELSE "closed"]
          /\ connected' = opened
    /\ Ends(c)
    /\ UNCHANGED <<net, clock, registered, client, helper, request, tx, answers, counter, overlapped>>

XrplDisconnect(c) ==
    /\ Xrpl /\ NoteOverlap(c)
    /\ \/ /\ ClientOpen
          /\ Begins(c, DisconnectCall(client))
          /\ UNCHANGED <<connected, client>>
       \/ /\ call[c] = Idle /\ ~ClientOpen
          /\ connected' = FALSE /\ client' = 0
          /\ UNCHANGED call
    /\ UNCHANGED <<net, clock, registered, socket, helper, request, tx, answers, counter>>

XrplDisconnectReturns(c) ==
    /\ Xrpl /\ call[c].op = "disconnect"
    /\ socket' = [socket EXCEPT ![call[c].client] = "closed"]
    /\ connected' = FALSE /\ client' = 0
    /\ Ends(c)
    /\ UNCHANGED <<net, clock, registered, helper, request, tx, answers, counter, overlapped>>

\* The connection breaks: the client knows, this.connected does not.
SocketDrops ==
    /\ Xrpl /\ \E k \in Clients :
          socket[k] = "open" /\ socket' = [socket EXCEPT ![k] = "closed"]
    /\ UNCHANGED <<net, clock, registered, connected, client, helper, request, tx, call, answers,
                   counter, overlapped>>

---------------------------------------------------------------------------
(* Making and submitting a payment *)

XrplCreatePayment(c, p, h) ==
    /\ Xrpl /\ call[c] = Idle /\ p \in Requested /\ tx[h] = NoTx
    /\ RequestValid(request[p]) /\ ClientOpen
    /\ tx' = [tx EXCEPT ![h] = PaymentTx(request[p])]
    /\ UNCHANGED <<net, clock, connection, request, call, answers, counter, overlapped>>

\* Two questions to the ledger, account then ledger index; no check of the request.
XrplPrepare(c, p) ==
    /\ Xrpl /\ p \in Requested /\ ClientOpen
    /\ Begins(c, PrepareCall(p, "account_info"))
    /\ UNCHANGED <<net, clock, connection, request, tx, answers, counter, overlapped>>

XrplPrepareGoesOn(c) ==
    /\ Xrpl /\ call[c].op = "prepare" /\ call[c].step = "account_info"
    /\ \/ ClientOpen /\ call' = [call EXCEPT ![c].step = "ledger_current"]
       \/ Ends(c)                                     \* the request rejects
    /\ UNCHANGED <<net, clock, connection, request, tx, answers, counter, overlapped>>

XrplPrepareReturns(c) ==
    /\ Xrpl /\ call[c].op = "prepare" /\ call[c].step = "ledger_current"
    /\ \/ \E h \in TxHashes :
             tx[h] = NoTx /\ tx' = [tx EXCEPT ![h] = PaymentTx(request[call[c].payment])]
       \/ UNCHANGED tx
    /\ Ends(c)
    /\ UNCHANGED <<net, clock, connection, request, answers, counter, overlapped>>

XrplSubmit(c, h) ==
    /\ Xrpl /\ ClientOpen /\ tx[h].phase \in {"unsigned", "proposed"}
    /\ Begins(c, SubmitCall(h))
    /\ tx' = [tx EXCEPT ![h].phase = "proposed"]
    /\ UNCHANGED <<net, clock, connection, request, answers, counter, overlapped>>

\* submitAndWait answers with the validated result, or throws: the
\* connection fell, the wait was over, or the transaction can no longer enter.
Fault_AppliedWhenFinal(h) == tx[h].phase = "validated"
AppliedTx(h) == tx[h].phase = "validated" /\ tx[h].result = "tesSUCCESS"

XrplSubmitReturns(c) ==
    /\ Xrpl /\ call[c].op = "submit"
    /\ \/ AppliedTx(call[c].txHash) /\ submitted' = submitted \cup {call[c].txHash}
       \/ UNCHANGED submitted
    /\ Ends(c)
    /\ UNCHANGED <<net, clock, connection, request, tx, verdict, reported, counter, overlapped>>

---------------------------------------------------------------------------
(* Verification *)

\* The ledger knows a transaction once it is proposed and until it is lost.
Known(h) == tx[h].phase \in {"proposed", "validated"}

\* Until it is validated a transaction's result is preliminary.
Fault_FinalWhenKnown(h) == Known(h)
Final(h) == tx[h].phase = "validated"

\* Delivered drops become a number, which is compared with the request's text.
DeliveredDiffers(t, r) == t.unit = "drops" /\ dropsToXrp(t.amount) # r.amount

Fault_MemoIgnored(t, p) == FALSE
MemoNamesAnother(t, p) == parseAgilityMemo(t.memo) \ {p} # {}

\* What verifyPayment concludes from the answer to its `tx` request: an amount
\* is compared when drops were delivered, a memo when there is one.
LedgerVerdict(p, h) ==
    IF ~Final(h) THEN Unconfirmed(p, h, "confirming")
    ELSE IF tx[h].result # "tesSUCCESS" THEN Failed(p, h, "transaction failed")
    ELSE IF tx[h].to # request[p].destinationAddress THEN Failed(p, h, "address mismatch")
    ELSE IF DeliveredDiffers(tx[h], request[p]) THEN Failed(p, h, "amount mismatch")
    ELSE IF MemoNamesAnother(tx[h], p) THEN Failed(p, h, "memo mismatch")
    ELSE Confirmed(p, h)

\* The proof is checked against the request before the ledger is asked.
XrplVerify(c, p, proof, onChain) ==
    /\ Xrpl /\ call[c] = Idle /\ p \in Requested
    /\ LET refusal == IF BridgeRefusal(p, proof.txHash) # {} THEN BridgeRefusal(p, proof.txHash)
                      ELSE ValidationRefusal(p, proof)
       IN \/ /\ refusal # {} /\ \E result \in refusal : Answer(result)
             /\ UNCHANGED call
          \/ /\ refusal = {} /\ ~onChain
             /\ Answer(Unconfirmed(p, proof.txHash, "pending"))
             /\ UNCHANGED call
          \/ /\ refusal = {} /\ onChain /\ ~ClientOpen
             /\ Answer(Failed(p, proof.txHash, "disconnected"))
             /\ UNCHANGED call
          \/ /\ refusal = {} /\ onChain /\ ClientOpen
             /\ Begins(c, VerifyCall(p, proof, "tx"))
             /\ UNCHANGED verdict
    /\ UNCHANGED <<net, clock, connection, request, tx, reported, submitted, counter, overlapped>>

\* The answer may come after the request has expired, and for a client given up since.
XrplVerifyReturns(c) ==
    /\ Xrpl /\ call[c].op = "verify"
    /\ LET p == call[c].payment
           h == call[c].proof.txHash
       IN \/ Known(h) /\ Answer(LedgerVerdict(p, h))
          \/ Answer(Failed(p, h, "lookup failed"))
    /\ Ends(c)
    /\ UNCHANGED <<net, clock, connection, request, tx, reported, submitted, counter, overlapped>>

---------------------------------------------------------------------------
(* Questions *)

\* getPaymentStatus and the status field of getTransaction.
XrplStatus(c, h) ==
    /\ Xrpl
    /\ \/ /\ call[c] = Idle /\ ~ClientOpen
          /\ reported' = [reported EXCEPT ![h] = "pending"]
          /\ UNCHANGED call
       \/ ClientOpen /\ Begins(c, StatusCall(h)) /\ UNCHANGED reported
    /\ UNCHANGED <<net, clock, connection, request, tx, verdict, submitted, counter, overlapped>>

LedgerStatus(h) ==
    IF ~Final(h) THEN "confirming"
    ELSE IF tx[h].result = "tesSUCCESS" THEN "confirmed" ELSE "failed"

XrplStatusReturns(c) ==
    /\ Xrpl /\ call[c].op = "status"
    /\ LET h == call[c].txHash
       IN \/ Known(h) /\ reported' = [reported EXCEPT ![h] = LedgerStatus(h)]
          \/ reported' = [reported EXCEPT ![h] = "pending"]
    /\ Ends(c)
    /\ UNCHANGED <<net, clock, connection, request, tx, verdict, submitted, counter, overlapped>>

\* getNetworkStatus, getTransaction and getAccountBalance change nothing: what
\* they answer at the end of their await is a function of the state then.
NetworkStatus(asked) ==
    [connected |-> asked, network |-> net]

XrplTransactionDetails(h) ==
    IF ~Known(h) THEN {}
    ELSE {[txHash |-> h, status |-> IF tx[h].phase = "validated" THEN "confirmed" ELSE "pending",
           to |-> tx[h].to, unit |-> tx[h].unit,
           amount |-> IF tx[h].unit = "drops" THEN dropsToXrp(tx[h].amount)
                      ELSE [micro |-> tx[h].amount, form |-> "padded"],
           memo |-> parseAgilityMemo(tx[h].memo)]}

XrplStep(c) ==
    \/ XrplConnect(c) \/ XrplConnectReturns(c) \/ XrplDisconnect(c) \/ XrplDisconnectReturns(c)
    \/ XrplPrepareGoesOn(c) \/ XrplPrepareReturns(c)
    \/ XrplSubmitReturns(c) \/ XrplVerifyReturns(c) \/ XrplStatusReturns(c)
    \/ \E p \in PaymentIds : XrplPrepare(c, p)
    \/ \E h \in TxHashes : XrplSubmit(c, h) \/ XrplStatus(c, h)
    \/ \E p \in PaymentIds, h \in TxHashes : XrplCreatePayment(c, p, h)
    \/ \E p \in Requested, q \in Requested, h \in TxHashes, onChain \in BOOLEAN :
          XrplVerify(c, p, createPaymentProof(request[q], h, "none"), onChain)
===========================================================================
