------------------------ MODULE LacePaymentAdapter ------------------------
(***************************************************************************)
(* agility-payments/lace/LacePaymentAdapter.ts: payments on Cardano        *)
(* through the Lace extension of the browser.  `client` is walletApi,      *)
(* `helper` the address of walletState; the extension itself is external.  *)
(***************************************************************************)
EXTENDS XrplPaymentAdapter

Lace == net = "cardano"

---------------------------------------------------------------------------
(* connect: enable() first, then network id and addresses *)

LaceConnect(c) ==
    /\ Lace /\ ~(connected /\ client # 0)
    /\ \E k \in FreshClients :
          /\ socket' = [socket EXCEPT ![k] = "opening"]
          /\ Begins(c, ConnectCall(k))
    /\ NoteOverlap(c)
    /\ UNCHANGED <<net, clock, registered, connected, client, helper, request, tx, answers, counter>>

\* enable() answers: walletApi is set before anything is known of the wallet.
LaceEnabled(c) ==
    /\ Lace /\ call[c].op = "connect" /\ socket[call[c].client] = "opening"
    /\ \/ /\ client' = call[c].client
          /\ socket' = [socket EXCEPT ![call[c].client] = "open"]
          /\ UNCHANGED <<connected, call>>
       \/ /\ socket' = [socket EXCEPT ![call[c].client] = "closed"]
          /\ connected' = FALSE /\ Ends(c)
          /\ UNCHANGED client
    /\ UNCHANGED <<net, clock, registered, helper, request, tx, answers, counter, overlapped>>

\* walletState and connected set apart: one of them without the other.
Fault_LaceConnectApart(c) ==
    /\ Lace /\ call[c].op = "connect" /\ socket[call[c].client] = "open"
    /\ connected' = TRUE /\ (helper' = TRUE \/ UNCHANGED helper)
    /\ Ends(c)
    /\ UNCHANGED <<net, clock, registered, client, socket, request, tx, answers, counter, overlapped>>

\* The last answers: all of walletState at once, or none of it and walletApi stays.
LaceConnectReturns(c) ==
    /\ Lace /\ call[c].op = "connect" /\ socket[call[c].client] = "open"
    /\ \/ connected' = TRUE /\ helper' = TRUE
       \/ connected' = FALSE /\ UNCHANGED helper
    /\ Ends(c)
    /\ UNCHANGED <<net, clock, registered, client, socket, request, tx, answers, counter, overlapped>>

LaceDisconnect(c) ==
    /\ Lace /\ call[c] = Idle /\ NoteOverlap(c)
    /\ client' = 0 /\ helper' = FALSE /\ connected' = FALSE
    /\ UNCHANGED <<net, clock, registered, socket, request, tx, call, answers, counter>>

---------------------------------------------------------------------------
(* Payments: nothing here asks whether the adapter is connected *)

LaceCreatePayment(c, p, h) ==
    /\ Lace /\ call[c] = Idle /\ p \in Requested /\ tx[h] = NoTx
    /\ RequestValid(request[p])
    /\ isValidCardanoAddress(request[p].destinationAddress, Addresses)
    /\ tx' = [tx EXCEPT ![h] = PaymentTx(request[p])]
    /\ UNCHANGED <<net, clock, connection, request, call, answers, counter, overlapped>>

\* signPayment, which makes up a hash no transaction will have, then submitPayment.
LaceSubmit(c, h) ==
    /\ Lace /\ client # 0 /\ tx[h].phase = "unsigned"
    /\ Begins(c, SubmitCall(h))
    /\ UNCHANGED <<net, clock, connection, request, tx, answers, counter, overlapped>>

LaceSubmitReturns(c) ==
    /\ Lace /\ call[c].op = "submit"
    /\ \/ /\ tx' = [tx EXCEPT ![call[c].txHash].phase = "proposed"]
          /\ submitted' = submitted \cup {call[c].txHash}
       \/ UNCHANGED <<tx, submitted>>
    /\ Ends(c)
    /\ UNCHANGED <<net, clock, connection, request, verdict, reported, counter, overlapped>>

\* Cardano is never asked: the best answer is "confirming".
LaceVerify(c, p, proof) ==
    /\ Lace /\ call[c] = Idle /\ p \in Requested
    /\ LET refusal == IF BridgeRefusal(p, proof.txHash) # {} THEN BridgeRefusal(p, proof.txHash)
                      ELSE ValidationRefusal(p, proof)
       IN \E result \in (IF refusal # {} THEN refusal
                         ELSE {Unconfirmed(p, proof.txHash, "confirming")}) : Answer(result)
    /\ UNCHANGED <<net, clock, connection, request, tx, call, reported, submitted, counter, overlapped>>

LaceStatus(c, h) ==
    /\ Lace /\ call[c] = Idle
    /\ reported' = [reported EXCEPT ![h] = "confirming"]
    /\ UNCHANGED <<net, clock, connection, request, tx, call, verdict, submitted, counter, overlapped>>

\* signData throws without walletApi or address; it changes nothing.
LaceCanSignData == client # 0 /\ helper
LaceNetworkStatus == NetworkStatus(connected)
LaceTransactionDetails(h) == {}

LaceStep(c) ==
    \/ LaceConnect(c) \/ LaceEnabled(c) \/ LaceConnectReturns(c) \/ LaceDisconnect(c)
    \/ LaceSubmitReturns(c)
    \/ \E h \in TxHashes : LaceSubmit(c, h) \/ LaceStatus(c, h)
    \/ \E p \in PaymentIds, h \in TxHashes : LaceCreatePayment(c, p, h)
    \/ \E p \in Requested, q \in Requested, h \in TxHashes :
          LaceVerify(c, p, createPaymentProof(request[q], h, "none"))
===========================================================================
