---------------------------- MODULE ChainBridge ----------------------------
(***************************************************************************)
(* agility-payments/core/ChainBridge.ts: the state a payment session       *)
(* shares (the registry of adapters, the adapter of the session's network, *)
(* requests, ledger), and the checks every adapter makes.                  *)
(*                                                                         *)
(* An adapter's methods are asynchronous.  A caller is one chain of        *)
(* promises: between two awaits it runs alone, at an await any other       *)
(* caller may run, and it goes on with what it kept in its local variables *)
(* (the record call[c]).                                                   *)
(***************************************************************************)
EXTENDS PaymentTypes

CONSTANTS Callers, MaxClients, Networks,
          Shops,         \* addresses merchants ask to be paid at
          RequestForms   \* the amounts and currencies requests are made for

ASSUME SessionConstants ==
    /\ Networks \subseteq PaymentNetworks /\ Shops \subseteq Addresses /\ MaxClients \in Nat
    /\ RequestForms \subseteq [amount : AmountTexts, currency : Currencies]

VARIABLES
    net,        \* the network of this session
    clock,      \* Date.now(), in steps
    registered, \* the session's adapter is in the registry
    connected,  \* this.connected of the adapter
    client,     \* this.client, walletApi or midnightClient; 0 is null
    socket,     \* what became of each client object
    helper,     \* proofServer (Midnight), walletState.address (Lace)
    request,    \* the requests created so far
    tx,         \* the transactions made so far, by hash
    call,       \* what each caller awaits
    verdict,    \* the last answer of verifyPayment
    reported,   \* last answer of getPaymentStatus for a transaction
    submitted,  \* transactions submitPayment answered success for
    qr,         \* the QR code on the customer's screen
    desk,       \* what the merchant's check said of that code
    overlapped  \* history: connect or disconnect began while another was under way

connection == <<registered, connected, client, socket, helper>>
answers == <<verdict, reported, submitted>>
counter == <<qr, desk>>

Clients == 1 .. MaxClients
NoRequest == [network |-> "none"]
NoVerdict == [valid |-> FALSE, confirmed |-> FALSE, why |-> "not asked"]
Idle == [op |-> "idle"]

Requested == {p \in PaymentIds : request[p] # NoRequest}
Reconnecting(c) == \E d \in Callers \ {c} : call[d].op \in {"connect", "disconnect"}
ClientOpen == client # 0 /\ socket[client] = "open"

---------------------------------------------------------------------------
(* Requests and proofs *)

createPaymentRequest(p, amount, currency, to, kyc) ==
    [paymentId |-> p, amount |-> amount, currency |-> currency, network |-> net,
     destinationAddress |-> to, expiresAt |-> clock + DefaultExpiry, requiredKyc |-> kyc]

\* The proof says what the request said, not what the transaction did.
createPaymentProof(r, h, zk) ==
    [paymentId |-> r.paymentId, txHash |-> h, network |-> r.network, amount |-> r.amount,
     currency |-> r.currency, toAddress |-> r.destinationAddress, zkProof |-> zk]

RequestPayment(p) ==
    /\ p \notin Requested
    /\ \E form \in RequestForms, to \in Shops :
          request' = [request EXCEPT ![p] =
              createPaymentRequest(p, form.amount, form.currency, to, {})]
    /\ UNCHANGED <<net, clock, connection, tx, call, answers, counter, overlapped>>

---------------------------------------------------------------------------
(* Checks of the base class *)

RequestValid(r) == r.amount.micro > 0 /\ clock <= r.expiresAt

ProofChecks(r, proof) ==
    [amountMatch  |-> proof.amount = r.amount,
     addressMatch |-> proof.toAddress = r.destinationAddress,
     networkMatch |-> proof.network = r.network,
     notExpired   |-> clock <= r.expiresAt]

ProofValid(r, proof) == \A check \in DOMAIN ProofChecks(r, proof) : ProofChecks(r, proof)[check]

Failed(p, h, why) == [valid |-> FALSE, confirmed |-> FALSE, status |-> "failed", why |-> why,
                      txHash |-> h, paymentId |-> p]
Unconfirmed(p, h, status) == [valid |-> TRUE, confirmed |-> FALSE, status |-> status,
                              why |-> "none", txHash |-> h, paymentId |-> p]
Confirmed(p, h) == [valid |-> TRUE, confirmed |-> TRUE, status |-> "confirmed", why |-> "none",
                    txHash |-> h, paymentId |-> p]

\* The answers verifyPayment gives before any adapter is asked: {} is none.
BridgeRefusal(p, h) ==
    IF ~registered THEN {Failed(p, h, "unregistered")}
    ELSE IF ~connected THEN {Failed(p, h, "disconnected")} ELSE {}

ValidationRefusal(p, proof) ==
    IF ProofValid(request[p], proof) THEN {}
    ELSE {Failed(p, proof.txHash,
                 IF clock > request[p].expiresAt THEN "expired" ELSE "mismatch")}

Answer(result) == verdict' = result

---------------------------------------------------------------------------
(* The registry *)

Register ==
    /\ ~registered /\ registered' = TRUE
    /\ UNCHANGED <<net, clock, connected, client, socket, helper, request, tx, call, answers,
                   counter, overlapped>>

\* clear() and resetChainBridgeRegistry(): no adapter is disconnected.
ClearRegistry ==
    /\ registered /\ registered' = FALSE
    /\ UNCHANGED <<net, clock, connected, client, socket, helper, request, tx, call, answers,
                   counter, overlapped>>

---------------------------------------------------------------------------
(* The world around the session *)

Tick ==
    /\ clock < MaxTime /\ clock' = clock + 1
    /\ UNCHANGED <<net, connection, request, tx, call, answers, counter, overlapped>>

\* A customer pays with a wallet of his own: no memo, any amount, either unit.
PayElsewhere(h) ==
    /\ net = "xrpl" /\ tx[h] = NoTx
    /\ \E to \in Addresses, unit \in {"drops", "issued"}, amount \in Micros :
          tx' = [tx EXCEPT ![h] = [phase |-> "proposed", result |-> "tesSUCCESS", to |-> to,
                                   unit |-> unit, amount |-> amount, memo |-> NoMemo]]
    /\ UNCHANGED <<net, clock, connection, request, call, answers, counter, overlapped>>

\* The ledger closes: the preliminary result becomes final, or another one does.
Validate(h) ==
    /\ tx[h].phase = "proposed"
    /\ \E result \in {"tesSUCCESS", "tecFAILED"} :
          tx' = [tx EXCEPT ![h].phase = "validated", ![h].result = result]
    /\ UNCHANGED <<net, clock, connection, request, call, answers, counter, overlapped>>

\* The last ledger a transaction may enter has passed.
Lose(h) ==
    /\ tx[h].phase = "proposed"
    /\ tx' = [tx EXCEPT ![h].phase = "lost"]
    /\ UNCHANGED <<net, clock, connection, request, call, answers, counter, overlapped>>
===========================================================================
