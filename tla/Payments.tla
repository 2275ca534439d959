----------------------------- MODULE Payments -----------------------------
(***************************************************************************)
(* A payment session: the adapter of one network, its registry entry, the  *)
(* ledger behind it, and the merchant's counter.                           *)
(***************************************************************************)
EXTENDS KycPaymentBundle

vars == <<net, clock, connection, request, tx, call, answers, counter, overlapped, held>>

Init ==
    /\ net \in Networks /\ clock = 0
    /\ registered = FALSE /\ connected = FALSE /\ client = 0 /\ helper = FALSE
    /\ socket = [k \in Clients |-> "unused"]
    /\ request = [p \in PaymentIds |-> NoRequest]
    /\ tx = [h \in TxHashes |-> NoTx]
    /\ call = [c \in Callers |-> Idle]
    /\ verdict = NoVerdict
    /\ reported = [h \in TxHashes |-> "none"]
    /\ submitted = {} /\ qr = NoQr /\ overlapped = FALSE /\ held = {}
    /\ desk = NotChecked

World ==
    \/ Tick \/ SocketDrops \/ Register \/ ClearRegistry
    \/ \E h \in TxHashes : PayElsewhere(h) \/ Validate(h) \/ Lose(h)
    \/ \E p \in PaymentIds : RequestPayment(p)

Step(c) == XrplStep(c) \/ LaceStep(c) \/ MidnightStep(c)

Next ==
    \/ (World \/ \E c \in Callers : Step(c)) /\ UNCHANGED held
    \/ CounterStep

Spec == Init /\ [][Next]_vars

---------------------------------------------------------------------------
(* Properties *)

TypeOK ==
    /\ net \in Networks /\ clock \in Times
    /\ registered \in BOOLEAN /\ connected \in BOOLEAN /\ helper \in BOOLEAN
    /\ overlapped \in BOOLEAN
    /\ client \in 0 .. MaxClients
    /\ socket \in [Clients -> {"unused", "opening", "open", "closed"}]
    /\ request \in [PaymentIds -> PaymentRequests \cup {NoRequest}]
    /\ tx \in [TxHashes -> Transactions \cup {NoTx}]
    /\ reported \in [TxHashes -> PaymentStatuses \cup {"none"}]
    /\ verdict \in PaymentVerificationResults \cup {NoVerdict}
    /\ submitted \subseteq TxHashes /\ held \subseteq PaymentIds

Applied(h) == tx[h].phase = "validated" /\ tx[h].result = "tesSUCCESS"   \* the ledger's own view

\* A payment confirmed on the XRP ledger rests on a final transaction that
\* succeeded, went to the request's address and carries no memo that gives it
\* to another payment.  Nothing is said of the amount, for the code compares
\* none of an issued currency, and confirms no delivery of XRP at all: line 312
\* compares a number with a text.
\* (XrplPaymentAdapter.verifyPayment, lines 266-347.)
ConfirmedMeansPaid ==
    (net = "xrpl" /\ verdict.confirmed) =>
        LET t == tx[verdict.txHash]
            r == request[verdict.paymentId]
        IN /\ Applied(verdict.txHash)
           /\ t.to = r.destinationAddress
           /\ t.memo \in {NoMemo, createAgilityMemo(verdict.paymentId)}

\* A final status reported for an XRPL transaction is the ledger's: a status
\* never goes back from confirmed to failed or from failed to confirmed.
\* (XrplPaymentAdapter.getPaymentStatus, lines 199-223.)
ReportedIsFinal ==
    net = "xrpl" => \A h \in TxHashes :
        /\ reported[h] = "confirmed" => Applied(h)
        /\ reported[h] = "failed" => tx[h].phase = "validated" /\ ~Applied(h)

\* submitPayment answers success on the XRP ledger only for what was applied.
\* (XrplPaymentAdapter.submitPayment, lines 173-187.)
SuccessMeansApplied == net = "xrpl" => \A h \in submitted : Applied(h)

\* While no connect or disconnect began during another one, a connected
\* adapter has its client, and on the XRP ledger no other socket stays open.
\* (connect and disconnect of the three adapters.)
SerialConnection ==
    ~overlapped =>
        /\ connected => client # 0
        /\ net # "xrpl" /\ connected => helper
        /\ net = "xrpl" => \A k \in Clients : socket[k] = "open" => k = client

\* What the merchant accepts belongs to the request it is checked against and
\* carries the permissions that request asks for; a bundle checked with its
\* hash is moreover the one that was made.
\* (verifyMerchantBundle, lines 76-117, and verifyPaymentQR, lines 217-260.)
AcceptedAnswersItsRequest ==
    desk.valid =>
        LET code == qr
            kyc == request[desk.paymentId].requiredKyc
        IN /\ code.bundle.payment.paymentId = desk.paymentId
           /\ \/ code.type = "payment" /\ kyc = {}
              \/ code.type # "payment" /\ kyc \subseteq code.bundle.permissions
           /\ desk.via = "bundle" => ~code.altered

\* A confirmation of the XRP ledger is only taken back, for the same
\* transaction, by an answer the ledger had no part in: its caller did not ask
\* for it, the request has expired or the proof was another request's, no
\* adapter is registered or connected, or the lookup failed.
\* (XrplPaymentAdapter.verifyPayment, lines 228-358.)
Terms(p) == <<request[p].amount, request[p].destinationAddress, request[p].network>>

TakenBackFor(p) ==
    \/ verdict'.status = "pending"
    \/ verdict'.why = "expired" /\ clock > request[p].expiresAt
    \/ verdict'.why = "mismatch" /\ \E q \in Requested : Terms(q) # Terms(p)
    \/ verdict'.why = "unregistered" /\ ~registered
    \/ verdict'.why = "disconnected" /\ ~(connected /\ ClientOpen)
    \/ verdict'.why = "lookup failed"

ConfirmationKept ==
    [][(/\ net = "xrpl" /\ verdict.confirmed /\ ~verdict'.confirmed
        /\ verdict'.txHash = verdict.txHash /\ verdict'.paymentId = verdict.paymentId)
          => TakenBackFor(verdict.paymentId)]_vars
===========================================================================
