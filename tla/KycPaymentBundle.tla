------------------------- MODULE KycPaymentBundle -------------------------
(***************************************************************************)
(* agility-payments/bundle/KycPaymentBundle.ts and                         *)
(* agility-qr/payments/index.ts: the merchant's counter.  A request is     *)
(* shown as a QR code, the customer answers with another, and the merchant *)
(* checks that one, without asking any ledger.                             *)
(***************************************************************************)
EXTENDS MidnightPaymentAdapter

CONSTANTS AgePermissions, RegionPermissions

VARIABLE held     \* the request the customer's application has scanned, as a set

session == <<net, clock, connection, tx, call, answers, overlapped>>

NoQr == [type |-> "none"]
NotChecked == [via |-> "nothing", valid |-> FALSE, kycVerified |-> FALSE]

---------------------------------------------------------------------------
(* Making requests *)

\* createMerchantCheckout: the total with two decimals, what is required of the customer.
createMerchantCheckout(p, micro, to, kyc) ==
    createPaymentRequest(p, FixedTwo(micro), "native", to, kyc)

MerchantCheckout(p) ==
    /\ p \notin Requested
    /\ \E micro \in Micros, to \in Shops, kyc \in SUBSET Permissions :
          request' = [request EXCEPT ![p] = createMerchantCheckout(p, micro, to, kyc)]
    /\ UNCHANGED <<session, counter, held>>

createPaymentQR(p) == [type |-> "request", paymentId |-> p, altered |-> FALSE]

ShowPaymentQR(p) ==
    /\ p \notin Requested
    /\ \E micro \in Micros, form \in {"shortest", "padded"}, to \in Shops,
          kyc \in SUBSET Permissions :
          request' = [request EXCEPT ![p] =
              createPaymentRequest(p, [micro |-> micro, form |-> form], "native", to, kyc)]
    /\ qr' = createPaymentQR(p) /\ desk' = NotChecked
    /\ UNCHANGED <<session, held>>

\* decodePaymentQR throws for another type of code and for an expired request.
ScanPaymentQR ==
    /\ qr.type = "request" /\ clock <= request[qr.paymentId].expiresAt
    /\ held' = {qr.paymentId}
    /\ UNCHANGED <<session, request, counter>>

---------------------------------------------------------------------------
(* Answers of the customer *)

Hash(by, proof, permissions) == [by |-> by, payment |-> proof, permissions |-> permissions]

\* verified is TRUE in every bundle, whatever the KYC proof was.
createKycPaymentBundle(proof, permissions) ==
    [payment |-> proof, permissions |-> permissions,
     bundleHash |-> Hash("sha256", proof, permissions)]

\* createPaymentResponseQR: with permissions a bundle, hashed in another way.
createPaymentResponseQR(proof, permissions) ==
    [type |-> "kyc_payment", altered |-> FALSE,
     bundle |-> [payment |-> proof, permissions |-> permissions,
                 bundleHash |-> Hash("simpleHash", proof, permissions)]]
createPaymentOnlyQR(proof) == [type |-> "payment", altered |-> FALSE, bundle |-> [payment |-> proof]]
encodeBundleToQR(bundle) ==
    [type |-> "kyc_payment_bundle", altered |-> FALSE, bundle |-> bundle]

\* A response needs a hash, not a transaction that has it.
ShowResponseQR(h) ==
    /\ \E p \in held :
          LET proof == createPaymentProof(request[p], h, "none")
          IN \/ qr' = createPaymentOnlyQR(proof)
             \/ \E permissions \in SUBSET Permissions :
                   \/ qr' = createPaymentResponseQR(proof, permissions)
                   \/ qr' = encodeBundleToQR(createKycPaymentBundle(proof, permissions))
    /\ desk' = NotChecked
    /\ UNCHANGED <<session, request, held>>

\* Between making and checking, the bundle's permissions change (a plain object
\* in the application, a payload on its way); the hash does not follow.
AlterBundle ==
    /\ qr.type \in {"kyc_payment", "kyc_payment_bundle"} /\ ~qr.altered
    /\ \E permissions \in (SUBSET Permissions) \ {qr.bundle.permissions} :
          qr' = [qr EXCEPT !.bundle.permissions = permissions, !.altered = TRUE]
    /\ desk' = NotChecked
    /\ UNCHANGED <<session, request, held>>

---------------------------------------------------------------------------
(* The merchant's checks *)

Matches(r, proof) ==
    /\ proof.paymentId = r.paymentId /\ proof.amount = r.amount
    /\ proof.toAddress = r.destinationAddress /\ proof.network = r.network

Fault_HashMatchesPayment(bundle) == bundle.bundleHash.payment = bundle.payment
HashMatches(bundle) == bundle.bundleHash = Hash("sha256", bundle.payment, bundle.permissions)

verifyMerchantBundle(r, bundle) ==
    LET kyc == r.requiredKyc \subseteq bundle.permissions
        ok == Matches(r, bundle.payment) /\ HashMatches(bundle) /\ kyc
    IN [valid |-> ok, paymentConfirmed |-> ok, kycVerified |-> kyc]

\* The hash of a bundle is not looked at; any transaction hash is a confirmation.
verifyPaymentQR(r, code) ==
    IF code.type \notin {"payment", "kyc_payment"}
    THEN [valid |-> FALSE, paymentConfirmed |-> FALSE, kycVerified |-> FALSE]
    ELSE LET kyc == IF code.type = "kyc_payment" THEN r.requiredKyc \subseteq code.bundle.permissions
                    ELSE r.requiredKyc = {}
         IN [valid |-> Matches(r, code.bundle.payment) /\ kyc, paymentConfirmed |-> TRUE,
             kycVerified |-> kyc]

Record(p, via, result) ==
    desk' = [paymentId |-> p, via |-> via, valid |-> result.valid,
             paymentConfirmed |-> result.paymentConfirmed, kycVerified |-> result.kycVerified]

CheckPaymentQR(p) ==
    /\ p \in Requested /\ qr.type # "none"
    /\ Record(p, "response", verifyPaymentQR(request[p], qr))
    /\ UNCHANGED <<session, request, qr, held>>

\* decodeBundleFromQR, or decodePaymentResponseQR for a bundle made as a response.
CheckBundle(p) ==
    /\ p \in Requested /\ qr.type \in {"kyc_payment", "kyc_payment_bundle"}
    /\ Record(p, "bundle", verifyMerchantBundle(request[p], qr.bundle))
    /\ UNCHANGED <<session, request, qr, held>>

\* Split knowledge: what the courier and the shop take from a bundle.
extractCourierInfo(bundle) ==
    IF "shipping_address" \in bundle.permissions
    THEN [valid |-> TRUE, sees |-> {"address", "instructions", "recipient"}]
    ELSE [valid |-> FALSE, sees |-> {}]
extractMerchantInfo(bundle) ==
    IF "order_paid" \in bundle.permissions
    THEN [valid |-> TRUE, sees |-> {"order", "items"}, paymentConfirmed |-> TRUE,
          ageVerified |-> bundle.permissions \cap AgePermissions # {}]
    ELSE [valid |-> FALSE, sees |-> {}, paymentConfirmed |-> FALSE, ageVerified |-> FALSE]

CounterStep ==
    \/ \E p \in PaymentIds : MerchantCheckout(p) \/ ShowPaymentQR(p)
    \/ ScanPaymentQR \/ AlterBundle
    \/ \E h \in TxHashes : ShowResponseQR(h)
    \/ \E p \in PaymentIds : CheckPaymentQR(p) \/ CheckBundle(p)
===========================================================================
