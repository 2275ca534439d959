--------------------------- MODULE PaymentTypes ---------------------------
(***************************************************************************)
(* The data of agility-payments: requests, proofs of payment, results of a *)
(* verification, bundles, transactions, and the conversions between the    *)
(* text of an amount and the ledger's units.                               *)
(*                                                                         *)
(* An amount is a text in the code.  Here it is the number of ledger units *)
(* it stands for and the way it is written: "shortest" is what             *)
(* Number.toString prints ("10"), "padded" any other writing of the same   *)
(* number ("10.00").  A JavaScript number is a record of the same shape    *)
(* whose form is "number", so that no text is equal to it, as with !==.    *)
(***************************************************************************)
EXTENDS Integers, FiniteSets

CONSTANTS PaymentIds,   \* uuids of the payment requests
          TxHashes,     \* hashes a transaction may get
          Addresses,    \* destination addresses
          Micros,       \* amounts, in millionths of the currency's unit
          LossyMicros,  \* amounts whose text times 1e6 is, as a double, below the integer
          TwoDecimals,  \* amounts whose shortest text has exactly two decimals
          Permissions,  \* KYC permissions
          DefaultExpiry, \* fifteen minutes, in steps of the clock
          MaxTime       \* bound of the clock

ASSUME PaymentConstants ==
    /\ Micros \subseteq Nat \ {0} /\ LossyMicros \subseteq Micros
    /\ TwoDecimals \subseteq Micros /\ MaxTime \in Nat /\ DefaultExpiry \in Nat

PaymentNetworks == {"xrpl", "midnight", "cardano"}
PaymentStatuses == {"pending", "confirming", "confirmed", "failed", "expired", "cancelled"}
Currencies == {"native", "issued"}   \* XRP, DUST, ADA; or a token of an issuer
Times == 0 .. MaxTime

AmountTexts == [micro : Nat, form : {"shortest", "padded"}]

PaymentRequests ==
    [paymentId : PaymentIds, amount : AmountTexts, currency : Currencies,
     network : PaymentNetworks, destinationAddress : Addresses,
     expiresAt : 0 .. MaxTime + DefaultExpiry, requiredKyc : SUBSET Permissions]

PaymentProofs ==
    [paymentId : PaymentIds, txHash : TxHashes, network : PaymentNetworks,
     amount : AmountTexts, currency : Currencies, toAddress : Addresses,
     zkProof : {"none", "proof", "garbled"}]

\* What verifyPayment answers; `why` stands for its list of errors.
Reasons == {"none", "mismatch", "expired", "unregistered", "disconnected",
            "lookup failed", "zk failed", "transaction failed", "address mismatch",
            "amount mismatch", "memo mismatch"}
PaymentVerificationResults ==
    [valid : BOOLEAN, confirmed : BOOLEAN, status : PaymentStatuses, why : Reasons,
     txHash : TxHashes, paymentId : PaymentIds]

\* A bundle; its hash is the very data that was hashed.
KycPaymentBundles ==
    [payment : PaymentProofs, permissions : SUBSET Permissions,
     bundleHash : [by : {"sha256", "simpleHash"}, payment : PaymentProofs,
                   permissions : SUBSET Permissions]]

MerchantVerificationResults ==
    [valid : BOOLEAN, paymentConfirmed : BOOLEAN, kycVerified : BOOLEAN]

SubmitResults == [success : BOOLEAN, txHash : TxHashes]

---------------------------------------------------------------------------
(* Conversions *)

\* From the package xrpl: exact, and back as a number, not a text.
xrpToDrops(text) == text.micro
dropsToXrp(drops) == [micro |-> drops, form |-> "number"]

\* Lace: the floor of a product of doubles.
adaToLovelace(text) ==
    IF text.micro \in LossyMicros THEN text.micro - 1 ELSE text.micro

\* total.toFixed(2) of the merchant's checkout.
FixedTwo(micro) ==
    [micro |-> micro, form |-> IF micro \in TwoDecimals THEN "shortest" ELSE "padded"]

isValidCardanoAddress(address, cardanoAddresses) == address \in cardanoAddresses

---------------------------------------------------------------------------
(* Transactions.  A transaction has a memo of Agility, naming a payment, or *)
(* none that parseAgilityMemo finds.                                        *)

NoMemo == [type |-> "none"]
AgilityMemos == [type : {"agility_payment"}, paymentId : PaymentIds]
createAgilityMemo(paymentId) == [type |-> "agility_payment", paymentId |-> paymentId]
parseAgilityMemo(memo) == IF memo.type = "agility_payment" THEN {memo.paymentId} ELSE {}

Transactions ==
    [phase  : {"unsigned", "proposed", "validated", "lost"},
     result : {"tesSUCCESS", "tecFAILED"}, to : Addresses, unit : {"drops", "issued"},
     amount : Nat, memo : AgilityMemos \cup {NoMemo}]
NoTx == [phase |-> "none"]

\* What a payment asks the ledger for: Midnight and issued currencies take
\* the text of the request itself.
AmountAsked(request) ==
    IF request.network = "cardano" THEN adaToLovelace(request.amount)
    ELSE IF request.network = "xrpl" /\ request.currency = "native" THEN xrpToDrops(request.amount)
    ELSE request.amount.micro

PaymentTx(request) ==
    [phase |-> "unsigned", result |-> "tesSUCCESS", to |-> request.destinationAddress,
     unit |-> IF request.currency = "native" THEN "drops" ELSE "issued",
     amount |-> AmountAsked(request),
     memo |-> createAgilityMemo(request.paymentId)]
===========================================================================
