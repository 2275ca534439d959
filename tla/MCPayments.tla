---------------------------- MODULE MCPayments ----------------------------
(***************************************************************************)
(* Payments for TLC: 4.18, whose product with 1e6 is a double below        *)
(* 4180000, and 10, which a checkout writes 10.00.                         *)
(***************************************************************************)
EXTENDS Payments, TLC

CONSTANTS p1, p2, h1, c1, c2

MCMicros == {4180000, 10000000}
MCLossy == {4180000}
MCTwoDecimals == {4180000}
MCRequestForms ==
    {[amount |-> [micro |-> 10000000, form |-> "shortest"], currency |-> "native"],
     [amount |-> [micro |-> 10000000, form |-> "padded"], currency |-> "native"],
     [amount |-> [micro |-> 4180000, form |-> "shortest"], currency |-> "native"],
     [amount |-> [micro |-> 10000000, form |-> "shortest"], currency |-> "issued"]}
MCPermissions == {"age_over_21", "order_paid"}
Symmetry == Permutations(PaymentIds)

\* A behaviour is about one side of the session: the payments of one caller
\* over one connection and either what verifyPayment or what getPaymentStatus
\* says of them, the connections of two callers at once, or the merchant's
\* counter.  The counter reads nothing an adapter writes; connecting reads no
\* request; the two questions do not read each other's answer.
VARIABLE side
MCInit == /\ Init
          /\ \/ side \in {"verification", "status", "connections"}
             \/ side = "counter" /\ net = "xrpl"

Shared == Tick \/ SocketDrops \/ Register
Ledger == \E h \in TxHashes : PayElsewhere(h) \/ Validate(h) \/ Lose(h)
MCNext ==
    /\ UNCHANGED side
    /\ \/ /\ side = "verification" /\ UNCHANGED <<held, reported>>
          /\ Shared \/ Ledger \/ Step(c1) \/ (\E p \in PaymentIds : RequestPayment(p))
          /\ client' <= 1 /\ call'[c1].op # "prepare"
       \/ /\ side = "status" /\ UNCHANGED <<held, verdict>>
          /\ Shared \/ Ledger \/ Step(c1) \/ RequestPayment(p1)
          /\ client' <= 1
       \/ /\ side = "connections" /\ UNCHANGED held
          /\ SocketDrops \/ Register \/ ClearRegistry \/ (\E c \in Callers : Step(c))
       \/ side = "counter" /\ (CounterStep \/ (Tick /\ UNCHANGED held))
MCSpec == MCInit /\ [][MCNext]_<<vars, side>>
===========================================================================
