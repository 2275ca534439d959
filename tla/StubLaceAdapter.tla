--------------------------- MODULE StubLaceAdapter ---------------------------
(***************************************************************************)
(* The Lace wallet of the command line: the stub, whose connection lasts   *)
(* as long as the process. Addresses and signatures are made up.           *)
(***************************************************************************)
EXTENDS DeckStore

StubAddresses == <<"addr_test1qz", "addr_test1qp">>

Connected(r) == Holds(r, "lace")

\* init(): `lace status` and `lace capabilities` do nothing more.
LaceInit(p) ==
    /\ At(p, "laceInit")
    /\ Continue(p, proc[p])
    /\ UNCHANGED deckVars

\* connect(), which always succeeds.
LaceConnect(p) ==
    /\ At(p, "laceConnect")
    /\ Continue(p, Keep(proc[p], "lace", [type |-> "lace", addresses |-> StubAddresses]))
    /\ UNCHANGED deckVars

\* getAddresses() of a wallet that is not connected is empty.
LaceAddresses(p) ==
    /\ At(p, "laceAddresses")
    /\ Continue(p, proc[p])
    /\ printed' = printed \cup
         {[type |-> "addresses",
           addresses |-> IF Connected(proc[p]) THEN proc[p].doc["lace"].addresses ELSE <<>>]}
    /\ UNCHANGED <<accepted, switched, credentialVars>>

\* signData() throws when the wallet is not connected; its signature is a hash
\* of the payload with a prefix.
LaceSign(p) ==
    /\ At(p, "laceSign")
    /\ IF Connected(proc[p])
       THEN /\ Continue(p, proc[p])
            /\ printed' = printed \cup
                 {[type |-> "signature", key |-> proc[p].doc["lace"].addresses[1]]}
       ELSE Exit(p) /\ UNCHANGED printed
    /\ UNCHANGED <<accepted, switched, credentialVars>>
=============================================================================
