--------------------------- MODULE VerifierServer ---------------------------
(***************************************************************************)
(* examples/node-verifier-server/server.js over the SDK's Verifier: the    *)
(* requests it handed out live in its memory, the replay keys of accepted  *)
(* proofs in its memory and in a file. Each handler runs without a real    *)
(* await, and so is one step.                                              *)
(***************************************************************************)
EXTENDS Naturals

CONSTANTS Requests, Provers

VARIABLES
    made,            \* the requests handed out so far
    activeRequests,  \* the map of that name
    expired,         \* the requests whose expiresAt has passed
    replayKeys,      \* the replay store's map: <<prover, request>>
    replayFile,      \* the keys in replay-cache.json
    verified         \* history: how many proofs were accepted for a request

serverVars == <<made, activeRequests, expired, replayKeys, replayFile, verified>>

ServerInit ==
    /\ made = {} /\ activeRequests = {} /\ expired = {}
    /\ replayKeys = {} /\ replayFile = {}
    /\ verified = [r \in Requests |-> 0]

\* What a client posts: a proof made by a prover for a request, with or
\* without all of the required permissions, of this or of another protocol.
Proofs == [by : Provers, for : Requests, complete : BOOLEAN, supported : BOOLEAN]

PostRequest(r) ==
    /\ r \notin made
    /\ made' = made \cup {r}
    /\ activeRequests' = activeRequests \cup {r}
    /\ UNCHANGED <<expired, replayKeys, replayFile, verified>>

\* Verifier.verifyProof: an unsupported protocol is an exception (a 500), the
\* rest is ProofProtocol.verify.
Valid(r, proof) ==
    /\ proof.supported
    /\ proof.for = r /\ proof.complete /\ r \notin expired
    /\ <<proof.by, r>> \notin replayKeys

\* An accepted request is not taken out of the map.
Fault_RequestStays(r, proof) ==
    /\ r \in activeRequests
    /\ Valid(r, proof)
    /\ replayKeys' = replayKeys \cup {<<proof.by, r>>}
    /\ replayFile' = replayKeys'
    /\ verified' = [verified EXCEPT ![r] = @ + 1]
    /\ UNCHANGED <<made, activeRequests, expired>>

\* POST /verify. A request that is not in the map answers 404; an invalid
\* proof leaves the request where it is. The write of the file may fail
\* without a word.
PostVerify(r, proof) ==
    /\ r \in activeRequests
    /\ Valid(r, proof)
    /\ replayKeys' = replayKeys \cup {<<proof.by, r>>}
    /\ replayFile' \in {replayFile, replayKeys'}
    /\ activeRequests' = activeRequests \ {r}
    /\ verified' = [verified EXCEPT ![r] = @ + 1]
    /\ UNCHANGED <<made, expired>>

RequestExpires(r) ==
    /\ r \in made \ expired
    /\ expired' = expired \cup {r}
    /\ UNCHANGED <<made, activeRequests, replayKeys, replayFile, verified>>

\* A client may ask for a request that lives longer than 300 s: its key then
\* lapses in the request's last second already (module ProofVerifier).
KeyLapses(key) ==
    /\ key \in replayKeys
    /\ replayKeys' = replayKeys \ {key}
    /\ UNCHANGED <<made, activeRequests, expired, replayFile, verified>>

\* The process ends and is started again: the map of requests is gone, and the
\* keys are those of the file, or none when a crash left it half written.
Restart ==
    /\ activeRequests' = {}
    /\ replayKeys' \in {replayFile, {}}
    /\ replayFile' = replayKeys'
    /\ UNCHANGED <<made, expired, verified>>

ServerStep ==
    \/ \E r \in Requests : PostRequest(r) \/ RequestExpires(r)
    \/ \E r \in Requests, proof \in Proofs : PostVerify(r, proof)
    \/ \E key \in Provers \X Requests : KeyLapses(key)
    \/ Restart
=============================================================================
