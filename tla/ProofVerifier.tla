---------------------------- MODULE ProofVerifier ----------------------------
(***************************************************************************)
(* ProofProtocol.verify and verifyCredentialProof: the checks of a proof   *)
(* against its request, and the replay store that must let a request be    *)
(* answered once.  Times are those of the code, in milliseconds, and so    *)
(* are its constants.                                                      *)
(***************************************************************************)
EXTENDS ReplayStore

CONSTANTS
    Ttls,      \* the ttlSeconds that requesters ask for
    Offsets    \* how far, in ms, the clocks of requesters and provers are off

ASSUME TtlsAssumption == Ttls \subseteq Nat \ {0}
ASSUME OffsetsAssumption == Offsets \subseteq Int

VARIABLES
    requests,   \* the requests that exist
    window,     \* window[r]: issuedAt and expiresAt of a request
    proofs,     \* proofs[r]: issuedAt of the proof made for it
    accepted    \* history: accepted[p][r], when p last accepted a proof for r

vars == <<now, cache, file, forgot, writer, requests, window, proofs, accepted>>

MAX_CLOCK_SKEW_SECONDS == 120
MAX_PROOF_AGE_SECONDS  == 600
MIN_TTL_SECONDS        == 300

Never == -1

(* What a presented pair of request and proof may have against it, besides *)
(* its times: "binding" for a schema that is not valid or a hash that does *)
(* not match, "content" for any of the checks of audience, nonce, request  *)
(* id, permissions and grant.                                              *)
Defect == {"none", "binding", "content"}

Init ==
    /\ now \in Instants
    /\ StoreInit
    /\ requests = {}
    /\ window = [r \in Req |-> [issued |-> 0, expires |-> 0]]
    /\ proofs = [r \in Req |-> Never]
    /\ accepted = [p \in Proc |-> [r \in Req |-> Never]]

Tick(t) ==
    /\ t > now
    /\ now' = t
    /\ UNCHANGED <<storeVars, requests, window, proofs, accepted>>

(* createRequest, by the clock of the requester.                           *)
CreateRequest(r, ttl, off) ==
    /\ r \notin requests
    /\ now + off >= 0
    /\ requests' = requests \cup {r}
    /\ window' = [window EXCEPT ![r] = [issued  |-> now + off,
                                        expires |-> now + off + ttl * 1000]]
    /\ UNCHANGED <<now, storeVars, proofs, accepted>>

(* createProof, by the clock of the prover; the proof expires with the     *)
(* request.                                                                *)
CreateProof(r, off) ==
    /\ r \in requests
    /\ proofs[r] = Never
    /\ now + off >= 0
    /\ proofs' = [proofs EXCEPT ![r] = now + off]
    /\ UNCHANGED <<now, storeVars, requests, window, accepted>>

-----------------------------------------------------------------------------

(* validateTimeRange, in whole seconds.                                    *)
ValidTimeRange(issued, expires) ==
    /\ Sec(issued) < Sec(expires)
    /\ Sec(issued) <= Sec(now) + MAX_CLOCK_SKEW_SECONDS
    /\ Sec(expires) >= Sec(now) - MAX_CLOCK_SKEW_SECONDS
    /\ Sec(now) - Sec(issued) <= MAX_PROOF_AGE_SECONDS

(* The errors that verify() collects before it asks the replay store.  The *)
(* last conjunct is the expiry check kept for compatibility, in            *)
(* milliseconds and without tolerance.                                     *)
NoErrors(r, defect) ==
    /\ defect = "none"
    /\ ValidTimeRange(window[r].issued, window[r].expires)
    /\ ValidTimeRange(proofs[r], window[r].expires)
    /\ now <= window[r].expires

\* Fault: the entry lives exactly as long as the request has left.
TtlExact(r) == Sec(window[r].expires - now)

Ttl(r) == Later(MIN_TTL_SECONDS, Sec(window[r].expires - now))

Accept(p, r) ==
    accepted' = [accepted EXCEPT ![p][r] = now]

\* Presented: a request with the proof made for it.
Presented(r) == r \in requests /\ proofs[r] # Never

(* verify() when it finds nothing against the pair.                        *)
VerifyAccept(p, r) ==
    /\ Presented(r)
    /\ NoErrors(r, "none")
    /\ ~Has(p, r)
    /\ Add(p, r, Ttl(r))
    /\ Accept(p, r)
    /\ UNCHANGED <<now, requests, window, proofs>>

(* verifyCredentialProof() when verify() finds nothing, and has spent the  *)
(* request by then, but the credential is expired, is not the one that the *)
(* proof is bound to, or does not claim what is required: it rejects.  A   *)
(* sound credential makes it VerifyAccept, and an error of verify() makes  *)
(* it VerifyReject.                                                        *)
VerifyCredentialProof(p, r) ==
    /\ Presented(r)
    /\ NoErrors(r, "none")
    /\ ~Has(p, r)
    /\ Add(p, r, Ttl(r))
    /\ UNCHANGED <<now, requests, window, proofs, accepted>>

(* verify() when it rejects: a pair whose binding holds reaches has(),     *)
(* which may drop a lapsed entry; whatever the store answers, errors or a  *)
(* replay make the result invalid.                                         *)
VerifyReject(p, r, defect) ==
    /\ Presented(r)
    /\ Has(p, r) \/ ~NoErrors(r, defect)
    /\ cache' = [cache EXCEPT ![p] =
           IF defect = "binding" THEN @ ELSE Looked(p, r)]
    /\ UNCHANGED <<now, file, forgot, writer, requests, window, proofs, accepted>>

Next ==
    \/ \E t \in Instants : Tick(t)
    \/ \E r \in Req, ttl \in Ttls, off \in Offsets : CreateRequest(r, ttl, off)
    \/ \E r \in Req, off \in Offsets : CreateProof(r, off)
    \/ \E p \in Proc, r \in Req : VerifyAccept(p, r) \/ VerifyCredentialProof(p, r)
    \/ \E p \in Proc, r \in Req, defect \in Defect : VerifyReject(p, r, defect)
    \/ \E p \in Proc :
          /\ Cleanup(p) \/ Clear(p) \/ Restart(p) \/ CrashInSave(p)
          /\ UNCHANGED <<now, requests, window, proofs, accepted>>

Spec == Init /\ [][Next]_vars

(* setInterval runs cleanup() every five minutes in a process that lives.  *)
FairSpec == Spec /\ \A p \in Proc :
    WF_vars(Cleanup(p) /\ UNCHANGED <<now, requests, window, proofs, accepted>>)

-----------------------------------------------------------------------------
(* Properties *)

TypeOK ==
    /\ now \in Instants
    /\ cache \in [Proc -> Entries]
    /\ file \in Entries
    /\ forgot \in [Proc -> SUBSET Req]
    /\ writer \in Proc \cup {NoProc}
    /\ requests \subseteq Req
    /\ window \in [Req -> [issued : Nat, expires : Nat]]
    /\ proofs \in [Req -> {Never} \cup Nat]
    /\ accepted \in [Proc -> [Req -> {Never} \cup Nat]]

AcceptsAgain(p, r) == accepted[p][r] # Never /\ VerifyAccept(p, r)

(* A process accepts again what it has accepted only when its entry was    *)
(* lost since (to a crash, to another process that wrote the file, to a    *)
(* restart after a write that failed or in the entry's last second, or to  *)
(* clear()), or else in the very second in which the request expires, and  *)
(* then only if more than the minimal 300 s were left the last time.       *)
ReplayExplained ==
    [][\A p \in Proc, r \in Req : AcceptsAgain(p, r) =>
          \/ r \in forgot[p]
          \/ /\ Sec(now) = Sec(window[r].expires)
             /\ window[r].expires - accepted[p][r] > MIN_TTL_SECONDS * 1000]_vars

(* What has not lapsed in the map of the process that wrote the file last  *)
(* is on the file: has() drops without saving and cleanup() saves without  *)
(* adding, yet such a process loses nothing to a restart but entries in    *)
(* their last second.                                                      *)
WriteThrough ==
    \A p \in Proc : writer = p =>
        \A k \in Req : Has(p, k) => file[k] = cache[p][k]

(* "A valid proof cannot be replayed to the same verifier."                *)
AcceptedOnce == [][\A p \in Proc, r \in Req : ~AcceptsAgain(p, r)]_vars

(* "Only add to replay store if verification passes": a key in a map is of *)
(* a request that some verifier accepted.                                  *)
OnlyAcceptedKept ==
    \A p \in Proc, r \in Req :
        cache[p][r] # NoEntry => \E q \in Proc : accepted[q][r] # Never

(* A lapsed entry does not stay in the map.                                *)
LapsedDropped ==
    \A p \in Proc, r \in Req :
        (cache[p][r] # NoEntry /\ cache[p][r] < Sec(now))
            ~> (cache[p][r] = NoEntry \/ cache[p][r] >= Sec(now))

=============================================================================
