------------------------------ MODULE Devices ------------------------------
(***************************************************************************)
(* The ends of the protocol that face something outside it: the Xaman      *)
(* wallet, the NFC reader of a phone or of a browser, and the clients of   *)
(* the example verifier server. A behaviour is about one of them.          *)
(***************************************************************************)
EXTENDS XamanSigner, VerifierServer, ReactNativeAdapter, WebNFCAdapter

VARIABLE device

Devices == {"wallet", "server", "native", "web"}
vars == <<device, xamanVars, serverVars, readerVars, nativeVars, webVars>>

Init ==
    /\ device \in Devices
    /\ XamanInit /\ ServerInit /\ ReaderInit /\ NativeInit /\ WebInit
    /\ available \in (IF device = "web" THEN BOOLEAN ELSE {FALSE})

WalletNext ==
    /\ device = "wallet"
    /\ \E k \in Consents : XamanStep(k)
    /\ UNCHANGED <<device, serverVars, readerVars, nativeVars, webVars>>

ServerNext ==
    /\ device = "server"
    /\ ServerStep
    /\ UNCHANGED <<device, xamanVars, readerVars, nativeVars, webVars>>

NativeNext ==
    /\ device = "native"
    /\ NativeStep
    /\ UNCHANGED <<device, xamanVars, serverVars, webVars>>

WebNext ==
    /\ device = "web"
    /\ WebStep
    /\ UNCHANGED <<device, xamanVars, serverVars, nativeVars>>

Next == WalletNext \/ ServerNext \/ NativeNext \/ WebNext

Fairness == \A k \in Consents : XamanFairness(k)
Spec == Init /\ [][Next]_vars /\ Fairness

-----------------------------------------------------------------------------
(* Properties *)

\* The states of the four devices are of their kinds; after a writeTag that
\* succeeded the NDEF technology is not held: it is held between asking for it
\* and giving it up, and after a writeTag that failed to give it up.
TypeOK ==
    /\ device \in Devices
    /\ signing \in [Consents -> [at : {"idle", "returned", "thrown"} \cup Pending,
                                 answer : PayloadStates,
                                 why : {"none", "refused", "request failed", "timed out"}]]
    /\ payload \in [Consents -> PayloadStates]
    /\ late \subseteq Consents /\ told \subseteq Consents
    /\ activeRequests \subseteq made /\ made \subseteq Requests /\ expired \subseteq made
    /\ replayKeys \subseteq Provers \X made /\ replayFile \subseteq Provers \X made
    /\ verified \in [Requests -> Nat]
    /\ state \in NFCState
    /\ start \in [Sessions -> [at : {"new", "checking", "scanning", "returned", "thrown"},
                               timeout : BOOLEAN, keepAlive : BOOLEAN]]
    /\ timer \in [Sessions -> {None, "pending", "fired"}]
    /\ listener \in Sessions \cup {None} /\ current \in Sessions \cup {None}
    /\ {available, listening, disordered, initialized, registered, technology} \subseteq BOOLEAN
    /\ report \in Reports /\ Stops \in 0 .. MaxStops
    /\ writing \in {"idle", "initializing", "requesting", "writing", "tag", "cancelling", "giving up"}
    /\ written \in {None, "success", "failed"}
    /\ technology => written = "failed" \/ writing \in {"writing", "tag", "cancelling", "giving up"}
    /\ scan \in [Sessions -> {None, "asked", "live", "ended"}]

\* What signConsent answers is what the wallet did: a bundle is returned only
\* for a payload that was signed, and a refusal is thrown only for one that
\* never will be. A decision that reached the signer with its resolved_at is
\* what the signing ends with, in time or not; it times out only after its
\* deadline, and then no such answer had arrived, although the user may have
\* signed: late, or with every answer showing signed and no resolved_at.
\* (XamanSigner.signConsent, waitForSignature and getPayloadResult.)
AnswerMatchesWallet ==
    \A k \in Consents :
        /\ At(k, "returned") => payload[k] = "signed"
        /\ signing[k].why = "refused" => payload[k] \in {"rejected", "expired"}
        /\ k \in told => At(k, "returned") \/ signing[k].why = "refused"
        /\ signing[k].why = "timed out" => k \in late \ told

\* Whatever the user does or does not do, signConsent returns or throws.
\* (The deadline of waitForSignature.)
SigningAnswered ==
    \A k \in Consents : At(k, "creating") ~> (At(k, "returned") \/ At(k, "thrown"))

\* A request of the verifier server is satisfied by one proof of one prover,
\* however often it is asked, whatever expires, and across restarts that lose
\* the requests, or the replay keys too.
\* (server.js POST /verify, with ProofProtocol.verify and ReplayStore.)
RequestAcceptedOnce == \A r \in Requests : verified[r] <= 1

\* When no start or stop of a reader is under way, the adapter says that it is
\* reading exactly when the platform delivers tags to it; unless a start
\* overlapped another start or, on a phone, a stop, or NfcManager failed to
\* unregister, or, in a browser, a timer has aborted a scan: that leaves
\* isReading set with nothing reading.
\* (startReading and stopReading of ReactNativeNFCAdapter and WebNFCAdapter.)
ReaderInStep ==
    (StartsInFlight = {} /\ Stops = 0 /\ ~disordered) =>
        /\ device = "native" => (state.isReading <=> registered)
        /\ device = "web" => (state.isReading <=> Live # {})
=============================================================================
