--------------------------- MODULE Devices_proofs ---------------------------
(***************************************************************************)
(* Theorems about the wallet, the verifier server and the NFC readers of   *)
(* Devices, for any number of consents, requests, provers and sessions.    *)
(***************************************************************************)
EXTENDS Devices, TLAPS

-----------------------------------------------------------------------------
(* The server *)

\* A request is verified at most once, and only one that was made and has left
\* the map of active requests; those in the map were made.
ServerInv ==
    /\ verified \in [Requests -> {0, 1}]
    /\ activeRequests \subseteq made
    /\ \A r \in Requests : verified[r] = 1 => r \in made \ activeRequests

LEMMA ServerInvInit == ServerInit => ServerInv
BY DEF ServerInit, ServerInv

\* Only an accepted proof counts, and it takes its request out of the map.
LEMMA PostVerifyKeeps ==
    ASSUME ServerInv, NEW r \in Requests, NEW proof \in Proofs, PostVerify(r, proof)
    PROVE  ServerInv'
<1>1. verified[r] = 0
    BY DEF PostVerify, ServerInv
<1>2. verified' = [verified EXCEPT ![r] = 1]
    BY <1>1 DEF PostVerify, ServerInv
<1> QED
    BY <1>2 DEF PostVerify, ServerInv

LEMMA ServerStepKeeps == ServerInv /\ ServerStep => ServerInv'
<1> SUFFICES ASSUME ServerInv, ServerStep PROVE ServerInv'
    OBVIOUS
<1>1. ASSUME NEW r \in Requests, PostRequest(r) PROVE ServerInv'
    BY <1>1 DEF PostRequest, ServerInv
<1>2. ASSUME NEW r \in Requests, RequestExpires(r) PROVE ServerInv'
    BY <1>2 DEF RequestExpires, ServerInv
<1>3. ASSUME NEW r \in Requests, NEW proof \in Proofs, PostVerify(r, proof) PROVE ServerInv'
    BY <1>3, PostVerifyKeeps
<1>4. ASSUME NEW key \in Provers \X Requests, KeyLapses(key) PROVE ServerInv'
    BY <1>4 DEF KeyLapses, ServerInv
<1>5. CASE Restart
    BY <1>5 DEF Restart, ServerInv
<1> QED
    BY <1>1, <1>2, <1>3, <1>4, <1>5 DEF ServerStep

LEMMA ServerInvNext == ServerInv /\ [Next]_vars => ServerInv'
<1> SUFFICES ASSUME ServerInv, [Next]_vars PROVE ServerInv'
    OBVIOUS
<1>1. CASE ServerNext
    BY <1>1, ServerStepKeeps DEF ServerNext
<1>2. CASE UNCHANGED serverVars
    BY <1>2 DEF serverVars, ServerInv
<1> QED
    BY <1>1, <1>2 DEF Next, WalletNext, NativeNext, WebNext, vars

\* RequestOnce: a request of the verifier server is satisfied by at most one
\* proof, for any number of requests and provers, whatever expires or lapses
\* and however often the server restarts (server.js POST /verify).
THEOREM RequestOnce == Spec => []RequestAcceptedOnce
<1>1. Init => ServerInv
    BY ServerInvInit DEF Init
<1>2. ServerInv => RequestAcceptedOnce
    BY DEF ServerInv, RequestAcceptedOnce
<1> QED
    BY <1>1, <1>2, ServerInvNext, PTL DEF Spec

-----------------------------------------------------------------------------
(* The wallet *)

Places == {"idle", "returned", "thrown"} \cup Pending
Reasons == {"none", "refused", "request failed", "timed out"}
Signings == [at : Places, answer : PayloadStates, why : Reasons]

\* What is on its way to the signer of a consent, what it knows and why it has
\* ended agree with the wallet: an answer that shows a decision is the decision,
\* and a decision that has reached a signer has ended its signing.
Sound(k) ==
    /\ signing[k].answer # "none" => At(k, "asking")
    /\ signing[k].why # "none" => At(k, "thrown")
    /\ signing[k].answer \in {"signed", "rejected", "expired"} => payload[k] = signing[k].answer
    /\ k \in told => At(k, "returned") \/ signing[k].why = "refused"
    /\ At(k, "returned") => payload[k] = "signed"
    /\ signing[k].why = "refused" => payload[k] \in {"rejected", "expired"}
    /\ signing[k].why = "timed out" => k \in late \ told

WalletInv ==
    /\ signing \in [Consents -> Signings]
    /\ payload \in [Consents -> PayloadStates]
    /\ told \subseteq Consents
    /\ \A k \in Consents : Sound(k)

LEMMA WalletInvInit == XamanInit => WalletInv
<1> SUFFICES ASSUME XamanInit PROVE WalletInv
    OBVIOUS
<1>1. [at |-> "idle", answer |-> "none", why |-> "none"] \in Signings
    BY DEF Signings, Places, Reasons, PayloadStates
<1>2. /\ signing \in [Consents -> Signings]
      /\ payload \in [Consents -> PayloadStates] /\ told \subseteq Consents
    BY <1>1 DEF XamanInit, PayloadStates
<1>3. \A k \in Consents : Sound(k)
    BY DEF XamanInit, Sound, At
<1> QED
    BY <1>2, <1>3 DEF WalletInv

\* What resolved_at says of an answer.
LEMMA ResolvedSays ==
    ASSUME NEW answer, NEW resolved \in Resolved(answer)
    PROVE  resolved => answer \notin {"none", "open"}
BY DEF Resolved

\* A step of one consent: what is new is of its kind and agrees with the
\* wallet, and the other consents are left alone.
LEMMA OneConsent ==
    ASSUME WalletInv, NEW k \in Consents,
           signing' \in [Consents -> Signings],
           payload' \in [Consents -> PayloadStates],
           told' \subseteq Consents,
           late \subseteq late',
           \A j \in Consents \ {k} :
              signing'[j] = signing[j] /\ payload'[j] = payload[j] /\ (j \in told' <=> j \in told),
           Sound(k)'
    PROVE  WalletInv'
<1>1. ASSUME NEW j \in Consents, j # k PROVE Sound(j)'
    <2>1. Sound(j) /\ signing'[j] = signing[j] /\ payload'[j] = payload[j] /\ (j \in told' <=> j \in told)
        BY <1>1 DEF WalletInv
    <2> QED
        BY <2>1 DEF Sound, At
<1> QED
    BY <1>1 DEF WalletInv

LEMMA XamanStepKeeps ==
    ASSUME WalletInv, NEW k \in Consents, XamanStep(k)
    PROVE  WalletInv'
<1> USE DEF WalletInv, At, Goes, Throws
<1> DEFINE Ends(place, reason) ==
        signing'[k].at = place /\ signing'[k].answer = "none" /\ signing'[k].why = reason
<1>k. /\ \A p \in Places : [at |-> p, answer |-> "none", why |-> "none"] \in Signings
      /\ \A r \in Reasons : [at |-> "thrown", answer |-> "none", why |-> r] \in Signings
    BY DEF Signings, Places, PayloadStates, Reasons
<1>s. signing[k] \in Signings /\ payload[k] \in PayloadStates
      /\ Sound(k)
    OBVIOUS
<1>n. /\ {"creating", "asking", "sleeping", "returned", "thrown"} \subseteq Places
      /\ {"refused", "request failed", "timed out"} \subseteq Reasons
      /\ {"open", "signed", "rejected", "expired"} \subseteq PayloadStates
    BY DEF Places, Pending, Reasons, PayloadStates
<1>1. CASE SignConsent(k)
    <2>1. signing' \in [Consents -> Signings] /\ payload' \in [Consents -> PayloadStates]
          /\ told' \subseteq Consents /\ late \subseteq late'
        BY <1>1, <1>k, <1>n DEF SignConsent
    <2>2. \A j \in Consents \ {k} :
             signing'[j] = signing[j] /\ payload'[j] = payload[j] /\ (j \in told' <=> j \in told)
        BY <1>1 DEF SignConsent
    <2>3. Sound(k)'
        BY <1>1 DEF SignConsent, Sound
    <2> QED
        BY <2>1, <2>2, <2>3, OneConsent
<1>2. CASE CreatePayload(k)
    <2>1. signing' \in [Consents -> Signings] /\ payload' \in [Consents -> PayloadStates]
          /\ told' \subseteq Consents /\ late \subseteq late'
        BY <1>2, <1>k, <1>n DEF CreatePayload
    <2>2. \A j \in Consents \ {k} :
             signing'[j] = signing[j] /\ payload'[j] = payload[j] /\ (j \in told' <=> j \in told)
        BY <1>2 DEF CreatePayload
    <2>k. \/ Ends("asking", "none")
          \/ Ends("thrown", "request failed")
        <3>1. \/ signing' = [signing EXCEPT ![k] = [at |-> "asking", answer |-> "none", why |-> "none"]]
              \/ signing' = [signing EXCEPT ![k] = [at |-> "thrown", answer |-> "none",
                                                   why |-> "request failed"]]
            BY <1>2 DEF CreatePayload
        <3>2. CASE signing' = [signing EXCEPT ![k] = [at |-> "asking", answer |-> "none", why |-> "none"]]
            BY <3>2
        <3>3. CASE signing' = [signing EXCEPT ![k] = [at |-> "thrown", answer |-> "none",
                                                    why |-> "request failed"]]
            BY <3>3
        <3> QED
            BY <3>1, <3>2, <3>3
    <2>t. k \notin told'
        BY <1>2, <1>s DEF CreatePayload, Sound
    <2>3. Sound(k)'
        <3>1. CASE Ends("asking", "none")
            BY <2>t, <3>1 DEF Sound
        <3>2. CASE Ends("thrown", "request failed")
            BY <2>t, <3>2 DEF Sound
        <3> QED
            BY <2>k, <3>1, <3>2
    <2> QED
        BY <2>1, <2>2, <2>3, OneConsent
<1>3. CASE PayloadRead(k)
    <2>1. signing' \in [Consents -> Signings] /\ payload' \in [Consents -> PayloadStates]
          /\ told' \subseteq Consents /\ late \subseteq late'
        <3>1. [signing[k] EXCEPT !.answer = payload[k]] \in Signings
            BY <1>s DEF Signings
        <3> QED
            BY <3>1, <1>3 DEF PayloadRead
    <2>2. \A j \in Consents \ {k} :
             signing'[j] = signing[j] /\ payload'[j] = payload[j] /\ (j \in told' <=> j \in told)
        BY <1>3 DEF PayloadRead
    <2>k. /\ signing'[k] = [at |-> "asking", answer |-> payload[k], why |-> signing[k].why]
          /\ payload'[k] = payload[k]
        BY <1>3, <1>s DEF PayloadRead, Signings
    <2>3. Sound(k)'
        BY <2>k, <1>s, <1>3 DEF PayloadRead, Sound
    <2> QED
        BY <2>1, <2>2, <2>3, OneConsent
<1>4. CASE PayloadResult(k)
    <2> USE DEF PayloadStates
    <2>p. PICK resolved \in Resolved(signing[k].answer) :
             /\ told' = IF resolved THEN told \cup {k} ELSE told
             /\ \/ resolved /\ signing[k].answer = "signed" /\ Goes(k, "returned")
                \/ resolved /\ signing[k].answer # "signed" /\ Throws(k, "refused")
                \/ ~resolved /\ Goes(k, "sleeping")
        BY <1>4 DEF PayloadResult
    <2>s. /\ signing[k].answer \in PayloadStates \ {"none"}
          /\ At(k, "asking")
          /\ payload' = payload /\ late' = late
        BY <1>4, <1>s DEF PayloadResult, Signings, Sound
    <2>a. resolved => signing[k].answer \in {"signed", "rejected", "expired"}
        BY <2>s, ResolvedSays
    <2>t. k \notin told
        BY <1>s, <2>s DEF Sound
    <2>r. \/ /\ signing[k].answer = "signed" /\ told' = told \cup {k}
             /\ Goes(k, "returned")
          \/ /\ signing[k].answer \in {"rejected", "expired"} /\ told' = told \cup {k}
             /\ Throws(k, "refused")
          \/ told' = told /\ Goes(k, "sleeping")
        <3>1. CASE resolved
            BY <2>p, <2>a, <3>1
        <3>2. CASE ~resolved
            BY <2>p, <3>2
        <3> QED
            BY <3>1, <3>2
    <2>1. signing' \in [Consents -> Signings] /\ payload' \in [Consents -> PayloadStates]
          /\ told' \subseteq Consents /\ late \subseteq late'
        BY <2>r, <2>s, <1>k, <1>n
    <2>2. \A j \in Consents \ {k} :
             signing'[j] = signing[j] /\ payload'[j] = payload[j] /\ (j \in told' <=> j \in told)
        BY <2>r, <2>s
    <2>k. \/ signing[k].answer = "signed" /\ Ends("returned", "none")
          \/ signing[k].answer \in {"rejected", "expired"} /\ Ends("thrown", "refused")
          \/ k \notin told' /\ Ends("sleeping", "none")
        BY <2>r, <2>t
    <2>3. Sound(k)'
        <3>1. CASE signing[k].answer = "signed" /\ Ends("returned", "none")
            BY <3>1, <2>s, <1>s DEF Sound
        <3>2. CASE signing[k].answer \in {"rejected", "expired"} /\ Ends("thrown", "refused")
            BY <3>2, <2>s, <1>s DEF Sound
        <3>3. CASE k \notin told' /\ Ends("sleeping", "none")
            BY <3>3, <2>s, <1>s DEF Sound
        <3> QED
            BY <2>k, <3>1, <3>2, <3>3
    <2> QED
        BY <2>1, <2>2, <2>3, OneConsent
<1>5. CASE PayloadResultFails(k)
    <2>1. signing' \in [Consents -> Signings] /\ payload' \in [Consents -> PayloadStates]
          /\ told' \subseteq Consents /\ late \subseteq late'
        BY <1>5, <1>k, <1>n DEF PayloadResultFails
    <2>2. \A j \in Consents \ {k} :
             signing'[j] = signing[j] /\ payload'[j] = payload[j] /\ (j \in told' <=> j \in told)
        BY <1>5 DEF PayloadResultFails
    <2>3. Sound(k)'
        BY <1>5 DEF PayloadResultFails, Sound
    <2> QED
        BY <2>1, <2>2, <2>3, OneConsent
<1>6. CASE Poll(k)
    <2>1. signing' \in [Consents -> Signings] /\ payload' \in [Consents -> PayloadStates]
          /\ told' \subseteq Consents /\ late \subseteq late'
        BY <1>6, <1>k, <1>n DEF Poll
    <2>2. \A j \in Consents \ {k} :
             signing'[j] = signing[j] /\ payload'[j] = payload[j] /\ (j \in told' <=> j \in told)
        BY <1>6 DEF Poll
    <2>k. \/ Ends("asking", "none")
          \/ /\ k \in late
             /\ Ends("thrown", "timed out")
        <3>1. \/ signing' = [signing EXCEPT ![k] = [at |-> "asking", answer |-> "none", why |-> "none"]]
              \/ /\ k \in late
                 /\ signing' = [signing EXCEPT ![k] = [at |-> "thrown", answer |-> "none",
                                                      why |-> "timed out"]]
            BY <1>6 DEF Poll
        <3>2. CASE signing' = [signing EXCEPT ![k] = [at |-> "asking", answer |-> "none", why |-> "none"]]
            BY <3>2
        <3>3. CASE /\ k \in late
                   /\ signing' = [signing EXCEPT ![k] = [at |-> "thrown", answer |-> "none",
                                                        why |-> "timed out"]]
            BY <3>3
        <3> QED
            BY <3>1, <3>2, <3>3
    <2>t. k \notin told'
        BY <1>6, <1>s DEF Poll, Sound
    <2>3. Sound(k)'
        <3>1. CASE Ends("asking", "none")
            BY <2>t, <3>1 DEF Sound
        <3>2. CASE k \in late /\ Ends("thrown", "timed out")
            BY <2>t, <3>2, <1>s, <1>6 DEF Poll, Sound
        <3> QED
            BY <2>k, <3>1, <3>2
    <2> QED
        BY <2>1, <2>2, <2>3, OneConsent
<1>7. CASE DeadlinePasses(k)
    <2>1. signing' \in [Consents -> Signings] /\ payload' \in [Consents -> PayloadStates]
          /\ told' \subseteq Consents /\ late \subseteq late'
        BY <1>7, <1>k, <1>n DEF DeadlinePasses
    <2>2. \A j \in Consents \ {k} :
             signing'[j] = signing[j] /\ payload'[j] = payload[j] /\ (j \in told' <=> j \in told)
        BY <1>7 DEF DeadlinePasses
    <2>3. Sound(k)'
        BY <1>7 DEF DeadlinePasses, Sound
    <2> QED
        BY <2>1, <2>2, <2>3, OneConsent
<1>8. CASE UserDecides(k)
    <2>1. signing' \in [Consents -> Signings] /\ payload' \in [Consents -> PayloadStates]
          /\ told' \subseteq Consents /\ late \subseteq late'
        BY <1>8, <1>k, <1>n DEF UserDecides
    <2>2. \A j \in Consents \ {k} :
             signing'[j] = signing[j] /\ payload'[j] = payload[j] /\ (j \in told' <=> j \in told)
        BY <1>8 DEF UserDecides
    <2>3. Sound(k)'
        BY <1>8 DEF UserDecides, Sound
    <2> QED
        BY <2>1, <2>2, <2>3, OneConsent
<1> QED
    BY <1>1, <1>2, <1>3, <1>4, <1>5, <1>6, <1>7, <1>8 DEF XamanStep

LEMMA WalletInvNext == WalletInv /\ [Next]_vars => WalletInv'
<1> SUFFICES ASSUME WalletInv, [Next]_vars PROVE WalletInv'
    OBVIOUS
<1>1. CASE WalletNext
    BY <1>1, XamanStepKeeps DEF WalletNext
<1>2. CASE UNCHANGED xamanVars
    BY <1>2 DEF xamanVars, WalletInv, Sound, At
<1> QED
    BY <1>1, <1>2 DEF Next, ServerNext, NativeNext, WebNext, vars

\* SignerBelieved: for any number of consents, a bundle is returned only for a
\* payload that was signed, a refusal is thrown only for one that never will
\* be, a decision that arrived with its resolved_at is what the signing ends
\* with, and a signer times out only after its deadline, when no answer with a
\* resolved_at had arrived; nothing is assumed of when the service sends one
\* (XamanSigner.signConsent, waitForSignature).
THEOREM SignerBelieved == Spec => []AnswerMatchesWallet
<1>1. Init => WalletInv
    BY WalletInvInit DEF Init
<1>2. WalletInv => AnswerMatchesWallet
    BY DEF WalletInv, Sound, AnswerMatchesWallet
<1> QED
    BY <1>1, <1>2, WalletInvNext, PTL DEF Spec

-----------------------------------------------------------------------------
(* The readers *)

Starts == [at : {"new", "checking", "scanning", "returned", "thrown"},
           timeout : BOOLEAN, keepAlive : BOOLEAN]

\* What both adapters keep is of its kind.
ReaderTyped ==
    /\ state \in NFCState /\ disordered \in BOOLEAN
    /\ start \in [Sessions -> Starts]

\* At most one start is under way, and one that has asked the platform found
\* nothing reading.
StartsOrdered ==
    /\ \A s, t \in Sessions : Starting(s) /\ Starting(t) => s = t
    /\ \A s \in Sessions : start[s].at = "scanning" => ~state.isReading

\* A phone that was used in order: no start meets a stop; isReading is out of
\* step with the registration only while a stop awaits its second answer, and
\* then nothing is registered.
NativeOrdered ==
    /\ StartsOrdered
    /\ \A s \in Sessions : Starting(s) => Stops = 0
    /\ stopping["cancel"] = 0 => (state.isReading <=> registered)
    /\ stopping["cancel"] > 0 => ~registered

NativeInv ==
    /\ ReaderTyped /\ registered \in BOOLEAN
    /\ stopping \in [{"unregister", "cancel"} -> Nat]
    /\ ~disordered => NativeOrdered

\* The step of a session s of startReading: the others stay where they are.
LEMMA StartMoves ==
    ASSUME ReaderTyped, NEW s \in Sessions,
           NEW place \in {"new", "checking", "scanning", "returned", "thrown"},
           Reach(s, place)
    PROVE  /\ start' \in [Sessions -> Starts]
           /\ start'[s].at = place
           /\ \A t \in Sessions \ {s} : start'[t] = start[t]
BY DEF ReaderTyped, Reach, Starts

LEMMA ReadingStopped ==
    ASSUME state \in NFCState
    PROVE  /\ Reading \in NFCState /\ Reading.isReading
           /\ Stopped \in NFCState /\ ~Stopped.isReading
BY DEF Reading, Stopped, NFCState, None

LEMMA StartBegins ==
    ASSUME ReaderTyped, NEW s \in Sessions, BeginStart(s)
    PROVE  /\ start' \in [Sessions -> Starts]
           /\ start'[s].at \in {"checking", "thrown"}
           /\ \A t \in Sessions \ {s} : start'[t] = start[t]
           /\ state' = state
<1>1. PICK timeout \in BOOLEAN, keepAlive \in BOOLEAN :
        start' = [start EXCEPT ![s] =
            [at |-> IF available THEN "checking" ELSE "thrown",
             timeout |-> timeout, keepAlive |-> keepAlive]]
    BY DEF BeginStart
<1> QED
    BY <1>1 DEF BeginStart, ReaderTyped, Starts

LEMMA ReaderInitTyped == ReaderInit => ReaderTyped
<1> SUFFICES ASSUME ReaderInit PROVE ReaderTyped
    OBVIOUS
<1>1. state \in NFCState /\ disordered \in BOOLEAN
    BY DEF ReaderInit, NFCState, None
<1>2. [at |-> "new", timeout |-> FALSE, keepAlive |-> FALSE] \in Starts
    BY DEF Starts
<1> QED
    BY <1>1, <1>2 DEF ReaderInit, ReaderTyped

LEMMA NativeInvInit == ReaderInit /\ NativeInit => NativeInv
<1> SUFFICES ASSUME ReaderInit, NativeInit PROVE NativeInv
    OBVIOUS
<1>1. ReaderTyped /\ registered = FALSE
    BY ReaderInitTyped DEF NativeInit
<1>2. /\ stopping \in [{"unregister", "cancel"} -> Nat]
      /\ stopping["cancel"] = 0
    BY DEF NativeInit
<1>3. state.isReading = FALSE /\ \A s \in Sessions : start[s].at = "new"
    BY DEF ReaderInit
<1> QED
    BY <1>1, <1>2, <1>3 DEF NativeInv, NativeOrdered, StartsOrdered, Starting

LEMMA StartReadingKeeps ==
    ASSUME NativeInv, NEW s \in Sessions, StartReading(s) PROVE NativeInv'
<1>1. ReaderTyped' /\ registered' \in BOOLEAN /\ stopping' \in [{"unregister", "cancel"} -> Nat]
    BY StartBegins DEF NativeInv, ReaderTyped, StartReading, nativeVars
<1>2. ASSUME ~disordered' PROVE NativeOrdered'
    <2>1. ~disordered /\ Stops = 0 /\ \A t \in Sessions : ~Starting(t)
        <3>1. ~disordered /\ StartsInFlight = {} /\ ~(Stops > 0)
            BY <1>2 DEF StartReading
        <3>2. Stops \in Nat
            BY DEF NativeInv, Stops
        <3> QED
            BY <3>1, <3>2 DEF StartsInFlight
    <2> QED
        BY <2>1, StartBegins
        DEF StartReading, NativeInv, NativeOrdered, StartsOrdered, Starting, Stops, nativeVars
<1> QED
    BY <1>1, <1>2 DEF NativeInv

LEMMA StartInitializedKeeps ==
    ASSUME NativeInv, NEW s \in Sessions, StartInitialized(s) PROVE NativeInv'
<1>1. /\ start' \in [Sessions -> Starts]
      /\ start'[s].at = "scanning" => ~state.isReading
      /\ \A t \in Sessions \ {s} : start'[t] = start[t]
    BY StartMoves DEF StartInitialized, NativeInv
<1> QED
    BY <1>1 DEF StartInitialized, NativeInv, ReaderTyped, NativeOrdered, StartsOrdered,
                Starting, Stops

LEMMA RegisteredKeeps ==
    ASSUME NativeInv, NEW s \in Sessions, TagEventRegistered(s) PROVE NativeInv'
<1>1. /\ start' \in [Sessions -> Starts] /\ start'[s].at = "returned"
      /\ \A t \in Sessions \ {s} : start'[t] = start[t]
      /\ state' \in NFCState /\ state'.isReading
    BY StartMoves, ReadingStopped DEF TagEventRegistered, NativeInv, ReaderTyped
<1> QED
    BY <1>1 DEF TagEventRegistered, NativeInv, ReaderTyped, NativeOrdered, StartsOrdered,
                Starting, Stops

LEMMA RefusedKeeps ==
    ASSUME NativeInv, NEW s \in Sessions, TagEventRefused(s) PROVE NativeInv'
<1>1. /\ start' \in [Sessions -> Starts] /\ start'[s].at = "thrown"
      /\ \A t \in Sessions \ {s} : start'[t] = start[t]
      /\ state' \in NFCState /\ ~state'.isReading
    BY StartMoves DEF TagEventRefused, NativeInv, ReaderTyped, NFCState
<1> QED
    BY <1>1 DEF TagEventRefused, NativeInv, ReaderTyped, NativeOrdered, StartsOrdered,
                Starting, Stops, nativeVars

\* A stop that begins while a start is under way disorders the phone.
LEMMA BeginStopKeeps ==
    ASSUME NativeInv, BeginStop, UNCHANGED <<state, start, registered>> PROVE NativeInv'
<1>1. /\ stopping' \in [{"unregister", "cancel"} -> Nat]
      /\ stopping'["cancel"] = stopping["cancel"]
    BY DEF BeginStop, NativeInv
<1>2. ReaderTyped'
    BY DEF BeginStop, NativeInv, ReaderTyped
<1>3. ASSUME ~disordered' PROVE NativeOrdered'
    <2>1. ~disordered /\ \A t \in Sessions : ~Starting(t)
        BY <1>3 DEF BeginStop, StartsInFlight, NativeInv
    <2> QED
        BY <2>1, <1>1 DEF NativeInv, NativeOrdered, StartsOrdered, Starting
<1> QED
    BY <1>1, <1>2, <1>3 DEF NativeInv

LEMMA UnregisteredKeeps == ASSUME NativeInv, Unregistered PROVE NativeInv'
<1>1. /\ stopping' \in [{"unregister", "cancel"} -> Nat]
      /\ stopping'["cancel"] > 0 /\ Stops # 0
    BY DEF Unregistered, NativeInv, Stops
<1>2. UNCHANGED <<state, start, disordered>> /\ registered' = FALSE
    BY DEF Unregistered, readerVars
<1>3. ReaderTyped'
    BY <1>2 DEF NativeInv, ReaderTyped
<1>4. ASSUME ~disordered PROVE NativeOrdered'
    BY <1>1, <1>2, <1>4 DEF NativeInv, NativeOrdered, StartsOrdered, Starting
<1> QED
    BY <1>1, <1>2, <1>3, <1>4 DEF NativeInv

LEMMA UnregisterFailsKeeps == ASSUME NativeInv, UnregisterFails PROVE NativeInv'
<1>1. stopping' \in [{"unregister", "cancel"} -> Nat]
    BY DEF UnregisterFails, NativeInv
<1> QED
    BY <1>1, ReadingStopped DEF UnregisterFails, NativeInv, ReaderTyped

LEMMA CancelledKeeps == ASSUME NativeInv, Cancelled PROVE NativeInv'
<1>1. /\ stopping' \in [{"unregister", "cancel"} -> Nat]
      /\ stopping["cancel"] > 0 /\ Stops # 0
    BY DEF Cancelled, NativeInv, Stops
<1>2. state' \in NFCState /\ ~state'.isReading
    BY ReadingStopped DEF Cancelled, NativeInv, ReaderTyped
<1> QED
    BY <1>1, <1>2 DEF Cancelled, NativeInv, ReaderTyped, NativeOrdered, StartsOrdered, Starting

\* The steps that touch neither the sessions nor the registration.
LEMMA NativeUntouched ==
    ASSUME NativeInv, UNCHANGED <<start, disordered, registered, stopping>>,
           state' \in NFCState, state'.isReading = state.isReading
    PROVE  NativeInv'
BY DEF NativeInv, ReaderTyped, NativeOrdered, StartsOrdered, Starting, Stops

LEMMA NativeStepKeeps == NativeInv /\ NativeStep => NativeInv'
<1> SUFFICES ASSUME NativeInv, NativeStep PROVE NativeInv'
    OBVIOUS
<1>0. state \in NFCState
    BY DEF NativeInv, ReaderTyped
<1>1. CASE LoadNfcManager
    BY <1>0, <1>1, NativeUntouched DEF LoadNfcManager, nativeVars
<1>2. CASE IsSupported
    BY <1>0, <1>2, NativeUntouched DEF IsSupported, readerVars
<1>3. CASE StopReading
    BY <1>3, BeginStopKeeps DEF StopReading
<1>4. CASE Unregistered \/ UnregisterFails \/ Cancelled
    BY <1>4, UnregisteredKeeps, UnregisterFailsKeeps, CancelledKeeps
<1>5. CASE WriteTag \/ WriteAnswered \/ WriteSucceeds \/ WriteFails
    BY <1>0, <1>5, NativeUntouched DEF WriteTag, WriteAnswered, WriteSucceeds, WriteFails, readerVars
<1>6. ASSUME NEW s \in Sessions,
             \/ StartReading(s) \/ StartInitialized(s)
             \/ TagEventRegistered(s) \/ TagEventRefused(s)
      PROVE  NativeInv'
    BY <1>6, StartReadingKeeps, StartInitializedKeeps, RegisteredKeeps, RefusedKeeps
<1>7. ASSUME NEW s \in Sessions, TimerFires(s) PROVE NativeInv'
    <2>1. CASE state.isReading
        BY <1>7, <2>1, BeginStopKeeps DEF TimerFires
    <2>2. CASE ~state.isReading
        BY <1>0, <1>7, <2>2, NativeUntouched DEF TimerFires
    <2> QED
        BY <2>1, <2>2
<1>8. ASSUME NEW tag \in Tags, TagDiscovered(tag) PROVE NativeInv'
    <2>1. CASE start[listener].keepAlive
        BY <1>0, <1>8, <2>1, NativeUntouched DEF TagDiscovered
    <2>2. CASE ~start[listener].keepAlive
        BY <1>8, <2>2, BeginStopKeeps DEF TagDiscovered
    <2> QED
        BY <2>1, <2>2
<1>9. ASSUME NEW on \in BOOLEAN, SetHCE(on) PROVE NativeInv'
    <2>1. state' \in NFCState /\ state'.isReading = state.isReading
        BY <1>0, <1>9 DEF SetHCE, NFCState
    <2> QED
        BY <1>9, <2>1, NativeUntouched DEF SetHCE, nativeVars
<1>10. ASSUME NEW on \in BOOLEAN, Listen(on), UNCHANGED nativeVars PROVE NativeInv'
    BY <1>0, <1>10, NativeUntouched DEF Listen, nativeVars
<1> QED
    BY <1>1, <1>2, <1>3, <1>4, <1>5, <1>6, <1>7, <1>8, <1>9, <1>10 DEF NativeStep

\* A browser that was used in order: a live scan is that of the session whose
\* controller the adapter keeps, so that stopReading reaches it.
Scans == {None, "asked", "live", "ended"}
WebOrdered ==
    /\ StartsOrdered
    /\ state.isReading <=> Live # {}
    /\ \A s \in Sessions : scan[s] = "live" => current = s
    /\ \A s \in Sessions : scan[s] = "asked" => start[s].at = "scanning" /\ current = s

WebInv ==
    /\ ReaderTyped
    /\ scan \in [Sessions -> Scans] /\ current \in Sessions \cup {None}
    /\ ~disordered => WebOrdered

LEMMA WebInvInit == ReaderInit /\ WebInit => WebInv
<1> SUFFICES ASSUME ReaderInit, WebInit PROVE WebInv
    OBVIOUS
<1>1. /\ state.isReading = FALSE /\ \A s \in Sessions : start[s].at = "new"
      /\ \A s \in Sessions : scan[s] = "none"
    BY DEF ReaderInit, WebInit, None
<1>2. scan \in [Sessions -> Scans] /\ current \in Sessions \cup {None}
    BY DEF WebInit, Scans
<1> QED
    BY <1>1, <1>2, ReaderInitTyped DEF WebInv, WebOrdered, StartsOrdered, Starting, Live

LEMMA WebUntouched ==
    ASSUME WebInv, UNCHANGED <<start, disordered, scan, current>>,
           state' \in NFCState, state'.isReading = state.isReading
    PROVE  WebInv'
BY DEF WebInv, ReaderTyped, WebOrdered, StartsOrdered, Starting, Live

\* Aborting ends the scan of the session that is kept, and no other.
LEMMA AbortedEnds ==
    ASSUME WebInv, scan' = Aborted
    PROVE  /\ scan' \in [Sessions -> Scans]
           /\ current \in Sessions => scan'[current] = "ended"
           /\ \A s \in Sessions : s # current => scan'[s] = scan[s]
BY SessionsAssumption DEF WebInv, Aborted, Scans

LEMMA StopScanKeeps == ASSUME WebInv, StopScan PROVE WebInv'
<1>1. state' \in NFCState /\ ~state'.isReading
    BY ReadingStopped DEF WebInv, ReaderTyped, StopScan
<1>2. ReaderTyped' /\ scan' \in [Sessions -> Scans] /\ current' \in Sessions \cup {None}
    BY <1>1, AbortedEnds DEF StopScan, WebInv, ReaderTyped
<1>3. ASSUME ~disordered PROVE WebOrdered'
    <2>1. \A s \in Sessions : scan'[s] \notin {"live", "asked"}
        BY <1>3, AbortedEnds, SessionsAssumption DEF StopScan, WebInv, WebOrdered
    <2> QED
        BY <1>1, <1>3, <2>1
        DEF StopScan, WebInv, WebOrdered, StartsOrdered, Starting, Live
<1> QED
    BY <1>2, <1>3 DEF WebInv, StopScan

LEMMA StartScanKeeps ==
    ASSUME WebInv, NEW s \in Sessions, StartScan(s) PROVE WebInv'
<1>1. ReaderTyped' /\ UNCHANGED <<scan, current, state>>
    BY StartBegins DEF WebInv, ReaderTyped, StartScan, webVars
<1>2. ASSUME ~disordered' PROVE WebOrdered'
    <2>1. ~disordered /\ StartsInFlight = {}
        BY <1>2 DEF StartScan
    <2>2. \A t \in Sessions : ~Starting(t)
        BY <2>1 DEF StartsInFlight
    <2>3. \A t \in Sessions : scan[t] # "asked"
        BY <2>1, <2>2 DEF WebInv, WebOrdered, Starting
    <2> QED
        BY <1>1, <2>1, <2>2, <2>3, StartBegins
        DEF StartScan, WebInv, WebOrdered, StartsOrdered, Starting, Live
<1> QED
    BY <1>1, <1>2 DEF WebInv

LEMMA SupportedKeeps ==
    ASSUME WebInv, NEW s \in Sessions, Supported(s) PROVE WebInv'
<1>1. CASE state.isReading
    <2>1. /\ start' \in [Sessions -> Starts] /\ start'[s].at = "returned"
          /\ \A t \in Sessions \ {s} : start'[t] = start[t]
        BY <1>1, StartMoves DEF Supported, WebInv
    <2> QED
        BY <1>1, <2>1
        DEF Supported, WebInv, ReaderTyped, WebOrdered, StartsOrdered, Starting, Live, webVars
<1>2. CASE ~state.isReading
    <2>1. /\ start' \in [Sessions -> Starts] /\ start'[s].at = "scanning"
          /\ \A t \in Sessions \ {s} : start'[t] = start[t]
        BY <1>2, StartMoves DEF Supported, WebInv
    <2>2. /\ scan' \in [Sessions -> Scans] /\ scan'[s] = "asked" /\ current' = s
          /\ \A t \in Sessions \ {s} : scan'[t] = scan[t]
        BY <1>2 DEF Supported, WebInv, Scans
    <2>3. ReaderTyped' /\ UNCHANGED <<state, disordered>>
        BY <2>1 DEF Supported, WebInv, ReaderTyped
    <2>4. ASSUME ~disordered PROVE WebOrdered'
        <3>1. \A t \in Sessions \ {s} : ~Starting(t) /\ scan[t] \notin {"asked", "live"}
            BY <1>2, <2>4 DEF Supported, WebInv, WebOrdered, StartsOrdered, Starting, Live
        <3> QED
            BY <1>2, <2>1, <2>2, <2>3, <3>1 DEF WebOrdered, StartsOrdered, Starting, Live
    <2> QED
        BY <2>2, <2>3, <2>4 DEF WebInv
<1> QED
    BY <1>1, <1>2

LEMMA ScanStartedKeeps ==
    ASSUME WebInv, NEW s \in Sessions, ScanStarted(s) PROVE WebInv'
<1>1. /\ start' \in [Sessions -> Starts] /\ start'[s].at = "returned"
      /\ \A t \in Sessions \ {s} : start'[t] = start[t]
      /\ state' \in NFCState /\ state'.isReading
    BY StartMoves, ReadingStopped DEF ScanStarted, WebInv, ReaderTyped
<1>2. /\ scan' \in [Sessions -> Scans] /\ scan'[s] = "live"
      /\ \A t \in Sessions \ {s} : scan'[t] = scan[t]
      /\ UNCHANGED <<current, disordered>>
    BY DEF ScanStarted, WebInv, Scans
<1>3. ASSUME ~disordered PROVE WebOrdered'
    <2>1. current = s /\ \A t \in Sessions \ {s} : ~Starting(t)
        BY <1>3 DEF ScanStarted, WebInv, WebOrdered, StartsOrdered, Starting
    <2> QED
        BY <1>1, <1>2, <1>3, <2>1 DEF WebInv, WebOrdered, StartsOrdered, Starting, Live
<1> QED
    BY <1>1, <1>2, <1>3 DEF WebInv, ReaderTyped

LEMMA ScanRefusedKeeps ==
    ASSUME WebInv, NEW s \in Sessions, ScanRefused(s) PROVE WebInv'
<1>1. /\ start' \in [Sessions -> Starts] /\ start'[s].at = "thrown"
      /\ \A t \in Sessions \ {s} : start'[t] = start[t]
      /\ state' \in NFCState /\ ~state'.isReading
    BY StartMoves DEF ScanRefused, WebInv, ReaderTyped, NFCState
<1>2. /\ scan' \in [Sessions -> Scans] /\ scan'[s] = "ended"
      /\ \A t \in Sessions \ {s} : scan'[t] = scan[t]
      /\ UNCHANGED <<current, disordered>>
    BY DEF ScanRefused, WebInv, Scans
<1>3. ASSUME ~disordered PROVE WebOrdered'
    <2>1. \A t \in Sessions : scan[t] # "live"
        BY <1>3 DEF ScanRefused, WebInv, WebOrdered, StartsOrdered, Live
    <2> QED
        BY <1>1, <1>2, <1>3, <2>1 DEF WebInv, WebOrdered, StartsOrdered, Starting, Live
<1> QED
    BY <1>1, <1>2, <1>3 DEF WebInv, ReaderTyped

\* A timer that ends a live scan disorders the browser; another ends at most
\* the scan of a start that is still asked for.
LEMMA TimeoutKeeps ==
    ASSUME WebInv, NEW s \in Sessions, Timeout(s) PROVE WebInv'
<1>1. /\ scan' \in [Sessions -> Scans] /\ UNCHANGED <<start, state, current>>
      /\ disordered' \in BOOLEAN
    BY AbortedEnds DEF Timeout
<1>2. ASSUME ~disordered' PROVE WebOrdered'
    <2>1. ~disordered /\ current \notin Live
        BY <1>2 DEF Timeout
    <2>2. \A t \in Sessions : /\ scan'[t] = "live" => scan[t] = "live"
                              /\ scan[t] = "live" => scan'[t] = "live"
                              /\ scan'[t] = "asked" => scan[t] = "asked"
        BY <2>1, AbortedEnds DEF Timeout, Live, WebInv
    <2>3. WebOrdered
        BY <2>1 DEF WebInv
    <2>4. state'.isReading <=> Live' # {}
        BY <1>1, <2>2, <2>3 DEF WebOrdered, Live
    <2>5. StartsOrdered'
        BY <1>1, <2>3 DEF WebOrdered, StartsOrdered, Starting
    <2> QED
        BY <1>1, <2>2, <2>3, <2>4, <2>5 DEF WebOrdered
<1> QED
    BY <1>1, <1>2 DEF WebInv, ReaderTyped

LEMMA WebStepKeeps == WebInv /\ WebStep => WebInv'
<1> SUFFICES ASSUME WebInv, WebStep PROVE WebInv'
    OBVIOUS
<1>0. state \in NFCState
    BY DEF WebInv, ReaderTyped
<1>1. CASE RequestPermission
    <2>1. state' \in NFCState /\ state'.isReading = state.isReading
        BY <1>0, <1>1 DEF RequestPermission, NFCState
    <2> QED
        BY <1>1, <2>1, WebUntouched DEF RequestPermission, webVars
<1>2. CASE StopReadingWeb
    BY <1>2, StopScanKeeps DEF StopReadingWeb
<1>3. ASSUME NEW s \in Sessions,
             StartScan(s) \/ Supported(s) \/ ScanStarted(s) \/ ScanRefused(s) \/ Timeout(s)
      PROVE  WebInv'
    BY <1>3, StartScanKeeps, SupportedKeeps, ScanStartedKeeps, ScanRefusedKeeps, TimeoutKeeps
<1>4. ASSUME NEW s \in Sessions, ReadingError(s) PROVE WebInv'
    BY <1>0, <1>4, WebUntouched DEF ReadingError, webVars
<1>5. ASSUME NEW s \in Sessions, NEW tag \in Tags, TagRead(s, tag) PROVE WebInv'
    BY <1>0, <1>5, WebUntouched, StopScanKeeps DEF TagRead, webVars
<1>6. ASSUME NEW on \in BOOLEAN, Listen(on), UNCHANGED webVars PROVE WebInv'
    BY <1>0, <1>6, WebUntouched DEF Listen, webVars
<1> QED
    BY <1>1, <1>2, <1>3, <1>4, <1>5, <1>6 DEF WebStep

ReaderInv ==
    /\ device = "native" => NativeInv
    /\ device = "web" => WebInv

LEMMA ReaderInvNext == ReaderInv /\ [Next]_vars => ReaderInv'
<1> SUFFICES ASSUME ReaderInv, [Next]_vars PROVE ReaderInv'
    OBVIOUS
<1>1. CASE NativeNext
    BY <1>1, NativeStepKeeps DEF NativeNext, ReaderInv
<1>2. CASE WebNext
    BY <1>2, WebStepKeeps DEF WebNext, ReaderInv
<1>3. CASE UNCHANGED <<device, readerVars, nativeVars, webVars>>
    <2>0. UNCHANGED <<device, state, start, disordered, registered, stopping, scan, current>>
        BY <1>3 DEF readerVars, nativeVars, webVars
    <2>1. NativeInv => NativeInv'
        BY <2>0, NativeUntouched DEF NativeInv, ReaderTyped
    <2>2. WebInv => WebInv'
        BY <2>0, WebUntouched DEF WebInv, ReaderTyped
    <2> QED
        BY <1>3, <2>1, <2>2 DEF ReaderInv
<1> QED
    BY <1>1, <1>2, <1>3 DEF Next, WalletNext, ServerNext, vars

\* ReaderAgrees: for any number of sessions and of stops at once, a reader that
\* was used in order says that it reads exactly when the platform delivers tags
\* (startReading and stopReading of both adapters).
THEOREM ReaderAgrees == Spec => []ReaderInStep
<1>1. Init => ReaderInv
    BY NativeInvInit, WebInvInit DEF Init, ReaderInv
<1>2. ReaderInv => ReaderInStep
    <2> SUFFICES ASSUME ReaderInv, Stops = 0, ~disordered
                 PROVE  /\ device = "native" => (state.isReading <=> registered)
                        /\ device = "web" => (state.isReading <=> Live # {})
        BY DEF ReaderInStep
    <2>1. ASSUME device = "native" PROVE state.isReading <=> registered
        <3>1. stopping["cancel"] = 0
            BY <2>1 DEF ReaderInv, NativeInv, Stops
        <3> QED
            BY <2>1, <3>1 DEF ReaderInv, NativeInv, NativeOrdered
    <2> QED
        BY <2>1 DEF ReaderInv, WebInv, WebOrdered
<1> QED
    BY <1>1, <1>2, ReaderInvNext, PTL DEF Spec

-----------------------------------------------------------------------------
(* Types *)

Writings ==
    {"idle", "initializing", "requesting", "writing", "tag", "cancelling", "giving up"}

\* The technology is held by a writer that has not given it up yet, or was left
\* held by one that failed.
WriterTyped ==
    /\ writing \in Writings /\ written \in {None, "success", "failed"}
    /\ technology \in BOOLEAN
    /\ technology => written = "failed" \/ writing \in {"writing", "tag", "cancelling", "giving up"}

StopsTyped == stopping \in [{"unregister", "cancel"} -> Nat] /\ Stops <= MaxStops

SessionsTyped ==
    /\ ReaderTyped
    /\ timer \in [Sessions -> {None, "pending", "fired"}]
    /\ listener \in Sessions \cup {None} /\ current \in Sessions \cup {None}
    /\ available \in BOOLEAN /\ listening \in BOOLEAN
    /\ initialized \in BOOLEAN /\ registered \in BOOLEAN
    /\ report \in Reports
    /\ scan \in [Sessions -> Scans]

ServerTyped ==
    /\ activeRequests \subseteq made /\ made \subseteq Requests /\ expired \subseteq made
    /\ replayKeys \subseteq Provers \X made /\ replayFile \subseteq Provers \X made

DevicesInv ==
    /\ device \in Devices /\ late \subseteq Consents
    /\ ServerInv /\ WalletInv /\ ServerTyped
    /\ SessionsTyped /\ StopsTyped /\ WriterTyped

LEMMA DevicesInvInit == Init => DevicesInv
<1> SUFFICES ASSUME Init PROVE DevicesInv
    OBVIOUS
<1>1. ServerInv /\ WalletInv /\ ReaderTyped
    BY ServerInvInit, WalletInvInit, ReaderInitTyped DEF Init
<1>2. device \in Devices /\ late \subseteq Consents /\ ServerTyped
    BY DEF Init, XamanInit, ServerInit, ServerTyped
<1>3. SessionsTyped
    BY <1>1 DEF Init, SessionsTyped, ReaderInit, NativeInit, WebInit, Scans, Reports, None
<1>4. StopsTyped
    <2>1. stopping \in [{"unregister", "cancel"} -> Nat] /\ Stops = 0
        BY DEF Init, NativeInit, Stops
    <2> QED
        BY <2>1, StopsAssumption DEF StopsTyped
<1>5. WriterTyped
    BY DEF Init, NativeInit, WriterTyped, Writings
<1> QED
    BY <1>1, <1>2, <1>3, <1>4, <1>5 DEF DevicesInv

LEMMA ServerTypedNext == ServerTyped /\ [Next]_vars => ServerTyped'
<1> SUFFICES ASSUME ServerTyped, [Next]_vars PROVE ServerTyped'
    OBVIOUS
<1>1. CASE ServerNext
    <2>1. ASSUME NEW r \in Requests, PostRequest(r) \/ RequestExpires(r) PROVE ServerTyped'
        BY <2>1 DEF PostRequest, RequestExpires, ServerTyped
    <2>2. ASSUME NEW r \in Requests, NEW proof \in Proofs, PostVerify(r, proof)
          PROVE  ServerTyped'
        <3>1. <<proof.by, r>> \in Provers \X made
            BY <2>2 DEF PostVerify, Proofs, ServerTyped
        <3> QED
            BY <2>2, <3>1 DEF PostVerify, ServerTyped
    <2>3. ASSUME NEW key \in Provers \X Requests, KeyLapses(key) PROVE ServerTyped'
        BY <2>3 DEF KeyLapses, ServerTyped
    <2>4. CASE Restart
        BY <2>4 DEF Restart, ServerTyped
    <2> QED
        BY <1>1, <2>1, <2>2, <2>3, <2>4 DEF ServerNext, ServerStep
<1>2. CASE UNCHANGED serverVars
    BY <1>2 DEF serverVars, ServerTyped
<1> QED
    BY <1>1, <1>2 DEF Next, WalletNext, NativeNext, WebNext, vars

LEMMA LateNext == late \subseteq Consents /\ [Next]_vars => late' \subseteq Consents
<1> SUFFICES ASSUME late \subseteq Consents, [Next]_vars PROVE late' \subseteq Consents
    OBVIOUS
<1>1. CASE WalletNext
    BY <1>1 DEF WalletNext, XamanStep, SignConsent, CreatePayload, PayloadRead, PayloadResult,
                PayloadResultFails, Poll, DeadlinePasses, UserDecides
<1>2. CASE UNCHANGED xamanVars
    BY <1>2 DEF xamanVars
<1> QED
    BY <1>1, <1>2 DEF Next, ServerNext, NativeNext, WebNext, vars

\* A report is one of the kinds that the callbacks are told.
LEMMA EmitTyped ==
    ASSUME report \in Reports, NEW result, Emit(result),
           \/ result \in {"timeout", "io_error"}
           \/ \E tag \in Tags : result = TagReport(tag)
    PROVE  report' \in Reports
BY DEF Emit, Reports, TagReport, Tags

LEMMA BeginStopTyped ==
    ASSUME StopsTyped, BeginStop PROVE StopsTyped'
<1>1. stopping' = [stopping EXCEPT !["unregister"] = @ + 1] /\ Stops < MaxStops
    BY DEF BeginStop
<1>2. /\ stopping' \in [{"unregister", "cancel"} -> Nat]
      /\ stopping'["unregister"] = stopping["unregister"] + 1
      /\ stopping'["cancel"] = stopping["cancel"]
    BY <1>1 DEF StopsTyped
<1> QED
    BY <1>1, <1>2, StopsAssumption DEF StopsTyped, Stops

LEMMA NativeTyped ==
    ASSUME SessionsTyped, StopsTyped, WriterTyped, NativeStep, UNCHANGED webVars
    PROVE  SessionsTyped' /\ StopsTyped' /\ WriterTyped'
<1> USE DEF readerVars, webVars, writer
<1>0. state \in NFCState /\ start \in [Sessions -> Starts]
    BY DEF SessionsTyped, ReaderTyped
<1>s. ASSUME UNCHANGED stopping PROVE StopsTyped'
    BY <1>s DEF StopsTyped, Stops
<1>w. ASSUME UNCHANGED <<writing, written, technology>> PROVE WriterTyped'
    BY <1>w DEF WriterTyped
<1>1. CASE LoadNfcManager \/ IsSupported
    BY <1>1, <1>s, <1>w DEF LoadNfcManager, IsSupported, nativeVars, SessionsTyped, ReaderTyped
<1>2. ASSUME NEW s \in Sessions, StartReading(s)
      PROVE  SessionsTyped' /\ StopsTyped' /\ WriterTyped'
    <2>1. start' \in [Sessions -> Starts]
        BY <1>2, StartBegins DEF StartReading, SessionsTyped
    <2>2. SessionsTyped'
        BY <1>2, <2>1 DEF StartReading, BeginStart, nativeVars, SessionsTyped, ReaderTyped
    <2> QED
        BY <1>2, <1>s, <1>w, <2>2 DEF StartReading, nativeVars
<1>3. ASSUME NEW s \in Sessions, StartInitialized(s)
      PROVE  SessionsTyped' /\ StopsTyped' /\ WriterTyped'
    <2>1. start' \in [Sessions -> Starts]
        BY <1>3, StartMoves DEF StartInitialized, SessionsTyped
    <2>2. SessionsTyped'
        BY <1>3, <2>1 DEF StartInitialized, SessionsTyped, ReaderTyped
    <2> QED
        BY <1>3, <1>s, <1>w, <2>2 DEF StartInitialized
<1>4. ASSUME NEW s \in Sessions, TagEventRegistered(s) \/ TagEventRefused(s)
      PROVE  SessionsTyped' /\ StopsTyped' /\ WriterTyped'
    <2>1. start' \in [Sessions -> Starts]
        BY <1>4, StartMoves DEF TagEventRegistered, TagEventRefused, SessionsTyped
    <2>2. state' \in NFCState
        BY <1>0, <1>4, ReadingStopped DEF TagEventRegistered, TagEventRefused, NFCState
    <2>3. timer' \in [Sessions -> {None, "pending", "fired"}]
        BY <1>4 DEF TagEventRegistered, TagEventRefused, SessionsTyped
    <2>4. SessionsTyped'
        BY <1>4, <2>1, <2>2, <2>3
        DEF TagEventRegistered, TagEventRefused, nativeVars, SessionsTyped, ReaderTyped
    <2> QED
        BY <1>4, <1>s, <1>w, <2>4 DEF TagEventRegistered, TagEventRefused, nativeVars
<1>5. CASE StopReading
    BY <1>5, <1>w, BeginStopTyped DEF StopReading, BeginStop, SessionsTyped, ReaderTyped
<1>6. CASE Unregistered \/ UnregisterFails \/ Cancelled
    <2>1. StopsTyped'
        <3> DEFINE u == stopping["unregister"]
                   c == stopping["cancel"]
        <3>1. stopping \in [{"unregister", "cancel"} -> Nat] /\ u \in Nat /\ c \in Nat
              /\ u + c <= MaxStops
            BY DEF StopsTyped, Stops
        <3>2. \/ u > 0 /\ stopping' = [stopping EXCEPT !["unregister"] = u - 1, !["cancel"] = c + 1]
              \/ u > 0 /\ stopping' = [stopping EXCEPT !["unregister"] = u - 1]
              \/ c > 0 /\ stopping' = [stopping EXCEPT !["cancel"] = c - 1]
            BY <1>6, <3>1 DEF Unregistered, UnregisterFails, Cancelled
        <3>3. /\ stopping' \in [{"unregister", "cancel"} -> Nat]
              /\ stopping'["unregister"] + stopping'["cancel"] <= MaxStops
            <4> HIDE DEF u, c
            <4> QED
                BY <3>1, <3>2, StopsAssumption DEF u, c
        <3> QED
            BY <3>3 DEF StopsTyped, Stops
    <2>2. state' \in NFCState
        BY <1>0, <1>6, ReadingStopped DEF Unregistered, UnregisterFails, Cancelled
    <2>3. SessionsTyped'
        BY <1>6, <2>2 DEF Unregistered, UnregisterFails, Cancelled, SessionsTyped, ReaderTyped
    <2>4. WriterTyped'
        <3>1. UNCHANGED <<writing, written>> /\ technology' \in {FALSE, technology}
            BY <1>6 DEF Unregistered, UnregisterFails, Cancelled
        <3>2. CASE technology' = FALSE
            BY <3>1, <3>2 DEF WriterTyped
        <3>3. CASE technology' = technology
            BY <1>w, <3>1, <3>3
        <3> QED
            BY <3>1, <3>2, <3>3
    <2> QED
        BY <2>1, <2>3, <2>4
<1>7. ASSUME NEW tag \in Tags, TagDiscovered(tag)
      PROVE  SessionsTyped' /\ StopsTyped' /\ WriterTyped'
    <2>1. report' \in Reports
        BY <1>7, EmitTyped DEF TagDiscovered, SessionsTyped
    <2>2. StopsTyped' /\ disordered' \in BOOLEAN
        BY <1>7, <1>s, BeginStopTyped DEF TagDiscovered, BeginStop, SessionsTyped, ReaderTyped
    <2> QED
        BY <1>7, <1>w, <2>1, <2>2 DEF TagDiscovered, SessionsTyped, ReaderTyped
<1>8. ASSUME NEW s \in Sessions, TimerFires(s)
      PROVE  SessionsTyped' /\ StopsTyped' /\ WriterTyped'
    <2>1. report' \in Reports
        BY <1>8, EmitTyped DEF TimerFires, SessionsTyped
    <2>2. StopsTyped' /\ disordered' \in BOOLEAN
        BY <1>8, <1>s, BeginStopTyped DEF TimerFires, BeginStop, SessionsTyped, ReaderTyped
    <2>3. timer' \in [Sessions -> {None, "pending", "fired"}]
        BY <1>8 DEF TimerFires, SessionsTyped
    <2> QED
        BY <1>8, <1>w, <2>1, <2>2, <2>3 DEF TimerFires, SessionsTyped, ReaderTyped
<1>9. CASE WriteTag \/ WriteAnswered \/ WriteSucceeds \/ WriteFails
    <2>1. WriterTyped'
        <3>1. writing' \in Writings /\ written' \in {None, "success", "failed"}
            BY <1>9 DEF WriteTag, WriteAnswered, WriteSucceeds, WriteFails, WriterTyped, Writings
        <3>2. technology' \in BOOLEAN
            BY <1>9 DEF WriteTag, WriteAnswered, WriteSucceeds, WriteFails, WriterTyped
        <3>3. technology' => written' = "failed" \/ writing' \in {"writing", "tag", "cancelling", "giving up"}
            BY <1>9 DEF WriteTag, WriteAnswered, WriteSucceeds, WriteFails, WriterTyped
        <3> QED
            BY <3>1, <3>2, <3>3 DEF WriterTyped
    <2>2. SessionsTyped'
        BY <1>9 DEF WriteTag, WriteAnswered, WriteSucceeds, WriteFails, SessionsTyped, ReaderTyped
    <2> QED
        BY <1>9, <1>s, <2>1, <2>2 DEF WriteTag, WriteAnswered, WriteSucceeds, WriteFails
<1>10. ASSUME NEW on \in BOOLEAN, SetHCE(on) \/ (Listen(on) /\ UNCHANGED nativeVars)
       PROVE  SessionsTyped' /\ StopsTyped' /\ WriterTyped'
    <2>1. state' \in NFCState
        BY <1>0, <1>10 DEF SetHCE, Listen, NFCState
    <2>2. SessionsTyped'
        BY <1>10, <2>1 DEF SetHCE, Listen, nativeVars, SessionsTyped, ReaderTyped
    <2> QED
        BY <1>10, <1>s, <1>w, <2>2 DEF SetHCE, Listen, nativeVars
<1> QED
    BY <1>1, <1>2, <1>3, <1>4, <1>5, <1>6, <1>7, <1>8, <1>9, <1>10 DEF NativeStep

LEMMA AbortedTyped ==
    ASSUME SessionsTyped PROVE Aborted \in [Sessions -> Scans]
BY DEF SessionsTyped, Aborted, Scans

LEMMA WebTyped ==
    ASSUME SessionsTyped, WebStep, UNCHANGED nativeVars
    PROVE  SessionsTyped'
<1> USE DEF nativeVars
<1>0. state \in NFCState /\ start \in [Sessions -> Starts] /\ Aborted \in [Sessions -> Scans]
    BY AbortedTyped DEF SessionsTyped, ReaderTyped
<1>1. CASE RequestPermission
    <2>1. state' \in NFCState
        BY <1>0, <1>1 DEF RequestPermission, NFCState
    <2> QED
        BY <1>1, <2>1 DEF RequestPermission, webVars, SessionsTyped, ReaderTyped
<1>2. ASSUME StopScan, report' \in Reports PROVE SessionsTyped'
    <2>1. state' \in NFCState
        BY <1>0, <1>2, ReadingStopped DEF StopScan
    <2> QED
        BY <1>0, <1>2, <2>1 DEF StopScan, SessionsTyped, ReaderTyped
<1>3. CASE StopReadingWeb
    BY <1>2, <1>3 DEF StopReadingWeb, SessionsTyped
<1>4. ASSUME NEW s \in Sessions, StartScan(s) PROVE SessionsTyped'
    <2>1. start' \in [Sessions -> Starts]
        BY <1>4, StartBegins DEF StartScan, SessionsTyped
    <2> QED
        BY <1>4, <2>1 DEF StartScan, BeginStart, webVars, SessionsTyped, ReaderTyped
<1>5. ASSUME NEW s \in Sessions, Supported(s) PROVE SessionsTyped'
    <2>1. start' \in [Sessions -> Starts]
        BY <1>5, StartMoves DEF Supported, SessionsTyped
    <2>2. scan' \in [Sessions -> Scans] /\ timer' \in [Sessions -> {None, "pending", "fired"}]
          /\ current' \in Sessions \cup {None}
        BY <1>5 DEF Supported, webVars, SessionsTyped, Scans
    <2> QED
        BY <1>5, <2>1, <2>2 DEF Supported, SessionsTyped, ReaderTyped
<1>6. ASSUME NEW s \in Sessions, ScanStarted(s) \/ ScanRefused(s) PROVE SessionsTyped'
    <2>1. start' \in [Sessions -> Starts]
        BY <1>6, StartMoves DEF ScanStarted, ScanRefused, SessionsTyped
    <2>2. state' \in NFCState
        BY <1>0, <1>6, ReadingStopped DEF ScanStarted, ScanRefused, NFCState
    <2>3. scan' \in [Sessions -> Scans]
        BY <1>6 DEF ScanStarted, ScanRefused, SessionsTyped, Scans
    <2> QED
        BY <1>6, <2>1, <2>2, <2>3 DEF ScanStarted, ScanRefused, SessionsTyped, ReaderTyped
<1>7. ASSUME NEW s \in Sessions, ReadingError(s) PROVE SessionsTyped'
    <2>1. report' \in Reports
        BY <1>7, EmitTyped DEF ReadingError, SessionsTyped
    <2> QED
        BY <1>7, <2>1 DEF ReadingError, webVars, SessionsTyped, ReaderTyped
<1>8. ASSUME NEW s \in Sessions, Timeout(s) PROVE SessionsTyped'
    <2>1. timer' \in [Sessions -> {None, "pending", "fired"}]
        BY <1>8 DEF Timeout, SessionsTyped
    <2> QED
        BY <1>0, <1>8, <2>1 DEF Timeout, SessionsTyped, ReaderTyped
<1>9. ASSUME NEW s \in Sessions, NEW tag \in Tags, TagRead(s, tag) PROVE SessionsTyped'
    <2>1. report' \in Reports
        BY <1>9, EmitTyped DEF TagRead, SessionsTyped
    <2> QED
        BY <1>2, <1>9, <2>1 DEF TagRead, webVars, SessionsTyped, ReaderTyped
<1>10. ASSUME NEW on \in BOOLEAN, Listen(on), UNCHANGED webVars PROVE SessionsTyped'
    BY <1>10 DEF Listen, webVars, SessionsTyped, ReaderTyped
<1> QED
    BY <1>1, <1>3, <1>4, <1>5, <1>6, <1>7, <1>8, <1>9, <1>10 DEF WebStep

LEMMA DevicesInvNext == DevicesInv /\ [Next]_vars => DevicesInv'
<1> SUFFICES ASSUME DevicesInv, [Next]_vars PROVE DevicesInv'
    OBVIOUS
<1>1. ServerInv' /\ WalletInv' /\ ServerTyped' /\ late' \subseteq Consents
    BY ServerInvNext, WalletInvNext, ServerTypedNext, LateNext DEF DevicesInv
<1>2. device' = device
    BY DEF Next, WalletNext, ServerNext, NativeNext, WebNext, vars
<1>3. SessionsTyped /\ StopsTyped /\ WriterTyped
    BY DEF DevicesInv
<1>4. CASE NativeNext
    <2>1. SessionsTyped' /\ StopsTyped' /\ WriterTyped'
        BY <1>3, <1>4, NativeTyped DEF NativeNext
    <2> QED
        BY <1>1, <1>2, <2>1 DEF DevicesInv
<1>5. ASSUME UNCHANGED nativeVars PROVE StopsTyped' /\ WriterTyped'
    BY <1>3, <1>5 DEF nativeVars, StopsTyped, Stops, WriterTyped
<1>6. CASE WebNext
    <2>1. SessionsTyped'
        BY <1>3, <1>6, WebTyped DEF WebNext
    <2> QED
        BY <1>1, <1>2, <1>5, <1>6, <2>1 DEF DevicesInv, WebNext
<1>7. CASE UNCHANGED <<readerVars, nativeVars, webVars>>
    <2>1. SessionsTyped'
        BY <1>3, <1>7 DEF readerVars, nativeVars, webVars, SessionsTyped, ReaderTyped
    <2> QED
        BY <1>1, <1>2, <1>5, <1>7, <2>1 DEF DevicesInv
<1> QED
    BY <1>4, <1>6, <1>7 DEF Next, WalletNext, ServerNext, vars

\* DevicesTyped: whatever number of consents, requests and sessions there is,
\* the four devices stay in the states of their kinds; a writeTag that succeeded
\* does not leave the NDEF technology held, though one that failed may, when
\* giving it up fails too (the catch of writeTag), and the verifier server keeps
\* keys and requests that it has handed out.
THEOREM DevicesTyped == Spec => []TypeOK
<1>1. DevicesInv => TypeOK
    <2> SUFFICES ASSUME DevicesInv PROVE TypeOK
        OBVIOUS
    <2>1. Stops \in 0 .. MaxStops
        BY StopsAssumption DEF DevicesInv, StopsTyped, Stops
    <2>2. verified \in [Requests -> Nat]
        BY DEF DevicesInv, ServerInv
    <2>3. scan \in [Sessions -> {None, "asked", "live", "ended"}]
        BY DEF DevicesInv, SessionsTyped, Scans
    <2>4. /\ start \in [Sessions -> [at : {"new", "checking", "scanning", "returned", "thrown"},
                                    timeout : BOOLEAN, keepAlive : BOOLEAN]]
          /\ signing \in [Consents -> [at : {"idle", "returned", "thrown"} \cup Pending,
                                       answer : PayloadStates,
                                       why : {"none", "refused", "request failed", "timed out"}]]
        BY DEF DevicesInv, SessionsTyped, ReaderTyped, Starts, WalletInv, Signings, Places, Reasons
    <2> QED
        BY <2>1, <2>2, <2>3, <2>4
        DEF DevicesInv, WalletInv, ServerTyped, SessionsTyped, ReaderTyped, WriterTyped,
            Writings, TypeOK
<1> QED
    BY <1>1, DevicesInvInit, DevicesInvNext, PTL DEF Spec
=============================================================================
