---------------------------- MODULE XamanSigner ----------------------------
(***************************************************************************)
(* src/signers/XamanSigner.ts: a consent is put to the user as a payload   *)
(* of the Xaman service, which is asked again and again what became of it. *)
(* The service, the wallet and the user act on their own.                  *)
(***************************************************************************)
CONSTANT Consents

VARIABLES
    signing,   \* what signConsent is doing for each consent
    payload,   \* what became of the payload, as the service knows it
    late,      \* consents whose timeoutMs have passed
    told       \* history: consents of which an answer with resolved_at arrived

xamanVars == <<signing, payload, late, told>>

PayloadStates == {"none", "open", "signed", "rejected", "expired"}
Pending == {"creating", "asking", "sleeping"}

XamanInit ==
    /\ signing = [k \in Consents |-> [at |-> "idle", answer |-> "none", why |-> "none"]]
    /\ payload = [k \in Consents |-> "none"]
    /\ late = {} /\ told = {}

At(k, place) == signing[k].at = place
Goes(k, place) == signing' = [signing EXCEPT ![k] = [at |-> place, answer |-> "none", why |-> "none"]]
Throws(k, reason) == signing' = [signing EXCEPT ![k] = [at |-> "thrown", answer |-> "none", why |-> reason]]

SignConsent(k) ==
    /\ At(k, "idle")
    /\ Goes(k, "creating")
    /\ UNCHANGED <<payload, late, told>>

\* The POST. The service may have made the payload although its answer is an
\* error or is lost: nobody waits for that payload then.
CreatePayload(k) ==
    /\ At(k, "creating")
    /\ \/ payload' = [payload EXCEPT ![k] = "open"] /\ Goes(k, "asking")
       \/ payload' = [payload EXCEPT ![k] = "open"] /\ Throws(k, "request failed")
       \/ UNCHANGED payload /\ Throws(k, "request failed")
    /\ UNCHANGED <<late, told>>

\* The service reads the state of the payload for one GET.
PayloadRead(k) ==
    /\ At(k, "asking") /\ signing[k].answer = "none"
    /\ signing' = [signing EXCEPT ![k].answer = payload[k]]
    /\ UNCHANGED <<payload, late, told>>

\* Whether meta has resolved_at, the only field that waitForSignature looks at:
\* the type of meta leaves it out freely, of a payload that was decided too.
Resolved(answer) == IF answer \in {"none", "open"} THEN {FALSE} ELSE BOOLEAN

\* The check of result.signed is forgotten.
Fault_AnyResolved(k) ==
    /\ signing[k].answer # "none"
    /\ \E resolved \in Resolved(signing[k].answer) :
        IF resolved THEN Goes(k, "returned") /\ told' = told \cup {k}
                    ELSE Goes(k, "sleeping") /\ UNCHANGED told
    /\ UNCHANGED <<payload, late>>

\* The answer to the GET arrives: waitForSignature returns what has a
\* resolved_at, and signConsent throws unless it is signed; what has none is
\* asked for again, even though it is signed.
PayloadResult(k) ==
    /\ signing[k].answer # "none"
    /\ \E resolved \in Resolved(signing[k].answer) :
        /\ told' = IF resolved THEN told \cup {k} ELSE told
        /\ \/ resolved /\ signing[k].answer = "signed" /\ Goes(k, "returned")
           \/ resolved /\ signing[k].answer # "signed" /\ Throws(k, "refused")
           \/ ~resolved /\ Goes(k, "sleeping")
    /\ UNCHANGED <<payload, late>>

\* One GET without an answer, or with an error, ends the signing.
PayloadResultFails(k) ==
    /\ At(k, "asking")
    /\ Throws(k, "request failed")
    /\ UNCHANGED <<payload, late, told>>

\* The loop asks again without looking at the time.
Fault_PollForever(k) ==
    /\ At(k, "sleeping")
    /\ Goes(k, "asking")
    /\ UNCHANGED <<payload, late, told>>

\* pollInterval has passed; the time is looked at before every GET but the first.
Poll(k) ==
    /\ At(k, "sleeping")
    /\ IF k \in late THEN Throws(k, "timed out") ELSE Goes(k, "asking")
    /\ UNCHANGED <<payload, late, told>>

DeadlinePasses(k) ==
    /\ signing[k].at \in {"asking", "sleeping"}
    /\ late' = late \cup {k}
    /\ UNCHANGED <<signing, payload, told>>

\* The user decides, before or after the signer has given up, or never does.
UserDecides(k) ==
    /\ payload[k] = "open"
    /\ \E decision \in {"signed", "rejected", "expired"} :
        payload' = [payload EXCEPT ![k] = decision]
    /\ UNCHANGED <<signing, late, told>>

XamanStep(k) ==
    \/ SignConsent(k) \/ CreatePayload(k) \/ PayloadRead(k) \/ PayloadResult(k)
    \/ PayloadResultFails(k) \/ Poll(k) \/ DeadlinePasses(k) \/ UserDecides(k)

\* Requests are answered or fail, timers fire and time passes; the user need
\* not do anything.
XamanFairness(k) ==
    /\ WF_xamanVars(CreatePayload(k))
    /\ WF_xamanVars(PayloadRead(k) \/ PayloadResultFails(k))
    /\ WF_xamanVars(PayloadResult(k))
    /\ WF_xamanVars(Poll(k))
    /\ WF_xamanVars(DeadlinePasses(k))
=============================================================================
