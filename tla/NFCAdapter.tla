----------------------------- MODULE NFCAdapter -----------------------------
(***************************************************************************)
(* agility-nfc/core/NFCAdapter.ts: what the platform adapters inherit. One *)
(* adapter object serves every part of an app; each call of startReading   *)
(* is a session, with its options and its own place in the code.           *)
(***************************************************************************)
EXTENDS Naturals

CONSTANT Sessions

None == "none"
ASSUME SessionsAssumption == None \notin Sessions

VARIABLES
    available,  \* NfcManager was loaded; NDEFReader is in window
    state,      \* NFCState: the fields that the methods assign
    start,      \* where each startReading is, and its options
    timer,      \* the setTimeout of each session
    listening,  \* there is a callback in tagCallbacks
    report,     \* what the callbacks were told last
    disordered  \* history: something overlapped or failed; see the adapters

readerVars == <<available, state, start, timer, listening, report, disordered>>

NFCState == [isReading : BOOLEAN, mode : {None, "reader"},
             isHCEActive : BOOLEAN, permissionGranted : BOOLEAN]
Reports == {None, "payload", "format_error", "io_error", "timeout"}

\* A tag carries an Agility payload, or something else, or an Agility payload
\* that does not decode.
Tags == {"agility", "foreign", "damaged"}
TagReport(tag) == IF tag = "agility" THEN "payload" ELSE "format_error"

ReaderInit ==
    /\ state = [isReading |-> FALSE, mode |-> None,
                isHCEActive |-> FALSE, permissionGranted |-> FALSE]
    /\ start = [s \in Sessions |-> [at |-> "new", timeout |-> FALSE, keepAlive |-> FALSE]]
    /\ timer = [s \in Sessions |-> None]
    /\ listening = FALSE /\ report = None /\ disordered = FALSE

Starting(s) == start[s].at \in {"checking", "scanning"}
StartsInFlight == {s \in Sessions : Starting(s)}

Reach(s, place) == start' = [start EXCEPT ![s].at = place]

\* emitTagDiscovered
Emit(result) == report' = IF listening THEN result ELSE report

Reading == [state EXCEPT !.isReading = TRUE, !.mode = "reader"]
Stopped == [state EXCEPT !.isReading = FALSE, !.mode = None]

\* onTagDiscovered, offTagDiscovered
Listen(on) ==
    /\ listening # on
    /\ listening' = on
    /\ UNCHANGED <<available, state, start, timer, report, disordered>>

\* startReading begins; its first await is the check for support or the start
\* of the NFC manager.
BeginStart(s) ==
    /\ start[s].at = "new"
    /\ \E timeout, keepAlive \in BOOLEAN :
        start' = [start EXCEPT ![s] =
            [at |-> IF available THEN "checking" ELSE "thrown",
             timeout |-> timeout, keepAlive |-> keepAlive]]
    /\ UNCHANGED <<available, state, timer, listening, report>>
=============================================================================
