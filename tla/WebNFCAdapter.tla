--------------------------- MODULE WebNFCAdapter ---------------------------
(***************************************************************************)
(* agility-nfc/web/WebNFCAdapter.ts: a session is the scan of a reader of  *)
(* its own, ended through its own abort controller; the adapter keeps the  *)
(* reader and the controller of the session that came last.                *)
(***************************************************************************)
EXTENDS NFCAdapter

VARIABLES
    current,  \* the session whose reader and controller the adapter keeps
    scan      \* the scan of each session's reader

webVars == <<current, scan>>

WebInit == current = None /\ scan = [s \in Sessions |-> None]

Live == {s \in Sessions : scan[s] = "live"}

\* requestPermission: the scan is waited for, and whether it was refused is
\* not looked at.
RequestPermission ==
    /\ available /\ ~state.permissionGranted
    /\ state' = [state EXCEPT !.permissionGranted = TRUE]
    /\ UNCHANGED <<available, start, timer, listening, report, disordered, webVars>>

StartScan(s) ==
    /\ BeginStart(s)
    /\ disordered' = (disordered \/ StartsInFlight # {})
    /\ UNCHANGED webVars

\* isSupported has returned. The timer runs from here, before the user has
\* allowed the scan.
Supported(s) ==
    /\ start[s].at = "checking"
    /\ IF state.isReading
       THEN Reach(s, "returned") /\ UNCHANGED <<timer, webVars>>
       ELSE /\ Reach(s, "scanning")
            /\ current' = s /\ scan' = [scan EXCEPT ![s] = "asked"]
            /\ timer' = [timer EXCEPT ![s] = IF start[s].timeout THEN "pending" ELSE None]
    /\ UNCHANGED <<available, state, listening, report, disordered>>

ScanStarted(s) ==
    /\ start[s].at = "scanning" /\ scan[s] = "asked"
    /\ scan' = [scan EXCEPT ![s] = "live"]
    /\ state' = Reading
    /\ Reach(s, "returned")
    /\ UNCHANGED <<available, timer, listening, report, disordered, current>>

\* Refused by the user or the browser, or aborted.
ScanRefused(s) ==
    /\ start[s].at = "scanning"
    /\ scan' = [scan EXCEPT ![s] = "ended"]
    /\ state' = [state EXCEPT !.isReading = FALSE]
    /\ Reach(s, "thrown")
    /\ UNCHANGED <<available, timer, listening, report, disordered, current>>

Aborted == IF current = None THEN scan ELSE [scan EXCEPT ![current] = "ended"]

\* The reading is stopped by its state alone.
Fault_StopWithoutAbort ==
    /\ scan' = scan /\ current' = None
    /\ state' = Stopped
    /\ UNCHANGED <<available, start, timer, listening, disordered>>

\* stopReading has no await: a call of it is over when it returns.
StopScan ==
    /\ scan' = Aborted /\ current' = None
    /\ state' = Stopped
    /\ UNCHANGED <<available, start, timer, listening, disordered>>

StopReadingWeb == StopScan /\ UNCHANGED report

\* The reader's onreading. A reader that was replaced goes on reading.
TagRead(s, tag) ==
    /\ s \in Live
    /\ Emit(TagReport(tag))
    /\ IF start[s].keepAlive
       THEN UNCHANGED <<available, state, start, timer, listening, disordered, webVars>>
       ELSE StopScan

ReadingError(s) ==
    /\ s \in Live
    /\ Emit("io_error")
    /\ UNCHANGED <<available, state, start, timer, listening, disordered, webVars>>

\* The timer aborts the controller that the adapter keeps by now, and neither
\* changes the state nor reports anything.
Timeout(s) ==
    /\ timer[s] = "pending"
    /\ timer' = [timer EXCEPT ![s] = "fired"]
    /\ scan' = Aborted
    /\ disordered' = (disordered \/ current \in Live)
    /\ UNCHANGED <<available, state, start, listening, report, current>>

WebStep ==
    \/ RequestPermission \/ StopReadingWeb
    \/ \E s \in Sessions : \/ StartScan(s) \/ Supported(s) \/ ScanStarted(s)
                           \/ ScanRefused(s) \/ ReadingError(s) \/ Timeout(s)
                           \/ \E tag \in Tags : TagRead(s, tag)
    \/ \E on \in BOOLEAN : Listen(on) /\ UNCHANGED webVars
=============================================================================
