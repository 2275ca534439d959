------------------------- MODULE ReactNativeAdapter -------------------------
(***************************************************************************)
(* agility-nfc/native/ReactNativeAdapter.ts: every call of NfcManager is   *)
(* awaited, and what it asked for has happened when the answer arrives.    *)
(* Answers arrive in any order.                                            *)
(***************************************************************************)
EXTENDS NFCAdapter

CONSTANT MaxStops  \* bound: how many calls of stopReading are under way at once

ASSUME StopsAssumption == MaxStops \in Nat

VARIABLES
    initialized,  \* NfcManager.start() has returned
    listener,     \* the session whose function is the event listener
    registered,   \* NfcManager delivers tag events
    stopping,     \* how many stopReading calls await each of their two answers
    writing,      \* where writeTag is
    technology,   \* the NDEF technology that writeTag asked for is held
    written       \* the result of the last writeTag

nativeVars == <<initialized, listener, registered, stopping, writing, technology, written>>
writer == <<writing, technology, written>>

NativeInit ==
    /\ initialized = FALSE /\ listener = None /\ registered = FALSE
    /\ stopping = [stage \in {"unregister", "cancel"} |-> 0]
    /\ writing = "idle" /\ technology = FALSE /\ written = None

Stops == stopping["unregister"] + stopping["cancel"]

\* The import of react-native-nfc-manager, begun by the constructor.
LoadNfcManager ==
    /\ ~available /\ available' = TRUE
    /\ UNCHANGED <<state, start, timer, listening, report, disordered, nativeVars>>

\* ensureInitialized, for isSupported, isEnabled and requestPermission.
IsSupported ==
    /\ available /\ ~initialized /\ initialized' = TRUE
    /\ UNCHANGED <<readerVars, listener, registered, stopping, writer>>

StartReading(s) ==
    /\ BeginStart(s)
    /\ disordered' = (disordered \/ StartsInFlight # {} \/ Stops > 0)
    /\ UNCHANGED nativeVars

\* A session that finds another one reading returns without a word; otherwise
\* its function takes the place of the listener before it is registered.
StartInitialized(s) ==
    /\ start[s].at = "checking"
    /\ \/ /\ initialized' = TRUE
          /\ IF state.isReading
             THEN Reach(s, "returned") /\ UNCHANGED listener
             ELSE Reach(s, "scanning") /\ listener' = s
       \/ ~initialized /\ Reach(s, "thrown") /\ UNCHANGED <<initialized, listener>>
    /\ UNCHANGED <<available, state, timer, listening, report, disordered,
                   registered, stopping, writer>>

\* registerTagEvent answers.
TagEventRegistered(s) ==
    /\ start[s].at = "scanning"
    /\ registered' = TRUE /\ state' = Reading
    /\ Reach(s, "returned")
    /\ timer' = [timer EXCEPT ![s] = IF start[s].timeout THEN "pending" ELSE None]
    /\ UNCHANGED <<available, listening, report, disordered,
                   initialized, listener, stopping, writer>>

TagEventRefused(s) ==
    /\ start[s].at = "scanning"
    /\ state' = [state EXCEPT !.isReading = FALSE]
    /\ Reach(s, "thrown")
    /\ UNCHANGED <<available, timer, listening, report, disordered, nativeVars>>

\* A call of stopReading, by the app, by a tag or by a timer: it asks for the
\* unregistration and runs on until that is answered.
BeginStop ==
    /\ Stops < MaxStops
    /\ stopping' = [stopping EXCEPT !["unregister"] = @ + 1]
    /\ disordered' = (disordered \/ StartsInFlight # {})

StopReading ==
    /\ available /\ BeginStop
    /\ UNCHANGED <<available, state, start, timer, listening, report,
                   initialized, listener, registered, writer>>

\* The session is ended without asking for the unregistration.
Fault_StopOnlyCancels ==
    /\ stopping["unregister"] > 0
    /\ stopping' = [stopping EXCEPT !["unregister"] = @ - 1, !["cancel"] = @ + 1]
    /\ UNCHANGED <<readerVars, initialized, listener, registered, writer>>

Unregistered ==
    /\ stopping["unregister"] > 0
    /\ stopping' = [stopping EXCEPT !["unregister"] = @ - 1, !["cancel"] = @ + 1]
    /\ registered' = FALSE
    /\ UNCHANGED <<readerVars, initialized, listener, writer>>

\* An error is ignored, and the rest of the try block with it: the events may
\* still be registered.
UnregisterFails ==
    /\ stopping["unregister"] > 0
    /\ stopping' = [stopping EXCEPT !["unregister"] = @ - 1]
    /\ state' = Stopped /\ disordered' = TRUE
    /\ UNCHANGED <<available, start, timer, listening, report,
                   initialized, listener, registered, writer>>

\* cancelTechnologyRequest also takes the technology from a writeTag.
Cancelled ==
    /\ stopping["cancel"] > 0
    /\ stopping' = [stopping EXCEPT !["cancel"] = @ - 1]
    /\ state' = Stopped
    /\ technology' \in {FALSE, technology}   \* a failure is ignored
    /\ UNCHANGED <<available, start, timer, listening, report, disordered,
                   initialized, listener, registered, writing, written>>

\* The listener reports the tag and stops the reading, unless its own options
\* say otherwise; it is not asked who is reading.
TagDiscovered(tag) ==
    /\ registered /\ listener # None
    /\ Emit(TagReport(tag))
    /\ IF start[listener].keepAlive THEN UNCHANGED <<stopping, disordered>> ELSE BeginStop
    /\ UNCHANGED <<available, state, start, timer, listening,
                   initialized, listener, registered, writer>>

\* Nothing clears a timer: it ends whatever session is reading when it fires.
TimerFires(s) ==
    /\ timer[s] = "pending"
    /\ timer' = [timer EXCEPT ![s] = "fired"]
    /\ IF state.isReading THEN BeginStop /\ Emit("timeout")
       ELSE UNCHANGED <<stopping, disordered, report>>
    /\ UNCHANGED <<available, state, start, listening,
                   initialized, listener, registered, writer>>

-----------------------------------------------------------------------------
(* writeTag: ensureInitialized, requestTechnology, the encoding and the     *)
(* write, getTag, cancelTechnologyRequest                                   *)

WriteTag ==
    /\ writing = "idle"
    /\ IF available THEN writing' = "initializing" /\ UNCHANGED written
       ELSE written' = "failed" /\ UNCHANGED writing
    /\ UNCHANGED <<readerVars, initialized, listener, registered, stopping, technology>>

WriteAnswered ==
    /\ \/ /\ writing = "initializing" /\ writing' = "requesting"
          /\ initialized' = TRUE /\ UNCHANGED technology
       \/ /\ writing = "requesting" /\ writing' = "writing"
          /\ technology' = TRUE /\ UNCHANGED initialized
       \/ /\ writing = "writing" /\ technology /\ writing' = "tag"
          /\ UNCHANGED <<initialized, technology>>
       \/ /\ writing = "tag" /\ writing' = "cancelling"
          /\ UNCHANGED <<initialized, technology>>
    /\ UNCHANGED <<readerVars, listener, registered, stopping, written>>

\* The result does not wait for the technology to be given up.
Fault_KeepTechnology ==
    /\ writing = "cancelling" /\ writing' = "idle"
    /\ written' = "success" /\ UNCHANGED technology
    /\ UNCHANGED <<readerVars, initialized, listener, registered, stopping>>

WriteSucceeds ==
    /\ writing = "cancelling" /\ writing' = "idle"
    /\ technology' = FALSE /\ written' = "success"
    /\ UNCHANGED <<readerVars, initialized, listener, registered, stopping>>

\* An error of start() is thrown to the caller; a later one, the payload too
\* long for a tag among them, is a result, after the technology was given up or
\* not: the failure of that call is swallowed. The last call may fail although
\* the tag was written.
WriteFails ==
    /\ \/ /\ writing = "initializing" /\ ~initialized
          /\ writing' = "idle" /\ UNCHANGED <<technology, written>>
       \/ /\ writing \in {"requesting", "writing", "tag", "cancelling"}
          /\ writing' = "giving up" /\ UNCHANGED <<technology, written>>
       \/ /\ writing = "giving up" /\ writing' = "idle"
          /\ technology' \in {FALSE, technology} /\ written' = "failed"
    /\ UNCHANGED <<readerVars, initialized, listener, registered, stopping>>

\* enableHCE and disableHCE only note the mode and report it.
SetHCE(active) ==
    /\ state.isHCEActive # active
    /\ state' = [state EXCEPT !.isHCEActive = active]
    /\ UNCHANGED <<available, start, timer, listening, report, disordered, nativeVars>>

NativeStep ==
    \/ LoadNfcManager \/ IsSupported \/ StopReading
    \/ Unregistered \/ UnregisterFails \/ Cancelled
    \/ WriteTag \/ WriteAnswered \/ WriteSucceeds \/ WriteFails
    \/ \E s \in Sessions : \/ StartReading(s) \/ StartInitialized(s) \/ TimerFires(s)
                           \/ TagEventRegistered(s) \/ TagEventRefused(s)
    \/ \E tag \in Tags : TagDiscovered(tag)
    \/ \E on \in BOOLEAN : SetHCE(on) \/ (Listen(on) /\ UNCHANGED nativeVars)
=============================================================================
