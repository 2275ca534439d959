-------------------------- MODULE StatePersistence --------------------------
(***************************************************************************)
(* StateManager over FileSystemStorage: the state that the managers share, *)
(* the file it is saved to, and the life of an AgilityHeadless instance    *)
(* from initialize() to reset() or the end of the process.                 *)
(*                                                                         *)
(* A state is the set of the updates that went into it.  Which array an    *)
(* update replaces is the business of the managers (HeadlessState); here   *)
(* it matters only whether it is still there.  JavaScript runs a stretch   *)
(* between two awaits without interruption; the mkdir, open, write, read   *)
(* and unlink of several calls are carried out in any order.               *)
(***************************************************************************)
CONSTANTS
    Update,   \* updates of the state, each asked for once
    Call,     \* slots for calls that overlap
    None,     \* no call
    Faults    \* what may happen: "crash" of the process, "io" errors

ASSUME NoneAssumption == None \notin Call
ASSUME FaultsAssumption == Faults \subseteq {"crash", "io"}

VARIABLES
    mem,           \* StateManager.state
    initialized,   \* AgilityHeadless.initialized
    file,          \* agility_state.json
    call,          \* the calls in flight
    used,          \* updates asked for so far
    lone,          \* history: the call in flight that has had the instance to itself
    sure,          \* history: updates on file since a call that had it to itself
    gone           \* history: updates that such a reset() removed

vars == <<mem, initialized, file, call, used, lone, sure, gone>>

\* "empty": opened for writing and not yet written; "torn": the end of a
\* longer text shows behind a shorter one.
File == [kind : {"absent", "empty", "whole", "torn"}, has : SUBSET Update]

Absent   == [kind |-> "absent", has |-> {}]
Empty    == [kind |-> "empty", has |-> {}]
Torn     == [kind |-> "torn", has |-> {}]
Whole(s) == [kind |-> "whole", has |-> s]

(* A call, the file operation it waits for, and what it will write: `own`  *)
(* while the object it is to save is still StateManager.state, `data` from *)
(* then on, and `linked` while the file it has opened is in the directory. *)
CallRec == [kind   : {"none", "initialize", "update", "reset"},
            stage  : {"idle", "read", "called", "mkdir", "open", "write", "unlink"},
            own    : BOOLEAN,
            data   : SUBSET Update,
            linked : BOOLEAN]

Idle == [kind |-> "none", stage |-> "idle", own |-> FALSE, data |-> {}, linked |-> FALSE]

Init ==
    /\ mem = {}
    /\ initialized = FALSE
    /\ file = Absent
    /\ call = [c \in Call |-> Idle]
    /\ used = {}
    /\ lone = None
    /\ sure = {}
    /\ gone = {}

-----------------------------------------------------------------------------
(* Which calls overlap *)

Alone == \A c \in Call : call[c] = Idle

Starts(c) ==
    /\ call[c] = Idle
    /\ lone' = IF Alone THEN c ELSE None
    /\ sure' = IF Alone THEN sure ELSE {}
    /\ gone' = IF Alone THEN gone ELSE {}

(* StateManager.state becomes another object, and the calls that are about *)
(* to save the old one keep it.                                            *)
Replaced(c, rec) ==
    [k \in Call |-> IF k = c THEN rec
                    ELSE IF call[k].stage = "mkdir" /\ call[k].own
                         THEN [call[k] EXCEPT !.own = FALSE, !.data = mem]
                         ELSE call[k]]

\* persist(), up to the mkdir of ensureDirectory.
Persisting(kind) == [kind |-> kind, stage |-> "mkdir", own |-> TRUE,
                     data |-> {}, linked |-> FALSE]

-----------------------------------------------------------------------------
(* The calls *)

(* initialize(), unless it has been done; nothing stops a second one while *)
(* the first is on its way.                                                *)
Initialize(c) ==
    /\ ~initialized
    /\ Starts(c)
    /\ call' = [call EXCEPT ![c] = [Idle EXCEPT !.kind = "initialize", !.stage = "read"]]
    /\ UNCHANGED <<mem, initialized, file, used>>

\* Fault: whatever load() throws counts as "no file".
LoadLenient(c) ==
    /\ call[c].stage = "read"
    /\ mem' = file.has
    /\ call' = Replaced(c, Persisting("initialize"))
    /\ UNCHANGED <<initialized, file, used, lone, sure, gone>>

(* load() answers with the state on file, or null for no file, and the     *)
(* result replaces the state and is saved.                                 *)
Load(c) ==
    /\ call[c].stage = "read"
    /\ file.kind \in {"whole", "absent"}
    /\ mem' = file.has
    /\ call' = Replaced(c, Persisting("initialize"))
    /\ UNCHANGED <<initialized, file, used, lone, sure, gone>>

(* JSON.parse throws on an empty or a torn file, and readFile may fail.    *)
LoadThrows(c) ==
    /\ call[c].stage = "read"
    /\ file.kind \in {"empty", "torn"} \/ "io" \in Faults
    /\ call' = [call EXCEPT ![c] = Idle]
    /\ lone' = None
    /\ UNCHANGED <<mem, initialized, file, used, sure, gone>>

(* A call that changes the state is let pass by ensureInitialized()...     *)
EnsureInitialized(c) ==
    /\ initialized
    /\ Starts(c)
    /\ call' = [call EXCEPT ![c] = [Idle EXCEPT !.kind = "update", !.stage = "called"]]
    /\ UNCHANGED <<mem, initialized, file, used>>

(* ...and returns without a change ("not found"), or reaches               *)
(* updateIdentityState, updateDeckState or updateGrantState, maybe long    *)
(* after and with a reset() in between: the state is changed at once.      *)
NothingToUpdate(c) ==
    /\ call[c].stage = "called"
    /\ call' = [call EXCEPT ![c] = Idle]
    /\ lone' = None
    /\ UNCHANGED <<mem, initialized, file, used, sure, gone>>

UpdateState(c, u) ==
    /\ call[c].stage = "called"
    /\ u \notin used
    /\ used' = used \cup {u}
    /\ mem' = mem \cup {u}
    /\ call' = [call EXCEPT ![c] = Persisting("update")]
    /\ UNCHANGED <<initialized, file, lone, sure, gone>>

(* save() once the directory is there: the state is turned into text only  *)
(* now, with whatever came into it since.                                  *)
Serialise(c) ==
    /\ call[c].stage = "mkdir"
    /\ call' = [call EXCEPT ![c] =
           [@ EXCEPT !.stage = "open", !.own = FALSE,
                     !.data = IF call[c].own THEN mem ELSE call[c].data]]
    /\ UNCHANGED <<mem, initialized, file, used, lone, sure, gone>>

\* Fault: the file is opened as it is.
OpenInPlace(c) ==
    /\ call[c].stage = "open"
    /\ file' = IF file = Absent THEN Empty ELSE file
    /\ call' = [call EXCEPT ![c] = [@ EXCEPT !.stage = "write", !.linked = TRUE]]
    /\ UNCHANGED <<mem, initialized, used, lone, sure, gone>>

(* writeFile opens the file, which empties it or creates it...             *)
Open(c) ==
    /\ call[c].stage = "open"
    /\ file' = Empty
    /\ call' = [call EXCEPT ![c] = [@ EXCEPT !.stage = "write", !.linked = TRUE]]
    /\ UNCHANGED <<mem, initialized, used, lone, sure, gone>>

(* What is on file after `data` is written at its beginning: the end of a  *)
(* text that is already there shows if that one is longer.                 *)
Written(data) ==
    IF file \in {Empty, Whole(data)} THEN {Whole(data)} ELSE {Whole(data), Torn}

(* ...and writes it, unless reset() has unlinked what it opened.  Then the *)
(* call returns, and initialize() lets the other calls pass from now on.   *)
Write(c) ==
    /\ call[c].stage = "write"
    /\ IF call[c].linked THEN file' \in Written(call[c].data) ELSE UNCHANGED file
    /\ initialized' = (initialized \/ call[c].kind = "initialize")
    /\ call' = [call EXCEPT ![c] = Idle]
    /\ lone' = None
    /\ sure' = IF lone = c THEN sure \cup mem ELSE sure
    /\ UNCHANGED <<mem, used, gone>>

\* Fault: a save that failed is forgotten half way.
SaveThrowsHeld(c) ==
    /\ "io" \in Faults
    /\ call[c].stage \in {"mkdir", "open", "write"}
    /\ call' = [call EXCEPT ![c] = [@ EXCEPT !.stage = "idle"]]
    /\ lone' = None
    /\ UNCHANGED <<mem, initialized, file, used, sure, gone>>

(* mkdir, open or write fails: the call rejects, and what it put into the  *)
(* state in memory stays there.                                            *)
SaveThrows(c) ==
    /\ "io" \in Faults
    /\ call[c].stage \in {"mkdir", "open", "write"}
    /\ call' = [call EXCEPT ![c] = Idle]
    /\ lone' = None
    /\ UNCHANGED <<mem, initialized, file, used, sure, gone>>

(* reset(): the default state at once, then the file.                      *)
Reset(c) ==
    /\ initialized
    /\ call[c] = Idle
    /\ lone' = IF Alone THEN c ELSE None
    /\ sure' = {}
    /\ gone' = IF Alone THEN gone ELSE {}
    /\ mem' = {}
    /\ call' = Replaced(c, [Idle EXCEPT !.kind = "reset", !.stage = "unlink", !.data = mem])
    /\ UNCHANGED <<initialized, file, used>>

\* What is written to the open files of a file that is unlinked is lost.
Unlinked(c) ==
    [k \in Call |-> IF k = c THEN Idle
                    ELSE IF call[k].stage = "write" THEN [call[k] EXCEPT !.linked = FALSE]
                    ELSE call[k]]

\* Fault: delete() leaves the file there.
UnlinkSkipped(c) ==
    /\ call[c].stage = "unlink"
    /\ initialized' = FALSE
    /\ call' = Unlinked(c)
    /\ lone' = None
    /\ gone' = IF lone = c THEN gone \cup call[c].data \cup file.has ELSE gone
    /\ UNCHANGED <<mem, file, used, sure>>

(* delete() is done, the adapters disconnect, and calls are turned away    *)
(* until the next initialize().                                            *)
Unlink(c) ==
    /\ call[c].stage = "unlink"
    /\ file' = Absent
    /\ initialized' = FALSE
    /\ call' = Unlinked(c)
    /\ lone' = None
    /\ gone' = IF lone = c THEN gone \cup call[c].data \cup file.has ELSE gone
    /\ UNCHANGED <<mem, used, sure>>

UnlinkThrows(c) ==
    /\ "io" \in Faults
    /\ call[c].stage = "unlink"
    /\ call' = [call EXCEPT ![c] = Idle]
    /\ lone' = None
    /\ UNCHANGED <<mem, initialized, file, used, sure, gone>>

(* The process ends, between any two steps, and a new instance is made.    *)
Crash ==
    /\ "crash" \in Faults
    /\ mem' = {}
    /\ initialized' = FALSE
    /\ call' = [c \in Call |-> Idle]
    /\ lone' = None
    /\ UNCHANGED <<file, used, sure, gone>>

Next ==
    \/ \E c \in Call : Initialize(c) \/ Load(c) \/ LoadThrows(c)
    \/ \E c \in Call : EnsureInitialized(c) \/ NothingToUpdate(c)
    \/ \E c \in Call, u \in Update : UpdateState(c, u)
    \/ \E c \in Call : Serialise(c) \/ Open(c) \/ Write(c) \/ SaveThrows(c)
    \/ \E c \in Call : Reset(c) \/ Unlink(c) \/ UnlinkThrows(c)
    \/ Crash

Spec == Init /\ [][Next]_vars

-----------------------------------------------------------------------------
(* Properties *)

TypeOK ==
    /\ mem \subseteq Update
    /\ initialized \in BOOLEAN
    /\ file \in File
    /\ call \in [Call -> CallRec]
    /\ \A c \in Call : call[c].stage = "idle" => call[c] = Idle
    /\ used \subseteq Update
    /\ lone \in Call \cup {None}
    /\ sure \subseteq Update
    /\ gone \subseteq Update

(* What a call that had the instance to itself got onto the file is never  *)
(* lost in silence: as long as callers wait for one call before the next,  *)
(* neither a crash inside a later save nor a failed one brings up an       *)
(* instance without it.  (It may bring up none: initialize() then throws.) *)
NoSilentLoss == initialized => sure \subseteq mem

(* What such a reset() removed does not come back with a later instance.   *)
ResetForgets == initialized => gone \cap mem = {}

(* A file that does not parse although nothing failed or crashed is the    *)
(* work of overlapping saves.                                              *)
TornNeedsOverlap ==
    [][file.kind # "torn" /\ file'.kind = "torn" => lone = None]_vars

=============================================================================
