----------------------------- MODULE ReplayStore -----------------------------
(***************************************************************************)
(* The replay stores of the verifiers that run in one data directory: each *)
(* process has a map of its own, loaded when the process starts, and all   *)
(* of them write the same data/replay-cache.json, whole and without a lock.*)
(*                                                                         *)
(* A replay key `${prover.id}:${requestHash}` is the request: the local    *)
(* prover has one id and the hash of a request tells requests apart.  An   *)
(* entry is its expiresAt, in seconds; NoEntry, which is before any time,  *)
(* stands for a key that is not in the map.  Every method is synchronous,  *)
(* so each is one step, at one reading of the clock.  `dirty` is left out: *)
(* it is set before every call of save().                                  *)
(***************************************************************************)
EXTENDS Integers

CONSTANTS
    Proc,      \* verifier processes
    Req,       \* proof requests
    Instants,  \* the times, in ms, at which something happens
    Faults     \* what may happen: "restart", "crash", "save", "clear"

ASSUME InstantsAssumption == Instants \subseteq Nat
ASSUME FaultsAssumption == Faults \subseteq {"restart", "crash", "save", "clear"}

VARIABLES
    now,     \* Date.now(), the clock that the processes share
    cache,   \* cache[p]: the map of process p
    file,    \* replay-cache.json
    forgot,  \* history: keys that p lost or shortened before they lapsed,
             \* and has not added since
    writer   \* history: the process whose map the file was written from last

storeVars == <<cache, file, forgot, writer>>

NoEntry == -1
NoProc  == "nobody"

ASSUME ProcAssumption == NoProc \notin Proc

Entries == [Req -> {NoEntry} \cup Nat]
Nothing == [k \in Req |-> NoEntry]

\* Math.floor(ms / 1000)
Sec(ms) == ms \div 1000

Later(a, b) == IF a >= b THEN a ELSE b

StoreInit ==
    /\ cache = [p \in Proc |-> Nothing]
    /\ file = Nothing
    /\ forgot = [p \in Proc |-> {}]
    /\ writer = NoProc

-----------------------------------------------------------------------------

\* has(): an entry lives through the second of its expiresAt.
Has(p, k) == cache[p][k] >= Sec(now)

\* has() drops an entry that it finds lapsed, in memory only.
Looked(p, k) == IF Has(p, k) THEN cache[p] ELSE [cache[p] EXCEPT ![k] = NoEntry]

Live(entries) == {k \in Req : entries[k] >= Sec(now)}

\* Fault: the file is written from what was loaded, not from the map.
SaveLoaded(p, entries) ==
    /\ file' = file
    /\ writer' = p

\* Fault: a write that fails leaves a file of another shape.
SaveShapeless(p, entries) == file' \in {entries, <<>>} /\ writer' = p

(* save(): the whole map goes to the file.  A write that fails is not      *)
(* reported: the file is as it was, or writeFileSync has emptied it, and   *)
(* then it does not parse and load() finds nothing in it.                  *)
Save(p, entries) ==
    \/ /\ file' = entries
       /\ writer' = p
    \/ /\ "save" \in Faults
       /\ file' \in {file, Nothing}
       /\ writer' = NoProc

(* add() after a has() that found nothing.                                 *)
Add(p, k, ttl) ==
    LET entries == [Looked(p, k) EXCEPT ![k] = Sec(now) + ttl] IN
    /\ cache' = [cache EXCEPT ![p] = entries]
    /\ Save(p, entries)
    /\ forgot' = [forgot EXCEPT ![p] = @ \ {k}]

\* Fault: the timer drops nothing.
CleanupNothing(p) ==
    /\ \E k \in Req : cache[p][k] # NoEntry /\ ~Has(p, k)
    /\ Save(p, cache[p])
    /\ UNCHANGED <<cache, forgot>>

(* cleanup(), which a timer runs every five minutes: nothing is written    *)
(* when nothing has lapsed.                                                *)
Cleanup(p) ==
    LET entries == [k \in Req |-> IF Has(p, k) THEN cache[p][k] ELSE NoEntry] IN
    /\ entries # cache[p]
    /\ cache' = [cache EXCEPT ![p] = entries]
    /\ Save(p, entries)
    /\ UNCHANGED forgot

Clear(p) ==
    /\ "clear" \in Faults
    /\ cache' = [cache EXCEPT ![p] = Nothing]
    /\ Save(p, Nothing)
    /\ forgot' = [forgot EXCEPT ![p] = @ \cup Live(cache[p])]

(* load(), in the constructor: an entry in its last second is left behind. *)
Loaded(entries) == [k \in Req |-> IF entries[k] > Sec(now) THEN entries[k] ELSE NoEntry]

Reload(p, entries) ==
    /\ cache' = [cache EXCEPT ![p] = Loaded(entries)]
    /\ forgot' = [forgot EXCEPT ![p] =
           @ \cup {k \in Live(cache[p]) : Loaded(entries)[k] < cache[p][k]}]

(* The process ends between two calls and starts again.                    *)
Restart(p) ==
    /\ "restart" \in Faults
    /\ Reload(p, file)
    /\ UNCHANGED <<file, writer>>

(* It ends inside the save() of some call, after writeFileSync has emptied  *)
(* the file.                                                               *)
CrashInSave(p) ==
    /\ "crash" \in Faults
    /\ file' = Nothing
    /\ writer' = NoProc
    /\ Reload(p, Nothing)

=============================================================================
