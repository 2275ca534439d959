----------------------- MODULE StatePersistence_proofs -----------------------
(***************************************************************************)
(* Theorems about the saved state, for every number of updates and calls   *)
(* and every combination of faults.                                        *)
(***************************************************************************)
EXTENDS StatePersistence, TLAPS

-----------------------------------------------------------------------------
(* The inductive invariant *)

(* The call that has the instance to itself is the only one in flight.     *)
LoneAlone == lone # None =>
    call[lone] # Idle /\ \A k \in Call \ {lone} : call[k] = Idle

(* Overlapping calls make nothing sure.                                    *)
OverlapForgets == lone = None /\ ~Alone => sure = {} /\ gone = {}

(* What a lone call is about to write is the state in memory, and nothing  *)
(* is in the file that it has opened.                                      *)
LoneSaves == lone # None =>
    /\ call[lone].stage = "called" => initialized
    /\ call[lone].stage = "mkdir" => call[lone].own
    /\ call[lone].stage \in {"open", "write"} => call[lone].data = mem
    /\ call[lone].stage \in {"mkdir", "open", "write"} => sure \subseteq mem
    /\ call[lone].stage = "write" => call[lone].linked /\ file = Empty
    /\ call[lone].stage = "unlink" => sure = {} /\ mem = {}

SureOnFile == file.kind \in {"whole", "absent"} => sure \subseteq file.has

GoneAway == gone \cap mem = {} /\ gone \cap file.has = {}

(* Only updates that were asked for are anywhere.                          *)
AllUsed ==
    /\ mem \subseteq used /\ file.has \subseteq used /\ gone \subseteq used
    /\ \A c \in Call : call[c].data \subseteq used

IInv ==
    /\ TypeOK
    /\ NoSilentLoss
    /\ LoneAlone
    /\ OverlapForgets
    /\ LoneSaves
    /\ SureOnFile
    /\ GoneAway
    /\ AllUsed

-----------------------------------------------------------------------------
(* Records *)

LEMMA IdleFields ==
  /\ Idle \in CallRec /\ Idle.stage = "idle" /\ Idle.data = {} /\ Idle.kind = "none"
BY DEF Idle, CallRec

LEMMA PersistingFields ==
  ASSUME NEW kind \in {"initialize", "update"}
  PROVE  /\ Persisting(kind) \in CallRec /\ Persisting(kind).stage = "mkdir"
         /\ Persisting(kind).own /\ Persisting(kind).data = {}
         /\ Persisting(kind) # Idle
BY DEF Persisting, CallRec, Idle

LEMMA FileValues ==
  /\ Absent \in File /\ Empty \in File /\ Torn \in File
  /\ \A s \in SUBSET Update : Whole(s) \in File /\ Whole(s).has = s /\ Whole(s).kind = "whole"
  /\ Absent.has = {} /\ Empty.has = {} /\ Torn.has = {}
  /\ Absent.kind = "absent" /\ Empty.kind = "empty" /\ Torn.kind = "torn"
BY DEF Absent, Empty, Torn, Whole, File

(* A call keeps its stage when the state is replaced under it, and an idle *)
(* one stays idle.                                                         *)
LEMMA ReplacedFields ==
  ASSUME TypeOK, AllUsed, NEW c \in Call, NEW rec \in CallRec, rec.data \subseteq used
  PROVE  /\ Replaced(c, rec) \in [Call -> CallRec]
         /\ Replaced(c, rec)[c] = rec
         /\ \A k \in Call \ {c} : call[k] = Idle => Replaced(c, rec)[k] = Idle
         /\ \A k \in Call \ {c} : Replaced(c, rec)[k] = Idle => call[k] = Idle
         /\ \A k \in Call : Replaced(c, rec)[k].data \subseteq used
         /\ \A k \in Call \ {c} : Replaced(c, rec)[k].stage = call[k].stage
<1>1. ASSUME NEW k \in Call
      PROVE  LET r == [call[k] EXCEPT !.own = FALSE, !.data = mem]
             IN  r \in CallRec /\ r.data = mem /\ r.stage = call[k].stage
  BY DEF TypeOK, CallRec
<1>2. ASSUME NEW k \in Call, k # c
      PROVE  /\ Replaced(c, rec)[k] \in CallRec
             /\ call[k] = Idle => Replaced(c, rec)[k] = Idle
             /\ Replaced(c, rec)[k] = Idle => call[k] = Idle
             /\ Replaced(c, rec)[k].data \subseteq used
             /\ Replaced(c, rec)[k].stage = call[k].stage
  <2> DEFINE r == [call[k] EXCEPT !.own = FALSE, !.data = mem]
  <2>1. Replaced(c, rec)[k] = IF call[k].stage = "mkdir" /\ call[k].own THEN r ELSE call[k]
    BY <1>2 DEF Replaced
  <2>2. r \in CallRec /\ r.data = mem /\ r.stage = call[k].stage
    BY <1>1
  <2>3. call[k] \in CallRec /\ call[k].data \subseteq used /\ mem \subseteq used
    BY DEF TypeOK, AllUsed
  <2> HIDE DEF r
  <2>4. QED BY <2>1, <2>2, <2>3, IdleFields
<1>3. Replaced(c, rec)[c] = rec
  BY DEF Replaced
<1>4. Replaced(c, rec) \in [Call -> CallRec]
  BY <1>2, <1>3 DEF Replaced
<1>5. QED BY <1>2, <1>3, <1>4

LEMMA InitIInv == Init => IInv
<1> SUFFICES ASSUME Init
             PROVE  IInv
  OBVIOUS
<1>1. TypeOK
  BY IdleFields, FileValues DEF Init, TypeOK
<1>2. QED BY <1>1, IdleFields, FileValues DEF Init, IInv, NoSilentLoss, LoneAlone,
     OverlapForgets, LoneSaves, SureOnFile, GoneAway, AllUsed, Alone

-----------------------------------------------------------------------------
(* The steps preserve it *)

(* A call that starts: afterwards it is alone, or nothing is sure.         *)
LEMMA StartsLone ==
  ASSUME IInv, NEW c \in Call, Starts(c),
         call' \in [Call -> CallRec], call'[c] # Idle,
         \A k \in Call \ {c} : call'[k] = call[k]
  PROVE  /\ lone' \in Call \cup {None} /\ sure' \in {sure, {}} /\ gone' \in {gone, {}}
         /\ LoneAlone' /\ OverlapForgets'
         /\ lone' \in {None, c}
<1>1. CASE Alone
  BY <1>1, NoneAssumption DEF Starts, Alone, LoneAlone, OverlapForgets
<1>2. CASE ~Alone
  BY <1>2 DEF Starts, LoneAlone, OverlapForgets
<1>3. QED BY <1>1, <1>2 DEF Starts

LEMMA InitializeStep ==
  ASSUME IInv, NEW c \in Call, Initialize(c)
  PROVE  IInv'
<1> DEFINE rec == [Idle EXCEPT !.kind = "initialize", !.stage = "read"]
<1>0. /\ TypeOK /\ Starts(c) /\ call' = [call EXCEPT ![c] = rec]
      /\ UNCHANGED <<mem, initialized, file, used>>
  BY DEF IInv, Initialize
<1>1. rec \in CallRec /\ rec.stage = "read" /\ rec.data = {} /\ rec # Idle
  BY DEF Idle, CallRec
<1> HIDE DEF rec
<1>2. /\ call' \in [Call -> CallRec] /\ call'[c] = rec
      /\ \A k \in Call \ {c} : call'[k] = call[k]
  BY <1>0, <1>1 DEF TypeOK
<1>3. /\ lone' \in Call \cup {None} /\ sure' \in {sure, {}} /\ gone' \in {gone, {}}
      /\ LoneAlone' /\ OverlapForgets' /\ lone' \in {None, c}
  BY <1>0, <1>1, <1>2, StartsLone
<1>4. TypeOK'
  BY <1>0, <1>1, <1>2, <1>3 DEF TypeOK
<1>5. LoneSaves'
  BY <1>1, <1>2, <1>3 DEF LoneSaves
<1>6. NoSilentLoss' /\ SureOnFile' /\ GoneAway' /\ AllUsed'
  BY <1>0, <1>1, <1>2, <1>3 DEF IInv, NoSilentLoss, SureOnFile, GoneAway, AllUsed
<1>7. QED BY <1>3, <1>4, <1>5, <1>6 DEF IInv

LEMMA EnsureInitializedStep ==
  ASSUME IInv, NEW c \in Call, EnsureInitialized(c)
  PROVE  IInv'
<1> DEFINE rec == [Idle EXCEPT !.kind = "update", !.stage = "called"]
<1>0. /\ TypeOK /\ Starts(c) /\ call' = [call EXCEPT ![c] = rec] /\ initialized
      /\ UNCHANGED <<mem, initialized, file, used>>
  BY DEF IInv, EnsureInitialized
<1>1. rec \in CallRec /\ rec.stage = "called" /\ rec.data = {} /\ rec # Idle
  BY DEF Idle, CallRec
<1> HIDE DEF rec
<1>2. /\ call' \in [Call -> CallRec] /\ call'[c] = rec
      /\ \A k \in Call \ {c} : call'[k] = call[k]
  BY <1>0, <1>1 DEF TypeOK
<1>3. /\ lone' \in Call \cup {None} /\ sure' \in {sure, {}} /\ gone' \in {gone, {}}
      /\ LoneAlone' /\ OverlapForgets' /\ lone' \in {None, c}
  BY <1>0, <1>1, <1>2, StartsLone
<1>4. TypeOK'
  BY <1>0, <1>1, <1>2, <1>3 DEF TypeOK
<1>5. LoneSaves'
  BY <1>0, <1>1, <1>2, <1>3 DEF LoneSaves
<1>6. NoSilentLoss' /\ SureOnFile' /\ GoneAway' /\ AllUsed'
  BY <1>0, <1>1, <1>2, <1>3 DEF IInv, NoSilentLoss, SureOnFile, GoneAway, AllUsed
<1>7. QED BY <1>3, <1>4, <1>5, <1>6 DEF IInv

LEMMA UpdateStateStep ==
  ASSUME IInv, NEW c \in Call, NEW u \in Update, UpdateState(c, u)
  PROVE  IInv'
<1> DEFINE rec == Persisting("update")
<1>0. /\ TypeOK /\ call[c].stage = "called" /\ call' = [call EXCEPT ![c] = rec]
      /\ u \notin used /\ used' = used \cup {u} /\ mem' = mem \cup {u}
      /\ UNCHANGED <<initialized, file, lone, sure, gone>>
  BY DEF IInv, UpdateState
<1>1. rec \in CallRec /\ rec.stage = "mkdir" /\ rec.own /\ rec.data = {} /\ rec # Idle
  BY PersistingFields
<1> HIDE DEF rec
<1>2. /\ call' \in [Call -> CallRec] /\ call'[c] = rec /\ call[c] # Idle
      /\ \A k \in Call \ {c} : call'[k] = call[k]
  BY <1>0, <1>1, IdleFields DEF TypeOK
<1>3. lone # None => lone = c
  BY <1>2 DEF IInv, LoneAlone
<1>4. TypeOK'
  BY <1>0, <1>1, <1>2, IdleFields DEF TypeOK
<1>5. LoneAlone' /\ OverlapForgets'
  BY <1>0, <1>1, <1>2, <1>3 DEF IInv, LoneAlone, OverlapForgets, Alone
<1>6. LoneSaves' /\ NoSilentLoss' /\ SureOnFile'
  BY <1>0, <1>1, <1>2, <1>3 DEF IInv, LoneSaves, NoSilentLoss, SureOnFile
<1>7. GoneAway' /\ AllUsed'
  BY <1>0, <1>1, <1>2 DEF IInv, GoneAway, AllUsed
<1>8. QED BY <1>4, <1>5, <1>6, <1>7 DEF IInv

LEMMA LoadStep ==
  ASSUME IInv, NEW c \in Call, Load(c)
  PROVE  IInv'
<1> DEFINE rec == Persisting("initialize")
<1>0. /\ TypeOK /\ AllUsed /\ call[c].stage = "read" /\ file.kind \in {"whole", "absent"}
      /\ mem' = file.has /\ call' = Replaced(c, rec)
      /\ UNCHANGED <<initialized, file, used, lone, sure, gone>>
  BY DEF IInv, Load
<1>1. rec \in CallRec /\ rec.stage = "mkdir" /\ rec.own /\ rec.data = {} /\ rec # Idle
  BY PersistingFields
<1> HIDE DEF rec
<1>2. /\ call' \in [Call -> CallRec] /\ call'[c] = rec
      /\ \A k \in Call \ {c} : call[k] = Idle <=> call'[k] = Idle
      /\ \A k \in Call : call'[k].data \subseteq used
      /\ \A k \in Call \ {c} : call'[k].stage = call[k].stage
  BY <1>0, <1>1, ReplacedFields
<1>3. call[c] # Idle /\ (lone # None => lone = c)
  BY <1>0, IdleFields DEF IInv, LoneAlone
<1>4. TypeOK'
  <2>1. \A k \in Call : call'[k].stage = "idle" => call'[k] = Idle
    BY <1>0, <1>1, <1>2 DEF TypeOK
  <2>2. QED BY <1>0, <1>2, <2>1 DEF TypeOK, File
<1>5. LoneAlone' /\ OverlapForgets'
  BY <1>0, <1>1, <1>2, <1>3 DEF IInv, LoneAlone, OverlapForgets, Alone
<1>6. LoneSaves' /\ NoSilentLoss' /\ SureOnFile'
  BY <1>0, <1>1, <1>2, <1>3 DEF IInv, LoneSaves, NoSilentLoss, SureOnFile
<1>7. GoneAway' /\ AllUsed'
  BY <1>0, <1>2 DEF IInv, GoneAway, AllUsed
<1>8. QED BY <1>4, <1>5, <1>6, <1>7 DEF IInv

(* A call that returns and leaves the state and the file as they are.      *)
LEMMA ReturnStep ==
  ASSUME IInv, NEW c \in Call, call' = [call EXCEPT ![c] = Idle], call[c] # Idle, lone' = None,
         UNCHANGED <<mem, initialized, file, used, sure, gone>>
  PROVE  IInv'
<1>0. /\ TypeOK /\ call' \in [Call -> CallRec] /\ call'[c] = Idle
      /\ \A k \in Call \ {c} : call'[k] = call[k]
  BY IdleFields DEF IInv, TypeOK
<1>1. TypeOK' /\ AllUsed'
  BY <1>0, IdleFields DEF IInv, TypeOK, AllUsed
<1>2. OverlapForgets'
  BY <1>0 DEF IInv, OverlapForgets, LoneAlone, Alone
<1>3. QED BY <1>1, <1>2 DEF IInv, NoSilentLoss, LoneAlone, LoneSaves, SureOnFile, GoneAway

LEMMA SerialiseStep ==
  ASSUME IInv, NEW c \in Call, Serialise(c)
  PROVE  IInv'
<1> DEFINE rec == [call[c] EXCEPT !.stage = "open", !.own = FALSE,
                                  !.data = IF call[c].own THEN mem ELSE call[c].data]
<1>0. /\ TypeOK /\ AllUsed /\ call[c].stage = "mkdir" /\ call' = [call EXCEPT ![c] = rec]
      /\ UNCHANGED <<mem, initialized, file, used, lone, sure, gone>>
  BY DEF IInv, Serialise
<1>1. /\ rec \in CallRec /\ rec.stage = "open"
      /\ rec.data = IF call[c].own THEN mem ELSE call[c].data
  BY <1>0 DEF TypeOK, CallRec
<1> HIDE DEF rec
<1>2. /\ call' \in [Call -> CallRec] /\ call'[c] = rec /\ rec # Idle /\ call[c] # Idle
      /\ \A k \in Call \ {c} : call'[k] = call[k]
  BY <1>0, <1>1, IdleFields DEF TypeOK
<1>3. lone # None => lone = c
  BY <1>2 DEF IInv, LoneAlone
<1>4. TypeOK' /\ AllUsed'
  BY <1>0, <1>1, <1>2 DEF TypeOK, AllUsed
<1>5. LoneAlone' /\ OverlapForgets'
  BY <1>0, <1>2, <1>3 DEF IInv, LoneAlone, OverlapForgets, Alone
<1>6. LoneSaves'
  BY <1>0, <1>1, <1>2, <1>3 DEF IInv, LoneSaves
<1>7. QED BY <1>0, <1>4, <1>5, <1>6 DEF IInv, NoSilentLoss, SureOnFile, GoneAway

LEMMA OpenStep ==
  ASSUME IInv, NEW c \in Call, Open(c)
  PROVE  IInv'
<1> DEFINE rec == [call[c] EXCEPT !.stage = "write", !.linked = TRUE]
<1>0. /\ TypeOK /\ AllUsed /\ call[c].stage = "open" /\ call' = [call EXCEPT ![c] = rec]
      /\ file' = Empty
      /\ UNCHANGED <<mem, initialized, used, lone, sure, gone>>
  BY DEF IInv, Open
<1>1. rec \in CallRec /\ rec.stage = "write" /\ rec.data = call[c].data /\ rec.linked
  BY <1>0 DEF TypeOK, CallRec
<1> HIDE DEF rec
<1>2. /\ call' \in [Call -> CallRec] /\ call'[c] = rec /\ rec # Idle /\ call[c] # Idle
      /\ \A k \in Call \ {c} : call'[k] = call[k]
  BY <1>0, <1>1, IdleFields DEF TypeOK
<1>3. lone # None => lone = c
  BY <1>2 DEF IInv, LoneAlone
<1>4. TypeOK' /\ AllUsed'
  BY <1>0, <1>1, <1>2, FileValues DEF TypeOK, AllUsed
<1>5. LoneAlone' /\ OverlapForgets'
  BY <1>0, <1>2, <1>3 DEF IInv, LoneAlone, OverlapForgets, Alone
<1>6. LoneSaves'
  BY <1>0, <1>1, <1>2, <1>3 DEF IInv, LoneSaves
<1>7. QED BY <1>0, <1>4, <1>5, <1>6, FileValues DEF IInv, NoSilentLoss, SureOnFile, GoneAway

LEMMA WriteStep ==
  ASSUME IInv, NEW c \in Call, Write(c)
  PROVE  IInv'
<1>0. /\ TypeOK /\ AllUsed /\ call[c].stage = "write" /\ call' = [call EXCEPT ![c] = Idle]
      /\ call[c] # Idle /\ lone' = None /\ UNCHANGED <<mem, used, gone>>
      /\ call[c].data \subseteq Update /\ call[c].data \subseteq used
  BY IdleFields DEF IInv, Write, TypeOK, CallRec, AllUsed
<1>1. /\ call' \in [Call -> CallRec] /\ call'[c] = Idle
      /\ \A k \in Call \ {c} : call'[k] = call[k]
  BY <1>0, IdleFields DEF TypeOK
<1>2. file' \in {file, Torn, Whole(call[c].data)}
  BY DEF Write, Written
<1>3. TypeOK'
  BY <1>0, <1>1, <1>2, FileValues, IdleFields DEF Write, TypeOK
<1>4. AllUsed'
  BY <1>0, <1>1, <1>2, FileValues, IdleFields DEF AllUsed
<1>5. CASE lone = None
  <2>1. sure = {} /\ gone = {} /\ sure' = {} /\ gone' = {}
    BY <1>0, <1>5, NoneAssumption DEF IInv, OverlapForgets, Alone, Write
  <2>2. QED BY <1>0, <1>3, <1>4, <2>1 DEF IInv, NoSilentLoss, LoneAlone, OverlapForgets,
           LoneSaves, SureOnFile, GoneAway
<1>6. CASE lone # None
  <2>1. lone = c /\ \A k \in Call : call'[k] = Idle
    BY <1>0, <1>1, <1>6 DEF IInv, LoneAlone
  <2>2. call[c].data = mem /\ sure \subseteq mem /\ call[c].linked /\ file = Empty
    BY <1>0, <1>6, <2>1 DEF IInv, LoneSaves
  <2>3. file' = Whole(mem) /\ sure' = sure \cup mem
    BY <2>1, <2>2 DEF Write, Written
  <2>4. NoSilentLoss' /\ SureOnFile' /\ GoneAway'
    BY <1>0, <2>2, <2>3, FileValues DEF IInv, TypeOK, NoSilentLoss, SureOnFile, GoneAway
  <2>5. QED BY <1>0, <1>3, <1>4, <2>1, <2>4 DEF IInv, LoneAlone, OverlapForgets, LoneSaves, Alone
<1>7. QED BY <1>5, <1>6

LEMMA ResetStep ==
  ASSUME IInv, NEW c \in Call, Reset(c)
  PROVE  IInv'
<1> DEFINE rec == [Idle EXCEPT !.kind = "reset", !.stage = "unlink", !.data = mem]
<1>0. /\ TypeOK /\ AllUsed /\ initialized /\ call[c] = Idle /\ sure' = {} /\ mem' = {}
      /\ lone' = (IF Alone THEN c ELSE None) /\ gone' = (IF Alone THEN gone ELSE {})
      /\ call' = Replaced(c, rec) /\ UNCHANGED <<initialized, file, used>>
  BY DEF IInv, Reset
<1>1. rec \in CallRec /\ rec.stage = "unlink" /\ rec.data = mem /\ rec # Idle
  BY <1>0 DEF Idle, CallRec, TypeOK
<1> HIDE DEF rec
<1>2. /\ call' \in [Call -> CallRec] /\ call'[c] = rec
      /\ \A k \in Call \ {c} : call[k] = Idle <=> call'[k] = Idle
      /\ \A k \in Call : call'[k].data \subseteq used
      /\ \A k \in Call \ {c} : call'[k].stage = call[k].stage
  BY <1>0, <1>1, ReplacedFields DEF AllUsed
<1>3. TypeOK'
  <2>1. \A k \in Call : call'[k].stage = "idle" => call'[k] = Idle
    BY <1>0, <1>1, <1>2 DEF TypeOK
  <2>2. QED BY <1>0, <1>2, <2>1 DEF TypeOK
<1>4. AllUsed' /\ GoneAway' /\ NoSilentLoss' /\ SureOnFile'
  BY <1>0, <1>2 DEF IInv, AllUsed, GoneAway, NoSilentLoss, SureOnFile
<1>5. LoneAlone' /\ OverlapForgets' /\ LoneSaves'
  <2>1. CASE Alone
    BY <1>0, <1>1, <1>2, <2>1, NoneAssumption DEF Alone, LoneAlone, OverlapForgets, LoneSaves
  <2>2. CASE ~Alone
    BY <1>0, <2>2 DEF LoneAlone, OverlapForgets, LoneSaves
  <2>3. QED BY <2>1, <2>2
<1>6. QED BY <1>3, <1>4, <1>5 DEF IInv

LEMMA UnlinkStep ==
  ASSUME IInv, NEW c \in Call, Unlink(c)
  PROVE  IInv'
<1>0. /\ TypeOK /\ AllUsed /\ call[c].stage = "unlink" /\ file' = Absent
      /\ initialized' = FALSE
      /\ lone' = None /\ call' = Unlinked(c) /\ UNCHANGED <<mem, used, sure>>
      /\ gone' = (IF lone = c THEN gone \cup call[c].data \cup file.has ELSE gone)
      /\ call[c] # Idle
  BY IdleFields DEF IInv, Unlink
<1>1. ASSUME NEW k \in Call
      PROVE  LET r == [call[k] EXCEPT !.linked = FALSE]
             IN  r \in CallRec /\ r.data = call[k].data /\ r.stage = call[k].stage
  BY <1>0 DEF TypeOK, CallRec
<1>2. ASSUME NEW k \in Call
      PROVE  /\ call'[k] \in CallRec /\ call'[k].data \subseteq used
             /\ call'[k].stage = "idle" => call'[k] = Idle
             /\ call[k] = Idle => call'[k] = Idle
             /\ k = c => call'[k] = Idle
             /\ k # c /\ call[k] # Idle => call'[k] # Idle
  <2> DEFINE r == [call[k] EXCEPT !.linked = FALSE]
  <2>1. call'[k] = IF k = c THEN Idle ELSE IF call[k].stage = "write" THEN r ELSE call[k]
    BY <1>0 DEF Unlinked
  <2>2. r \in CallRec /\ r.data = call[k].data /\ r.stage = call[k].stage
    BY <1>1
  <2> HIDE DEF r
  <2>3. QED BY <1>0, <2>1, <2>2, IdleFields DEF TypeOK, AllUsed
<1>3. TypeOK'
  <2>1. call' \in [Call -> CallRec]
    BY <1>0, <1>2 DEF Unlinked
  <2>2. gone' \subseteq Update
    BY <1>0 DEF TypeOK, CallRec, File
  <2>3. QED BY <1>0, <1>2, <2>1, <2>2, FileValues DEF TypeOK
<1>4. AllUsed'
  BY <1>0, <1>2, FileValues DEF AllUsed
<1>5. sure = {} /\ OverlapForgets'
  <2>1. CASE lone = None
    <3>1. sure = {} /\ gone = {} /\ gone' = {}
      BY <1>0, <2>1, NoneAssumption DEF IInv, OverlapForgets, Alone
    <3>2. QED BY <1>0, <3>1 DEF OverlapForgets
  <2>2. CASE lone # None
    <3>1. lone = c /\ \A k \in Call : call'[k] = Idle
      BY <1>0, <1>2, <2>2 DEF IInv, LoneAlone
    <3>2. QED BY <1>0, <2>2, <3>1 DEF IInv, LoneSaves, OverlapForgets, Alone
  <2>3. QED BY <2>1, <2>2
<1>6. GoneAway'
  <2>1. CASE lone = c
    BY <1>0, <2>1, NoneAssumption, FileValues DEF IInv, LoneSaves, GoneAway
  <2>2. CASE lone # c
    BY <1>0, <2>2, FileValues DEF IInv, GoneAway
  <2>3. QED BY <2>1, <2>2
<1>7. QED BY <1>0, <1>3, <1>4, <1>5, <1>6 DEF IInv, NoSilentLoss, LoneAlone, LoneSaves, SureOnFile

LEMMA CrashStep ==
  ASSUME IInv, Crash
  PROVE  IInv'
<1>1. TypeOK' /\ AllUsed'
  BY IdleFields DEF IInv, Crash, TypeOK, AllUsed
<1>2. Alone' /\ lone' = None /\ UNCHANGED <<file, sure, gone>> /\ ~initialized' /\ mem' = {}
  BY DEF Crash, Alone
<1>3. LoneAlone' /\ OverlapForgets' /\ LoneSaves' /\ NoSilentLoss'
  BY <1>2 DEF LoneAlone, OverlapForgets, LoneSaves, NoSilentLoss
<1>4. SureOnFile' /\ GoneAway'
  BY <1>2 DEF IInv, SureOnFile, GoneAway
<1>5. QED BY <1>1, <1>3, <1>4 DEF IInv

LEMMA Inductive == IInv /\ [Next]_vars => IInv'
<1> SUFFICES ASSUME IInv, [Next]_vars
             PROVE  IInv'
  OBVIOUS
<1>1. ASSUME NEW c \in Call, \/ LoadThrows(c) \/ NothingToUpdate(c)
                               \/ SaveThrows(c) \/ UnlinkThrows(c)
      PROVE  IInv'
  <2>1. call[c].stage # "idle"
    BY <1>1 DEF LoadThrows, NothingToUpdate, SaveThrows, UnlinkThrows
  <2>2. call[c] # Idle
    BY <2>1, IdleFields
  <2>3. /\ call' = [call EXCEPT ![c] = Idle] /\ lone' = None
        /\ UNCHANGED <<mem, initialized, file, used, sure, gone>>
    BY <1>1 DEF LoadThrows, NothingToUpdate, SaveThrows, UnlinkThrows
  <2>4. QED BY <2>2, <2>3, ReturnStep
<1>2. CASE Next
  BY <1>1, <1>2, InitializeStep, LoadStep, EnsureInitializedStep, UpdateStateStep,
     SerialiseStep, OpenStep,
     WriteStep, ResetStep, UnlinkStep, CrashStep DEF Next
<1>3. CASE UNCHANGED vars
  BY <1>3 DEF vars, IInv, TypeOK, NoSilentLoss, LoneAlone, OverlapForgets, LoneSaves,
     SureOnFile, GoneAway, AllUsed, Alone
<1>4. QED BY <1>2, <1>3

LEMMA Invariant == Spec => []IInv
BY InitIInv, Inductive, PTL DEF Spec

-----------------------------------------------------------------------------
(* What holds in every instance *)

(* The state, the file and the calls in flight are well typed.             *)
THEOREM TypeCorrect == Spec => []TypeOK
<1>1. IInv => TypeOK
  BY DEF IInv
<1>2. QED BY <1>1, Invariant, PTL

(* An update that a call with the instance to itself has saved is there in *)
(* every later instance, whatever fails or crashes in between.             *)
THEOREM LossNeverSilent == Spec => []NoSilentLoss
<1>1. IInv => NoSilentLoss
  BY DEF IInv
<1>2. QED BY <1>1, Invariant, PTL

(* What a reset() with the instance to itself removed stays away.          *)
THEOREM ResetComplete == Spec => []ResetForgets
<1>1. IInv => ResetForgets
  BY DEF IInv, GoneAway, ResetForgets
<1>2. QED BY <1>1, Invariant, PTL

(* A call with the instance to itself never leaves a torn file.            *)
THEOREM TearsOnlyByOverlap == Spec => TornNeedsOverlap
<1>1. IInv /\ Next => (file.kind # "torn" /\ file'.kind = "torn" => lone = None)
  <2> SUFFICES ASSUME IInv, Next, file.kind # "torn", file'.kind = "torn", lone # None
               PROVE  FALSE
    OBVIOUS
  <2>1. PICK c \in Call : Write(c)
    BY FileValues DEF Next, Initialize, Load, LoadThrows, EnsureInitialized,
       NothingToUpdate, UpdateState, Serialise, Open,
       SaveThrows, Reset, Unlink, UnlinkThrows, Crash
  <2>2. lone = c
    BY <2>1, IdleFields DEF IInv, LoneAlone, Write
  <2>3. call[c].data \in SUBSET Update /\ call[c].linked /\ file = Empty
    BY <2>1, <2>2, NoneAssumption DEF IInv, LoneSaves, Write, TypeOK, CallRec
  <2>4. file' = Whole(call[c].data)
    BY <2>1, <2>3 DEF Write, Written
  <2>5. QED BY <2>3, <2>4, FileValues
<1>2. IInv /\ [Next]_vars
        => [file.kind # "torn" /\ file'.kind = "torn" => lone = None]_vars
  BY <1>1
<1>3. QED BY <1>2, Invariant, PTL DEF Spec, TornNeedsOverlap

=============================================================================
