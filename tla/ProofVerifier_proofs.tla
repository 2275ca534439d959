------------------------ MODULE ProofVerifier_proofs ------------------------
(***************************************************************************)
(* Theorems about the verifier and its replay stores, for every number of  *)
(* processes, requests and instants and every combination of faults.       *)
(***************************************************************************)
EXTENDS ProofVerifier, TLAPS

-----------------------------------------------------------------------------
(* Seconds and milliseconds *)

LEMMA SecMonotone ==
  ASSUME NEW a \in Nat, NEW b \in Nat, a <= b
  PROVE  Sec(a) \in Nat /\ Sec(a) <= Sec(b)
BY DEF Sec

(* An entry made at time t for a request that expires at e lives into the  *)
(* last second but one of the request, and into its last second when no    *)
(* more than 300 s are left.                                               *)
LEMMA TtlCovers ==
  ASSUME NEW t \in Nat, NEW e \in Nat, t <= e
  PROVE  /\ Later(MIN_TTL_SECONDS, Sec(e - t)) \in Nat
         /\ Sec(t) + Later(MIN_TTL_SECONDS, Sec(e - t)) >= Sec(e) - 1
         /\ e - t <= MIN_TTL_SECONDS * 1000
              => Sec(t) + Later(MIN_TTL_SECONDS, Sec(e - t)) >= Sec(e)
BY DEF Later, Sec, MIN_TTL_SECONDS

-----------------------------------------------------------------------------
(* The inductive invariant *)

(* The second into which the entry of an accepted request must live.       *)
Bound(p, r) ==
    IF window[r].expires - accepted[p][r] > MIN_TTL_SECONDS * 1000
    THEN Sec(window[r].expires) - 1 ELSE Sec(window[r].expires)

(* An accepted request is still in the map, or was lost, or its entry has  *)
(* had its time.                                                           *)
Covered(p, r) == accepted[p][r] # Never =>
    /\ r \in requests /\ accepted[p][r] <= now
    /\ r \in forgot[p] \/ cache[p][r] >= Bound(p, r) \/ Sec(now) > Bound(p, r)

IInv ==
    /\ TypeOK
    /\ WriteThrough
    /\ \A p \in Proc, r \in Req : Covered(p, r)

LEMMA Times ==
  ASSUME TypeOK
  PROVE  /\ now \in Nat /\ Sec(now) \in Nat
         /\ \A r \in Req : window[r].expires \in Nat /\ Sec(window[r].expires) \in Nat
         /\ \A p \in Proc : cache[p] \in Entries
         /\ \A p \in Proc, r \in Req : cache[p][r] \in Int
BY InstantsAssumption DEF TypeOK, Sec, Entries, NoEntry

LEMMA LookedType ==
  ASSUME TypeOK, NEW p \in Proc, NEW k \in Req
  PROVE  Looked(p, k) \in Entries
BY DEF Looked, TypeOK, Entries

LEMMA LoadedType ==
  ASSUME TypeOK, NEW entries \in Entries
  PROVE  Loaded(entries) \in Entries
BY DEF Loaded, Entries

LEMMA NothingType == Nothing \in Entries
BY DEF Nothing, Entries

LEMMA SaveType ==
  ASSUME TypeOK, NEW p \in Proc, NEW entries \in Entries, Save(p, entries)
  PROVE  file' \in Entries /\ writer' \in Proc \cup {NoProc}
BY NothingType DEF Save, TypeOK

LEMMA AddType ==
  ASSUME TypeOK, NEW p \in Proc, NEW k \in Req, NEW ttl \in Nat, Add(p, k, ttl)
  PROVE  /\ cache' \in [Proc -> Entries] /\ file' \in Entries
         /\ writer' \in Proc \cup {NoProc}
<1> DEFINE entries == [Looked(p, k) EXCEPT ![k] = Sec(now) + ttl]
<1>1. entries \in Entries
  BY LookedType, Times DEF Entries
<1>2. cache' = [cache EXCEPT ![p] = entries] /\ Save(p, entries)
  BY DEF Add
<1>3. QED BY <1>1, <1>2, SaveType DEF TypeOK

LEMMA InitIInv == Init => IInv
<1> SUFFICES ASSUME Init
             PROVE  IInv
  OBVIOUS
<1>1. TypeOK
  BY NothingType DEF Init, StoreInit, TypeOK, Never
<1>2. WriteThrough
  BY ProcAssumption DEF Init, StoreInit, WriteThrough
<1>3. QED BY <1>1, <1>2 DEF Init, IInv, Covered

-----------------------------------------------------------------------------
(* The steps preserve it *)

(* A step at one time keeps a request covered if its entry is kept, has    *)
(* lapsed, or is lost on record.                                           *)
LEMMA CoveredKept ==
  ASSUME TypeOK, NEW p \in Proc, NEW r \in Req, Covered(p, r),
         UNCHANGED <<now, requests, window>>, accepted'[p][r] = accepted[p][r],
         r \in forgot[p] => r \in forgot'[p],
         cache'[p][r] >= cache[p][r] \/ cache[p][r] < Sec(now) \/ r \in forgot'[p],
         cache'[p][r] \in Int
  PROVE  Covered(p, r)'
<1>1. Bound(p, r)' = Bound(p, r) /\ accepted'[p][r] = accepted[p][r]
  BY DEF Bound
<1>2. accepted[p][r] # Never => Bound(p, r) \in Int
  BY Times DEF Bound
<1>3. Sec(now)' = Sec(now)
  OBVIOUS
<1>4. QED BY <1>1, <1>2, <1>3, Times DEF Covered

LEMMA TickStep ==
  ASSUME IInv, NEW t \in Instants, Tick(t)
  PROVE  IInv'
<1>0. TypeOK /\ UNCHANGED <<storeVars, requests, window, proofs, accepted>>
      /\ now' \in Nat /\ now <= now' /\ Sec(now)' \in Nat /\ Sec(now) <= Sec(now)'
  BY Times, InstantsAssumption, SecMonotone DEF IInv, Tick
<1>1. TypeOK'
  BY <1>0 DEF Tick, TypeOK, storeVars
<1>2. WriteThrough'
  <2>1. \A p \in Proc, k \in Req : Has(p, k)' => Has(p, k)
    BY <1>0, Times DEF Has, storeVars
  <2>2. QED BY <1>0, <2>1 DEF IInv, WriteThrough, storeVars
<1>3. ASSUME NEW p \in Proc, NEW r \in Req
      PROVE  Covered(p, r)'
  <2>1. Covered(p, r) /\ Bound(p, r)' = Bound(p, r)
    BY <1>0 DEF IInv, Bound
  <2>2. Bound(p, r) \in Int /\ accepted[p][r] \in Int
    BY <1>0, Times DEF Bound, TypeOK, Never
  <2>3. QED BY <1>0, <2>1, <2>2, Times DEF Covered, storeVars
<1>4. QED BY <1>1, <1>2, <1>3 DEF IInv

LEMMA CreateRequestStep ==
  ASSUME IInv, NEW r \in Req, NEW ttl \in Ttls, NEW off \in Offsets, CreateRequest(r, ttl, off)
  PROVE  IInv'
<1>0. TypeOK /\ UNCHANGED <<now, storeVars, proofs, accepted>>
  BY DEF IInv, CreateRequest
<1>1. TypeOK'
  <2>1. [issued |-> now + off, expires |-> now + off + ttl * 1000]
            \in [issued : Nat, expires : Nat]
    BY <1>0, Times, TtlsAssumption, OffsetsAssumption DEF CreateRequest
  <2>2. QED BY <1>0, <2>1 DEF CreateRequest, TypeOK, storeVars
<1>2. WriteThrough'
  BY <1>0 DEF IInv, WriteThrough, Has, storeVars
<1>3. ASSUME NEW p \in Proc, NEW q \in Req
      PROVE  Covered(p, q)'
  <2>1. accepted[p][q] # Never => q # r /\ q \in requests' /\ window'[q] = window[q]
    BY <1>0 DEF IInv, Covered, CreateRequest, TypeOK
  <2>2. QED BY <1>0, <2>1 DEF IInv, Covered, Bound, storeVars
<1>4. QED BY <1>1, <1>2, <1>3 DEF IInv

LEMMA CreateProofStep ==
  ASSUME IInv, NEW r \in Req, NEW off \in Offsets, CreateProof(r, off)
  PROVE  IInv'
<1>0. TypeOK /\ UNCHANGED <<now, storeVars, requests, window, accepted>>
  BY DEF IInv, CreateProof
<1>1. TypeOK'
  BY <1>0, Times, OffsetsAssumption DEF CreateProof, TypeOK, storeVars
<1>2. WriteThrough' /\ \A p \in Proc, q \in Req : Covered(p, q)'
  BY <1>0 DEF IInv, WriteThrough, Has, Covered, Bound, storeVars
<1>3. QED BY <1>1, <1>2 DEF IInv

(* What is written is what the map holds.                                  *)
LEMMA SaveWriteThrough ==
  ASSUME IInv, UNCHANGED now, NEW p \in Proc, NEW entries \in Entries,
         cache' = [cache EXCEPT ![p] = entries], Save(p, entries)
  PROVE  WriteThrough'
<1>0. TypeOK /\ WriteThrough
  BY DEF IInv
<1>1. CASE file' = entries /\ writer' = p
  BY <1>0, <1>1 DEF WriteThrough, TypeOK
<1>2. CASE writer' = NoProc
  BY <1>2, ProcAssumption DEF WriteThrough
<1>3. QED BY <1>1, <1>2 DEF Save

(* add() covers what it adds, and the rest of the map is as it was.        *)
LEMMA AddStep ==
  ASSUME IInv, NEW p \in Proc, NEW r \in Req, Presented(r), NoErrors(r, "none"), ~Has(p, r),
         Add(p, r, Ttl(r)), Accept(p, r) \/ UNCHANGED accepted,
         UNCHANGED <<now, requests, window, proofs>>
  PROVE  IInv'
<1> DEFINE entries == [Looked(p, r) EXCEPT ![r] = Sec(now) + Ttl(r)]
<1>0. /\ TypeOK /\ r \in requests /\ now \in Nat /\ Sec(now) \in Nat
      /\ window[r].expires \in Nat /\ Sec(window[r].expires) \in Nat
      /\ now <= window[r].expires
  BY Times DEF IInv, Presented, NoErrors
<1>1. /\ Ttl(r) \in Nat
      /\ Sec(now) + Ttl(r) >= Sec(window[r].expires) - 1
      /\ window[r].expires - now <= MIN_TTL_SECONDS * 1000
             => Sec(now) + Ttl(r) >= Sec(window[r].expires)
  BY <1>0, TtlCovers DEF Ttl
<1>2. /\ cache' = [cache EXCEPT ![p] = entries] /\ Save(p, entries)
      /\ forgot' = [forgot EXCEPT ![p] = forgot[p] \ {r}]
  BY DEF Add
<1>3. entries \in Entries
  BY <1>0, <1>1, LookedType DEF Entries
<1>4. TypeOK'
  <2>1. accepted' \in [Proc -> [Req -> {Never} \cup Nat]]
    <3>1. CASE Accept(p, r)
      <4>1. [accepted[p] EXCEPT ![r] = now] \in [Req -> {Never} \cup Nat]
        BY <1>0 DEF TypeOK
      <4>2. accepted' = [accepted EXCEPT ![p] = [accepted[p] EXCEPT ![r] = now]]
        BY <1>0, <3>1 DEF Accept, TypeOK
      <4>3. QED BY <1>0, <4>1, <4>2 DEF TypeOK
    <3>2. QED BY <1>0, <3>1 DEF TypeOK
  <2>2. forgot' \in [Proc -> SUBSET Req]
    BY <1>0, <1>2 DEF TypeOK
  <2>3. QED BY <1>0, <1>1, <2>1, <2>2, AddType DEF TypeOK
<1>5. WriteThrough'
  BY <1>2, <1>3, SaveWriteThrough
<1>6. ASSUME NEW q \in Proc, NEW s \in Req, q # p \/ s # r
      PROVE  Covered(q, s)'
  <2>1. accepted'[q][s] = accepted[q][s] /\ (s \in forgot[q] => s \in forgot'[q])
    BY <1>0, <1>2, <1>6 DEF Accept, TypeOK
  <2>2. cache'[q][s] = cache[q][s] \/ (cache[q][s] < Sec(now) /\ cache'[q][s] = NoEntry)
    BY <1>0, <1>2, <1>6, Times DEF Looked, Has, TypeOK, Entries
  <2>3. Covered(q, s) /\ cache'[q][s] \in Int /\ cache[q][s] \in Int
    BY <1>0, <2>2, Times DEF IInv, NoEntry
  <2>4. QED BY <1>0, <1>2, <2>1, <2>2, <2>3, CoveredKept
<1>7. Covered(p, r)'
  <2>1. cache'[p][r] = Sec(now) + Ttl(r)
    BY <1>0, <1>2, LookedType DEF TypeOK, Entries
  <2>2. accepted'[p][r] # Never => accepted'[p][r] \in Nat /\ accepted'[p][r] <= now
    BY <1>0 DEF Accept, IInv, Covered, TypeOK, Never
  <2>3. QED BY <1>0, <1>1, <2>1, <2>2 DEF Covered, Bound, MIN_TTL_SECONDS
<1>8. QED BY <1>4, <1>5, <1>6, <1>7 DEF IInv

LEMMA RejectStep ==
  ASSUME IInv, NEW p \in Proc, NEW r \in Req, NEW defect \in Defect, VerifyReject(p, r, defect)
  PROVE  IInv'
<1>0. /\ TypeOK /\ UNCHANGED <<now, file, forgot, writer, requests, window, proofs, accepted>>
      /\ cache' = [cache EXCEPT ![p] = IF defect = "binding" THEN cache[p] ELSE Looked(p, r)]
  BY DEF IInv, VerifyReject, TypeOK
<1>1. TypeOK'
  BY <1>0, LookedType DEF TypeOK
<1>2. \A q \in Proc, s \in Req :
          \/ cache'[q][s] = cache[q][s]
          \/ cache[q][s] < Sec(now) /\ cache'[q][s] = NoEntry
  <2>1. CASE defect = "binding" \/ Has(p, r)
    BY <1>0, <2>1 DEF Looked, TypeOK
  <2>2. CASE defect # "binding" /\ ~Has(p, r)
    <3>1. cache' = [cache EXCEPT ![p] = [cache[p] EXCEPT ![r] = NoEntry]]
      BY <1>0, <2>2 DEF Looked
    <3>2. cache[p][r] < Sec(now)
      BY <1>0, <2>2, Times DEF Has
    <3>3. TAKE q \in Proc, s \in Req
    <3>4. CASE q = p
      BY <1>0, <3>1, <3>2, <3>4, Times DEF TypeOK, Entries
    <3>5. CASE q # p
      BY <1>0, <3>1, <3>5 DEF TypeOK
    <3>6. QED BY <3>4, <3>5
  <2>3. QED BY <2>1, <2>2
<1>3. WriteThrough'
  BY <1>0, <1>2, Times DEF IInv, WriteThrough, Has, NoEntry
<1>4. ASSUME NEW q \in Proc, NEW s \in Req
      PROVE  Covered(q, s)'
  <2>1. Covered(q, s) /\ cache'[q][s] \in Int /\ cache[q][s] \in Int
    BY <1>0, <1>2, Times DEF IInv, NoEntry
  <2>2. QED BY <1>0, <1>2, <2>1, CoveredKept
<1>5. QED BY <1>1, <1>3, <1>4 DEF IInv

(* The steps of the store that no call of verify() makes.                  *)
StoreOnly == UNCHANGED <<now, requests, window, proofs, accepted>>

LEMMA CleanupStep ==
  ASSUME IInv, NEW p \in Proc, Cleanup(p), StoreOnly
  PROVE  IInv'
<1> DEFINE entries == [k \in Req |-> IF Has(p, k) THEN cache[p][k] ELSE NoEntry]
<1>0. /\ TypeOK /\ StoreOnly /\ UNCHANGED forgot
      /\ cache' = [cache EXCEPT ![p] = entries] /\ Save(p, entries)
  BY DEF IInv, Cleanup
<1>1. entries \in Entries
  BY <1>0 DEF TypeOK, Entries
<1>2. TypeOK' /\ WriteThrough'
  BY <1>0, <1>1, SaveType, SaveWriteThrough DEF TypeOK, StoreOnly
<1>3. ASSUME NEW q \in Proc, NEW s \in Req
      PROVE  Covered(q, s)'
  <2>1. Covered(q, s) /\ cache'[q][s] \in Int
    BY <1>0, <1>1, <1>2, Times DEF IInv, TypeOK, Entries, NoEntry
  <2>2. cache'[q][s] = cache[q][s] \/ cache[q][s] < Sec(now)
    BY <1>0, Times DEF Has, TypeOK
  <2>3. QED BY <1>0, <2>1, <2>2, Times, CoveredKept DEF StoreOnly
<1>4. QED BY <1>2, <1>3 DEF IInv

LEMMA ClearStep ==
  ASSUME IInv, NEW p \in Proc, Clear(p), StoreOnly
  PROVE  IInv'
<1>0. /\ TypeOK /\ StoreOnly /\ Nothing \in Entries
      /\ cache' = [cache EXCEPT ![p] = Nothing] /\ Save(p, Nothing)
      /\ forgot' = [forgot EXCEPT ![p] = forgot[p] \cup Live(cache[p])]
  BY NothingType DEF IInv, Clear, TypeOK
<1>1. TypeOK' /\ WriteThrough'
  BY <1>0, SaveType, SaveWriteThrough DEF TypeOK, StoreOnly, Live
<1>2. ASSUME NEW q \in Proc, NEW s \in Req
      PROVE  Covered(q, s)'
  <2>1. Covered(q, s) /\ cache'[q][s] \in Int /\ (s \in forgot[q] => s \in forgot'[q])
    BY <1>0, <1>1 DEF IInv, TypeOK, Entries, NoEntry
  <2>2. cache'[q][s] = cache[q][s] \/ cache[q][s] < Sec(now) \/ s \in forgot'[q]
    BY <1>0, Times DEF Live, TypeOK
  <2>3. QED BY <1>0, <2>1, <2>2, Times, CoveredKept DEF StoreOnly
<1>3. QED BY <1>1, <1>2 DEF IInv

LEMMA ReloadStep ==
  ASSUME IInv, NEW p \in Proc, NEW entries \in Entries, Reload(p, entries), StoreOnly,
         \/ entries = file /\ UNCHANGED <<file, writer>>
         \/ file' = Nothing /\ writer' = NoProc
  PROVE  IInv'
<1>0. /\ TypeOK /\ StoreOnly /\ Loaded(entries) \in Entries
      /\ cache' = [cache EXCEPT ![p] = Loaded(entries)]
      /\ forgot' = [forgot EXCEPT ![p] =
             forgot[p] \cup {k \in Live(cache[p]) : Loaded(entries)[k] < cache[p][k]}]
  BY LoadedType DEF IInv, Reload, TypeOK
<1>1. TypeOK'
  BY <1>0, NothingType DEF TypeOK, StoreOnly, Live
<1>2. WriteThrough'
  <2>1. CASE entries = file /\ UNCHANGED <<file, writer>>
    <3>1. \A k \in Req : Loaded(entries)[k] \in {file[k], NoEntry}
      BY <2>1 DEF Loaded
    <3>2. QED BY <1>0, <2>1, <3>1, Times DEF IInv, WriteThrough, Has, TypeOK, StoreOnly, NoEntry
  <2>2. QED BY <2>1, ProcAssumption DEF WriteThrough
<1>3. ASSUME NEW q \in Proc, NEW s \in Req
      PROVE  Covered(q, s)'
  <2>1. Covered(q, s) /\ cache'[q][s] \in Int /\ (s \in forgot[q] => s \in forgot'[q])
    BY <1>0, <1>1 DEF IInv, TypeOK, Entries, NoEntry
  <2>2. cache'[q][s] >= cache[q][s] \/ cache[q][s] < Sec(now) \/ s \in forgot'[q]
    <3>1. CASE q = p
      BY <1>0, <2>1, <3>1, Times DEF Live, TypeOK, Entries
    <3>2. CASE q # p
      BY <1>0, <3>2, Times DEF TypeOK
    <3>3. QED BY <3>1, <3>2
  <2>3. QED BY <1>0, <2>1, <2>2, CoveredKept DEF StoreOnly
<1>4. QED BY <1>1, <1>2, <1>3 DEF IInv

LEMMA Inductive == IInv /\ [Next]_vars => IInv'
<1> SUFFICES ASSUME IInv, [Next]_vars
             PROVE  IInv'
  OBVIOUS
<1>1. CASE \E t \in Instants : Tick(t)
  BY <1>1, TickStep
<1>2. CASE \E r \in Req, ttl \in Ttls, off \in Offsets : CreateRequest(r, ttl, off)
  BY <1>2, CreateRequestStep
<1>3. CASE \E r \in Req, off \in Offsets : CreateProof(r, off)
  BY <1>3, CreateProofStep
<1>4. CASE \E p \in Proc, r \in Req : VerifyAccept(p, r) \/ VerifyCredentialProof(p, r)
  BY <1>4, AddStep DEF VerifyAccept, VerifyCredentialProof
<1>5. CASE \E p \in Proc, r \in Req, defect \in Defect : VerifyReject(p, r, defect)
  BY <1>5, RejectStep
<1>6. CASE \E p \in Proc : /\ Cleanup(p) \/ Clear(p) \/ Restart(p) \/ CrashInSave(p)
                         /\ UNCHANGED <<now, requests, window, proofs, accepted>>
  <2>1. PICK p \in Proc : /\ Cleanup(p) \/ Clear(p) \/ Restart(p) \/ CrashInSave(p)
                         /\ StoreOnly
    BY <1>6 DEF StoreOnly
  <2>2. CASE Restart(p)
    <3>1. file \in Entries
      BY DEF IInv, TypeOK
    <3>2. QED BY <2>1, <2>2, <3>1, ReloadStep DEF Restart
  <2>3. CASE CrashInSave(p)
    BY <2>1, <2>3, NothingType, ReloadStep DEF CrashInSave
  <2>4. QED BY <2>1, <2>2, <2>3, CleanupStep, ClearStep
<1>7. CASE UNCHANGED vars
  BY <1>7 DEF vars, IInv, TypeOK, WriteThrough, Has, Covered, Bound
<1>8. QED BY <1>1, <1>2, <1>3, <1>4, <1>5, <1>6, <1>7 DEF Next

LEMMA Invariant == Spec => []IInv
BY InitIInv, Inductive, PTL DEF Spec

-----------------------------------------------------------------------------
(* What holds in every instance *)

(* The state of the verifiers and their stores is well typed.              *)
THEOREM TypeCorrect == Spec => []TypeOK
<1>1. IInv => TypeOK
  BY DEF IInv
<1>2. QED BY <1>1, Invariant, PTL

(* The process that wrote the file last has on it whatever has not lapsed  *)
(* in its map.                                                             *)
THEOREM FileHoldsMap == Spec => []WriteThrough
<1>1. IInv => WriteThrough
  BY DEF IInv
<1>2. QED BY <1>1, Invariant, PTL

(* Whatever the times of the requests, the clocks and the faults, a second *)
(* acceptance of a request has one of the two explanations.                *)
THEOREM ReplaysExplained == Spec => ReplayExplained
<1>1. ASSUME IInv, NEW p \in Proc, NEW r \in Req, AcceptsAgain(p, r)
      PROVE  \/ r \in forgot[p]
             \/ /\ Sec(now) = Sec(window[r].expires)
                /\ window[r].expires - accepted[p][r] > MIN_TTL_SECONDS * 1000
  <2>1. /\ accepted[p][r] # Never /\ cache[p][r] < Sec(now) /\ now <= window[r].expires
        /\ cache[p][r] \in Int /\ Sec(now) \in Nat /\ Sec(window[r].expires) \in Nat
    BY <1>1, Times DEF AcceptsAgain, VerifyAccept, NoErrors, Has, IInv
  <2>2. Sec(now) <= Sec(window[r].expires)
    BY <1>1, <2>1, Times, SecMonotone DEF IInv
  <2>3. r \in forgot[p] \/ Sec(now) > Bound(p, r)
    BY <1>1, <2>1 DEF IInv, Covered, Bound
  <2>4. QED BY <2>1, <2>2, <2>3 DEF Bound
<1>2. IInv /\ [Next]_vars
        => [\A p \in Proc, r \in Req : AcceptsAgain(p, r) =>
              \/ r \in forgot[p]
              \/ /\ Sec(now) = Sec(window[r].expires)
                 /\ window[r].expires - accepted[p][r] > MIN_TTL_SECONDS * 1000]_vars
  BY <1>1
<1>3. QED BY <1>2, Invariant, PTL DEF Spec, ReplayExplained

=============================================================================
