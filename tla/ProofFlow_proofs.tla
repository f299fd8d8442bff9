---------------------------- MODULE ProofFlow_proofs ----------------------------
(***************************************************************************)
(* What TLAPS proves about ProofFlow, for any number of overlapping        *)
(* uploads, any number of missions and any limit, requests that fail or    *)
(* are lost at any step included.                                          *)
(*                                                                         *)
(* CallsWithinLimit is not inductive: a call is made by a request that     *)
(* reserved its attempt long before, so the invariant counts the calls     *)
(* made together with those still to be made, and knows that whoever found *)
(* an attempt left holds the lock until the attempt is taken.              *)
(***************************************************************************)
EXTENDS ProofFlow, FiniteSetTheorems, TLAPS

Request ==
  [phase : {"idle", "checked", "reserving", "calling", "storing", "completing"},
   id : Ids, verdict : Verdicts]

\* The requests that have an attempt for mission i and have not yet used it.
AboutToCall(i) == {u \in Uploads : upload[u].phase = "calling" /\ upload[u].id = i}

(* Every call, made or still to be made, has an attempt of its own.        *)
CallsReserved ==
  \A i \in Ids : calls[i] + Cardinality(AboutToCall(i)) <= attempts[i]

(* Whoever found an attempt left holds the lock.                           *)
ReservingLocks ==
  \A u \in Uploads : upload[u].phase = "reserving" =>
    lock = u /\ attempts[upload[u].id] < MaxProofAttempts

IInv == TypeOK /\ ReservingLocks /\ CallsReserved

-------------------------------------------------------------------------------
(* Lemmas about requests.                                                  *)

LEMMA AboutToCallFinite ==
  ASSUME NEW i
  PROVE  IsFiniteSet(AboutToCall(i)) /\ Cardinality(AboutToCall(i)) \in Nat
<1>1. AboutToCall(i) \subseteq Uploads
  BY DEF AboutToCall
<1> QED
  BY <1>1, UploadsAssumption, FS_Subset, FS_CardinalityType

(* A request that changes and is not about to call afterwards: the set of  *)
(* those that are loses it if it was there, and changes for no mission     *)
(* other than its own.                                                     *)
LEMMA NoMoreCalls ==
  ASSUME NEW u \in Uploads, NEW r \in Request, r.phase # "calling",
         upload' = [upload EXCEPT ![u] = r], TypeOK, NEW i \in Ids
  PROVE  /\ Cardinality(AboutToCall(i)') \in Nat
         /\ Cardinality(AboutToCall(i)') <= Cardinality(AboutToCall(i))
         /\ u \in AboutToCall(i) =>
              Cardinality(AboutToCall(i)') = Cardinality(AboutToCall(i)) - 1
<1>1. AboutToCall(i)' = AboutToCall(i) \ {u}
  BY DEF AboutToCall, TypeOK
<1>2. CASE u \in AboutToCall(i)
  <2>1. IsFiniteSet(AboutToCall(i)) /\ Cardinality(AboutToCall(i)) \in Nat
    BY AboutToCallFinite
  <2>2. /\ IsFiniteSet(AboutToCall(i) \ {u})
        /\ Cardinality(AboutToCall(i) \ {u}) = Cardinality(AboutToCall(i)) - 1
    BY <1>2, <2>1, FS_RemoveElement
  <2>3. Cardinality(AboutToCall(i) \ {u}) \in Nat
    BY <2>2, FS_CardinalityType
  <2> QED
    BY <1>1, <1>2, <2>1, <2>2, <2>3
<1>3. CASE u \notin AboutToCall(i)
  <2>1. AboutToCall(i)' = AboutToCall(i)
    BY <1>1, <1>3
  <2> QED
    BY <1>3, <2>1, AboutToCallFinite
<1> QED
  BY <1>2, <1>3

(* A step that answers or moves request u on, without giving it a call,    *)
(* makes no call and takes no attempt: the counts stay within bounds.      *)
LEMMA QuietStep ==
  ASSUME IInv, NEW u \in Uploads, NEW r \in Request,
         r.phase \notin {"calling", "reserving"},
         upload' = [upload EXCEPT ![u] = r],
         UNCHANGED <<attempts, calls>>,
         \A w \in Uploads \ {u} : upload[w].phase = "reserving" => lock' = lock,
         TypeOK'
  PROVE  IInv'
<1> TypeOK
  BY DEF IInv
<1>1. ReservingLocks'
  BY DEF ReservingLocks, IInv, TypeOK
<1>2. ASSUME NEW i \in Ids
      PROVE  calls'[i] + Cardinality(AboutToCall(i)') <= attempts'[i]
  <2>1. /\ Cardinality(AboutToCall(i)') \in Nat
        /\ Cardinality(AboutToCall(i)) \in Nat
        /\ Cardinality(AboutToCall(i)') <= Cardinality(AboutToCall(i))
    BY NoMoreCalls, AboutToCallFinite
  <2>2. calls[i] \in Nat /\ attempts[i] \in Nat
        /\ calls[i] + Cardinality(AboutToCall(i)) <= attempts[i]
    BY DEF IInv, TypeOK, CallsReserved
  <2> QED
    BY <2>1, <2>2
<1> QED
  BY <1>1, <1>2 DEF IInv, CallsReserved

LEMMA SettledType ==
  ASSUME TypeOK, NEW i \in Ids, NEW s \in {"completed", "cancelled"}
  PROVE  Settled(i, s) \in [Ids -> {"none", "assigned", "completed", "cancelled"}]
BY DEF Settled, TypeOK

LEMMA CompletesType ==
  ASSUME TypeOK, NEW i \in Ids, Completes(i)
  PROVE  /\ status' \in [Ids -> {"none", "assigned", "completed", "cancelled"}]
         /\ paid' \in [Ids -> Nat]
<1>1. CASE Completable(i)
  <2>1. paid' = [paid EXCEPT ![i] = @ + 1] /\ status' = Settled(i, "completed")
    BY <1>1 DEF Completes
  <2>2. paid' \in [Ids -> Nat]
    BY <2>1 DEF TypeOK
  <2> QED
    BY <2>1, <2>2, SettledType
<1>2. CASE ~Completable(i)
  BY <1>2 DEF Completes, TypeOK
<1> QED
  BY <1>1, <1>2

(* Where a request that moves has gone.                                    *)
LEMMA Moves ==
  ASSUME TypeOK, NEW u \in Uploads, NEW phase, To(u, phase)
  PROVE  /\ upload'[u].phase = phase /\ upload'[u].id = upload[u].id
         /\ \A w \in Uploads \ {u} : upload'[w] = upload[w]
BY DEF To, TypeOK

-------------------------------------------------------------------------------
(* The invariant.                                                          *)

LEMMA InitIInv == Init => IInv
<1> SUFFICES ASSUME Init PROVE IInv
  OBVIOUS
<1> USE LimitAssumption, MissionsAssumption
<1>1. TypeOK
  BY DEF Init, TypeOK, Idle, Ids, Verdicts
<1>2. \A i \in Ids : AboutToCall(i) = {}
  BY DEF Init, AboutToCall, Idle
<1>3. CallsReserved
  BY <1>2, FS_EmptySet DEF Init, CallsReserved
<1>4. ReservingLocks
  BY DEF Init, ReservingLocks, Idle
<1> QED
  BY <1>1, <1>3, <1>4 DEF IInv

LEMMA UploadKeeps ==
  ASSUME IInv, NEW u \in Uploads,
         Proceeds(u) \/ Fails(u) \/ \E i \in Ids : Submit(u, i)
  PROVE  IInv'
<1> USE LimitAssumption, MissionsAssumption
<1> TypeOK /\ ReservingLocks /\ CallsReserved
  BY DEF IInv
<1> DEFINE i == upload[u].id
<1>0. i \in Ids /\ upload[u] \in Request /\ u # NoUpload
  BY NoUploadAssumption DEF TypeOK, Request
<1>1. ASSUME NEW j \in Ids, Submit(u, j) PROVE IInv'
  <2> DEFINE r == [Idle EXCEPT !.id = j,
                     !.phase = IF Accepted(j) THEN "completing" ELSE "checked"]
  <2>1. r \in Request /\ r.phase \in {"completing", "checked"}
    BY DEF Idle, Request, Verdicts
  <2>2. upload' = [upload EXCEPT ![u] = r]
        /\ UNCHANGED <<dbVars, lock, calls, patient>>
    BY <1>1 DEF Submit
  <2> HIDE DEF r
  <2>3. TypeOK'
    BY <2>1, <2>2 DEF TypeOK, Request, dbVars
  <2> QED
    BY <2>1, <2>2, <2>3, QuietStep DEF dbVars
<1>2. CASE ReserveReads(u)
  <2>1. /\ upload[u].phase = "checked" /\ lock = NoUpload
        /\ UNCHANGED <<dbVars, calls, patient>>
    BY <1>2 DEF ReserveReads
  <2>2. ASSUME NEW phase \in {"completing", "idle"}, To(u, phase), UNCHANGED lock
        PROVE  IInv'
    <3> DEFINE r == [upload[u] EXCEPT !.phase = phase]
    <3>1. r \in Request /\ r.phase = phase
      BY <1>0 DEF Request
    <3>2. upload' = [upload EXCEPT ![u] = r]
      BY <2>2 DEF To
    <3> HIDE DEF r
    <3>3. TypeOK'
      BY <2>1, <2>2, <3>1, <3>2 DEF TypeOK, Request, dbVars
    <3> QED
      BY <2>1, <2>2, <3>1, <3>2, <3>3, QuietStep DEF dbVars
  <2>3. CASE Left(i) /\ To(u, "reserving") /\ lock' = u
    <3>1. TypeOK'
      BY <2>1, <2>3 DEF TypeOK, To, dbVars
    <3>2. \A w \in Uploads : upload[w].phase # "reserving"
      BY <2>1, NoUploadAssumption DEF ReservingLocks
    <3>3. /\ upload'[u].phase = "reserving" /\ upload'[u].id = i
          /\ \A w \in Uploads \ {u} : upload'[w] = upload[w]
      BY <2>3 DEF To, TypeOK
    <3>4. ReservingLocks'
      BY <2>1, <2>3, <3>2, <3>3 DEF ReservingLocks, Left, dbVars
    <3>5. \A j \in Ids : AboutToCall(j)' = AboutToCall(j)
      BY <2>1, <3>3 DEF AboutToCall
    <3>6. CallsReserved'
      BY <2>1, <3>5 DEF CallsReserved, dbVars
    <3> QED
      BY <3>1, <3>4, <3>6 DEF IInv
  <2> QED
    BY <1>2, <2>2, <2>3 DEF ReserveReads, Answer
<1>3. CASE ReserveCommits(u)
  <2>1. /\ upload[u].phase = "reserving" /\ lock' = NoUpload
        /\ attempts' = [attempts EXCEPT ![i] = @ + 1]
        /\ UNCHANGED <<playing, status, proofs, paid, calls, patient>>
    BY <1>3 DEF ReserveCommits
  <2>2. /\ upload'[u].phase = "calling" /\ upload'[u].id = i
        /\ \A w \in Uploads \ {u} : upload'[w] = upload[w]
        /\ upload' \in [Uploads -> Request]
    BY <1>0, <1>3 DEF ReserveCommits, To, TypeOK, Request
  <2>3. lock = u /\ attempts[i] < MaxProofAttempts
    BY <2>1 DEF ReservingLocks
  <2>4. attempts' \in [Ids -> 0 .. MaxProofAttempts]
    BY <1>0, <2>1, <2>3 DEF TypeOK
  <2>5. TypeOK'
    BY <2>1, <2>2, <2>4 DEF TypeOK, Request
  <2>6. \A w \in Uploads : upload'[w].phase # "reserving"
    BY <2>2, <2>3 DEF ReservingLocks
  <2>7. ASSUME NEW j \in Ids
        PROVE  calls'[j] + Cardinality(AboutToCall(j)') <= attempts'[j]
    <3>1. calls[j] \in Nat /\ attempts[j] \in Nat
          /\ calls[j] + Cardinality(AboutToCall(j)) <= attempts[j]
          /\ Cardinality(AboutToCall(j)) \in Nat
      BY AboutToCallFinite DEF TypeOK, CallsReserved
    <3>2. CASE j = i
      <4>1. AboutToCall(j)' = AboutToCall(j) \cup {u} /\ u \notin AboutToCall(j)
        BY <2>1, <2>2, <3>2 DEF AboutToCall
      <4>2. Cardinality(AboutToCall(j)') = Cardinality(AboutToCall(j)) + 1
        BY <4>1, AboutToCallFinite, FS_AddElement
      <4>3. attempts'[j] = attempts[j] + 1
        BY <2>1, <3>2 DEF TypeOK
      <4> QED
        BY <2>1, <3>1, <4>2, <4>3
    <3>3. CASE j # i
      <4>1. AboutToCall(j)' = AboutToCall(j)
        BY <2>1, <2>2, <3>3 DEF AboutToCall
      <4>2. attempts'[j] = attempts[j]
        BY <2>1, <3>3 DEF TypeOK
      <4> QED
        BY <2>1, <3>1, <4>1, <4>2
    <3> QED
      BY <3>2, <3>3
  <2> QED
    BY <2>5, <2>6, <2>7 DEF IInv, ReservingLocks, CallsReserved
<1>4. CASE CallProvider(u)
  <2>1. /\ upload[u].phase = "calling" /\ calls' = [calls EXCEPT ![i] = @ + 1]
        /\ UNCHANGED <<dbVars, lock, patient>>
    BY <1>4 DEF CallProvider
  <2>2. PICK r \in Request : /\ r.phase \in {"idle", "storing"}
                             /\ upload' = [upload EXCEPT ![u] = r]
    <3>1. CASE Answer(u)
      <4>1. [upload[u] EXCEPT !.phase = "idle"] \in Request
        BY <1>0 DEF Request
      <4>2. upload' = [upload EXCEPT ![u] = [upload[u] EXCEPT !.phase = "idle"]]
        BY <3>1 DEF Answer, To
      <4> QED
        BY <1>0, <4>1, <4>2 DEF Request
    <3>2. ASSUME NEW v \in Verdicts,
                 upload' = [upload EXCEPT ![u].phase = "storing", ![u].verdict = v]
          PROVE  \E r \in Request : /\ r.phase \in {"idle", "storing"}
                                    /\ upload' = [upload EXCEPT ![u] = r]
      <4> DEFINE r == [upload[u] EXCEPT !.phase = "storing", !.verdict = v]
      <4>1. r \in Request /\ r.phase = "storing"
        BY <1>0 DEF Request
      <4>2. upload' = [upload EXCEPT ![u] = r]
        BY <3>2 DEF TypeOK
      <4> QED
        BY <4>1, <4>2
    <3> QED
      BY <1>4, <3>1, <3>2 DEF CallProvider
  <2>3. TypeOK'
    <3>1. calls' \in [Ids -> Nat]
      BY <1>0, <2>1 DEF TypeOK
    <3> QED
      BY <2>1, <2>2, <3>1 DEF TypeOK, Request, dbVars
  <2>4. ReservingLocks'
    BY <2>1, <2>2 DEF ReservingLocks, TypeOK, dbVars
  <2>5. ASSUME NEW j \in Ids
        PROVE  calls'[j] + Cardinality(AboutToCall(j)') <= attempts'[j]
    <3>1. /\ calls[j] \in Nat /\ attempts[j] \in Nat /\ attempts' = attempts
          /\ calls[j] + Cardinality(AboutToCall(j)) <= attempts[j]
          /\ Cardinality(AboutToCall(j)) \in Nat
      BY <2>1, AboutToCallFinite DEF TypeOK, CallsReserved, dbVars
    <3>2. /\ Cardinality(AboutToCall(j)') \in Nat
          /\ Cardinality(AboutToCall(j)') <= Cardinality(AboutToCall(j))
          /\ u \in AboutToCall(j) =>
               Cardinality(AboutToCall(j)') = Cardinality(AboutToCall(j)) - 1
      BY <2>2, NoMoreCalls
    <3>3. CASE j = i
      <4>1. u \in AboutToCall(j) /\ calls'[j] = calls[j] + 1
        BY <2>1, <3>3 DEF AboutToCall, TypeOK
      <4> QED
        BY <3>1, <3>2, <4>1
    <3>4. CASE j # i
      <4>1. calls'[j] = calls[j]
        BY <2>1, <3>4 DEF TypeOK
      <4> QED
        BY <3>1, <3>2, <4>1
    <3> QED
      BY <3>3, <3>4
  <2> QED
    BY <2>3, <2>4, <2>5 DEF IInv, CallsReserved
<1>5. ASSUME NEW phase \in {"idle", "completing"}, To(u, phase),
             UNCHANGED <<playing, attempts, calls, patient>>,
             status' \in [Ids -> {"none", "assigned", "completed", "cancelled"}],
             proofs' \in [Ids -> [Verdicts -> Nat]], paid' \in [Ids -> Nat],
             lock' \in {lock, NoUpload}, lock' = lock \/ lock = u
      PROVE  IInv'
  <2> DEFINE r == [upload[u] EXCEPT !.phase = phase]
  <2>1. r \in Request /\ r.phase = phase
    BY <1>0 DEF Request
  <2>2. upload' = [upload EXCEPT ![u] = r]
    BY <1>5 DEF To
  <2> HIDE DEF r
  <2>3. TypeOK'
    BY <1>5, <2>1, <2>2 DEF TypeOK, Request
  <2>4. \A w \in Uploads \ {u} : upload[w].phase = "reserving" => lock' = lock
    BY <1>5 DEF ReservingLocks
  <2> QED
    BY <1>5, <2>1, <2>2, <2>3, <2>4, QuietStep
<1>6. CASE StoreProof(u)
  <2>1. proofs' \in [Ids -> [Verdicts -> Nat]]
    <3>1. upload[u].verdict \in Verdicts
      BY <1>0 DEF Request
    <3>2. proofs[i][upload[u].verdict] + 1 \in Nat
      BY <1>0, <3>1 DEF TypeOK
    <3> QED
      BY <1>0, <1>6, <3>1, <3>2 DEF StoreProof, TypeOK
  <2> QED
    BY <1>5, <1>6, <2>1 DEF StoreProof, Answer, TypeOK
<1>7. CASE CompleteProof(u)
  <2>1. /\ status' \in [Ids -> {"none", "assigned", "completed", "cancelled"}]
        /\ paid' \in [Ids -> Nat]
    BY <1>0, <1>7, CompletesType DEF CompleteProof
  <2> QED
    BY <1>5, <1>7, <2>1 DEF CompleteProof, Answer, TypeOK
<1>8. CASE Fails(u)
  BY <1>5, <1>8 DEF Fails, Answer, TypeOK, dbVars
<1> QED
  BY <1>1, <1>2, <1>3, <1>4, <1>6, <1>7, <1>8 DEF Proceeds

LEMMA NextIInv == IInv /\ [Next]_vars => IInv'
<1> SUFFICES ASSUME IInv, [Next]_vars PROVE IInv'
  OBVIOUS
<1>1. ASSUME UNCHANGED <<attempts, lock, upload, calls>>, TypeOK' PROVE IInv'
  <2>1. \A i \in Ids : AboutToCall(i)' = AboutToCall(i)
    BY <1>1 DEF AboutToCall
  <2> QED
    BY <1>1, <2>1 DEF IInv, ReservingLocks, CallsReserved
<1>2. ASSUME NEW i \in Ids, CompleteByHand(i) PROVE IInv'
  <2>1. /\ status' \in [Ids -> {"none", "assigned", "completed", "cancelled"}]
        /\ paid' \in [Ids -> Nat]
    BY <1>2, CompletesType DEF CompleteByHand, IInv
  <2>2. TypeOK'
    BY <1>2, <2>1 DEF CompleteByHand, IInv, TypeOK
  <2> QED
    BY <1>1, <1>2, <2>2 DEF CompleteByHand
<1>3. ASSUME NEW i \in Ids, SkipTreasureMission(i) PROVE IInv'
  <2>1. TypeOK'
    BY <1>3, SettledType DEF SkipTreasureMission, IInv, TypeOK
  <2> QED
    BY <1>1, <1>3, <2>1 DEF SkipTreasureMission
<1>4. CASE EndGame
  BY <1>1, <1>4 DEF EndGame, IInv, TypeOK
<1>5. CASE UNCHANGED vars
  BY <1>1, <1>5 DEF vars, dbVars, IInv, TypeOK
<1> QED
  BY <1>2, <1>3, <1>4, <1>5, UploadKeeps DEF Next

LEMMA Invariance == Spec => []IInv
BY InitIInv, NextIInv, PTL DEF Spec

(* Every row and every request keeps the values the code gives it: the     *)
(* attempts of a mission never pass the check of the database.             *)
THEOREM TypeCorrect == Spec => []TypeOK
<1>1. IInv => TypeOK
  BY DEF IInv
<1> QED
  BY <1>1, Invariance, PTL

(* MaxProofAttempts calls at most are paid for a mission, however many     *)
(* requests overlap and wherever they fail.                                *)
THEOREM CallsAreLimited == Spec => []CallsWithinLimit
<1>1. IInv => CallsWithinLimit
  <2> SUFFICES ASSUME IInv, NEW i \in Ids PROVE calls[i] <= MaxProofAttempts
    BY DEF CallsWithinLimit
  <2>1. /\ calls[i] \in Nat /\ attempts[i] \in 0 .. MaxProofAttempts
        /\ Cardinality(AboutToCall(i)) \in Nat
        /\ calls[i] + Cardinality(AboutToCall(i)) <= attempts[i]
    BY AboutToCallFinite DEF IInv, TypeOK, CallsReserved
  <2> QED
    BY <2>1, LimitAssumption
<1> QED
  BY <1>1, Invariance, PTL

-------------------------------------------------------------------------------
(* What a completion does to the missions.                                 *)

LEMMA SettledMissions ==
  ASSUME TypeOK, NEW i \in Ids, Active(i), NEW s \in {"completed", "cancelled"}
  PROVE  \A j \in Ids :
           Settled(i, s)[j] = "completed" <=>
             (j = i /\ s = "completed") \/ (j # i /\ status[j] = "completed")
BY DEF Settled, TypeOK, Active

(* The transaction of complete pays mission i, which is current, proved    *)
(* and not yet paid, or does nothing.                                      *)
LEMMA CompletesOnce ==
  ASSUME TypeOK, PaidOnceForAProof, NEW i \in Ids, Completes(i), UNCHANGED proofs
  PROVE  PaidOnceForAProof'
<1>1. CASE ~Completable(i)
  BY <1>1 DEF Completes, PaidOnceForAProof
<1>2. CASE Completable(i)
  <2>1. /\ status' = Settled(i, "completed")
        /\ paid' = [paid EXCEPT ![i] = @ + 1]
        /\ status[i] = "assigned" /\ proofs[i]["valid"] > 0
    BY <1>2 DEF Completes, Completable, Active, Accepted
  <2>2. \A j \in Ids : status'[j] = "completed" <=> j = i \/ status[j] = "completed"
    BY <1>2, <2>1, SettledMissions DEF Completable
  <2>3. paid[i] = 0
    BY <2>1 DEF PaidOnceForAProof
  <2>4. \A j \in Ids : paid'[j] = IF j = i THEN 1 ELSE paid[j]
    BY <2>1, <2>3 DEF TypeOK
  <2> QED
    BY <2>1, <2>2, <2>4 DEF PaidOnceForAProof
<1> QED
  BY <1>1, <1>2

(* A mission is paid once, exactly when it is completed, and only for a    *)
(* valid photo, whichever request or hand completes it.                    *)
THEOREM PaymentIsEarned == Spec => []PaidOnceForAProof
<1>1. Init => PaidOnceForAProof
  BY DEF Init, PaidOnceForAProof
<1>2. TypeOK /\ PaidOnceForAProof /\ [Next]_vars => PaidOnceForAProof'
  <2> SUFFICES ASSUME TypeOK, PaidOnceForAProof, [Next]_vars
               PROVE  PaidOnceForAProof'
    OBVIOUS
  <2>1. ASSUME NEW u \in Uploads, CompleteProof(u) PROVE PaidOnceForAProof'
    BY <2>1, CompletesOnce DEF CompleteProof, TypeOK
  <2>2. ASSUME NEW i \in Ids, CompleteByHand(i) PROVE PaidOnceForAProof'
    BY <2>2, CompletesOnce DEF CompleteByHand
  <2>3. ASSUME NEW i \in Ids, SkipTreasureMission(i) PROVE PaidOnceForAProof'
    <3>1. \A j \in Ids : status'[j] = "completed" <=> status[j] = "completed"
      BY <2>3, SettledMissions DEF SkipTreasureMission, Active
    <3> QED
      BY <2>3, <3>1 DEF SkipTreasureMission, PaidOnceForAProof
  <2>4. ASSUME NEW u \in Uploads, StoreProof(u) PROVE PaidOnceForAProof'
    <3>1. \A j \in Ids : proofs[j]["valid"] > 0 => proofs'[j]["valid"] > 0
      <4>1. "valid" \in Verdicts
        BY DEF Verdicts
      <4> QED
        BY <2>4, <4>1 DEF StoreProof, TypeOK
    <3>2. UNCHANGED <<status, paid>>
      BY <2>4 DEF StoreProof
    <3> QED
      BY <3>1, <3>2 DEF PaidOnceForAProof
  <2>5. CASE UNCHANGED <<status, proofs, paid>>
    BY <2>5 DEF PaidOnceForAProof
  <2>6. \/ \E u \in Uploads : CompleteProof(u) \/ StoreProof(u)
        \/ \E i \in Ids : CompleteByHand(i) \/ SkipTreasureMission(i)
        \/ UNCHANGED <<status, proofs, paid>>
    BY DEF Next, Proceeds, Submit, ReserveReads, ReserveCommits, CallProvider, Fails,
           EndGame, vars, dbVars
  <2> QED
    BY <2>1, <2>2, <2>3, <2>4, <2>5, <2>6
<1> QED
  BY <1>1, <1>2, TypeCorrect, PTL DEF Spec

-------------------------------------------------------------------------------
(* The patient player.                                                     *)

(* While a patient player waits, the mission whose photo is being judged   *)
(* has not been proved: nobody else may have stored a verdict.             *)
OneAtATime ==
  patient =>
    /\ \A u, w \in Uploads :
         upload[u].phase # "idle" /\ upload[w].phase # "idle" => u = w
    /\ \A u \in Uploads :
         upload[u].phase \in {"reserving", "calling"} => ~Accepted(upload[u].id)

LEMMA NextOneAtATime == TypeOK /\ OneAtATime /\ [Next]_vars => OneAtATime'
<1> SUFFICES ASSUME TypeOK, OneAtATime, [Next]_vars, patient' PROVE OneAtATime'
  BY DEF OneAtATime
<1>0. patient
  BY DEF Next, Proceeds, Submit, ReserveReads, ReserveCommits, CallProvider, StoreProof,
         CompleteProof, Fails, CompleteByHand, SkipTreasureMission, EndGame, vars
<1>1. ASSUME NEW u \in Uploads,
             \A w \in Uploads \ {u} : upload[w].phase = "idle" /\ upload'[w] = upload[w],
             upload'[u].phase \in {"reserving", "calling"} => ~Accepted(upload[u].id)'
      PROVE  OneAtATime'
  BY <1>1 DEF OneAtATime
<1>2. ASSUME NEW u \in Uploads, NEW i \in Ids, Submit(u, i) PROVE OneAtATime'
  <2>1. upload'[u].phase \in {"completing", "checked"}
        /\ \A w \in Uploads \ {u} : upload[w].phase = "idle" /\ upload'[w] = upload[w]
    BY <1>0, <1>2 DEF Submit, Free, Idle, TypeOK
  <2> QED
    BY <1>1, <2>1
<1>3. ASSUME NEW u \in Uploads, Proceeds(u) \/ Fails(u) PROVE OneAtATime'
  <2>1. upload[u].phase # "idle"
    BY <1>3 DEF Proceeds, ReserveReads, ReserveCommits, CallProvider, StoreProof,
                CompleteProof, Fails
  <2>2. \A w \in Uploads \ {u} : upload[w].phase = "idle" /\ upload'[w] = upload[w]
    <3>1. \A w \in Uploads \ {u} : upload'[w] = upload[w]
      BY <1>3 DEF Proceeds, ReserveReads, ReserveCommits, CallProvider, StoreProof,
                  CompleteProof, Fails, To, Answer, TypeOK
    <3> QED
      BY <1>0, <2>1, <3>1 DEF OneAtATime
  <2>3. CASE ReserveReads(u)
    <3>1. /\ proofs' = proofs
          /\ \/ To(u, "completing") \/ To(u, "idle")
             \/ ~Accepted(upload[u].id) /\ To(u, "reserving")
      BY <2>3 DEF ReserveReads, Answer, dbVars
    <3>2. /\ upload'[u].id = upload[u].id
          /\ upload'[u].phase \in {"reserving", "calling"} => ~Accepted(upload[u].id)
      BY <3>1, Moves
    <3> QED
      BY <1>1, <2>2, <3>1, <3>2 DEF Accepted
  <2>4. CASE ReserveCommits(u)
    <3>1. proofs' = proofs /\ To(u, "calling") /\ upload[u].phase = "reserving"
      BY <2>4 DEF ReserveCommits
    <3>2. upload'[u].id = upload[u].id /\ ~Accepted(upload[u].id)
      BY <1>0, <3>1, Moves DEF OneAtATime
    <3> QED
      BY <1>1, <2>2, <3>1, <3>2 DEF Accepted
  <2>5. CASE CallProvider(u)
    <3>1. upload'[u].phase \in {"idle", "storing"}
      BY <2>5, Moves DEF CallProvider, Answer, TypeOK
    <3> QED
      BY <1>1, <2>2, <3>1
  <2>6. CASE StoreProof(u) \/ CompleteProof(u) \/ Fails(u)
    <3>1. To(u, "completing") \/ To(u, "idle")
      BY <2>6 DEF StoreProof, CompleteProof, Fails, Answer
    <3> QED
      BY <1>1, <2>2, <3>1, Moves
  <2> QED
    BY <1>3, <2>3, <2>4, <2>5, <2>6 DEF Proceeds
<1>4. CASE UNCHANGED <<upload, proofs>>
  BY <1>0, <1>4 DEF OneAtATime, Accepted
<1>5. UNCHANGED <<upload, proofs>>
      \/ \E u \in Uploads : Proceeds(u) \/ Fails(u) \/ \E i \in Ids : Submit(u, i)
  BY DEF Next, CompleteByHand, SkipTreasureMission, EndGame, vars, dbVars
<1> QED
  BY <1>2, <1>3, <1>4, <1>5

(* A player who sends one photo at a time never pays for a second call     *)
(* once a photo was accepted, wherever the answer was lost.                *)
THEOREM LostAnswersAreFree == Spec => LostAnswerCostsNoCall
<1>1. Init => OneAtATime
  BY DEF Init, OneAtATime, Idle
<1>2. TypeOK /\ OneAtATime /\ [Next]_vars =>
        (patient => \A i \in Ids : calls'[i] > calls[i] => proofs[i]["valid"] = 0)
  <2> SUFFICES ASSUME TypeOK, OneAtATime, [Next]_vars, patient,
                      NEW i \in Ids, calls'[i] > calls[i]
               PROVE  proofs[i]["valid"] = 0
    OBVIOUS
  <2>1. calls[i] \in Nat /\ proofs[i]["valid"] \in Nat
    BY DEF TypeOK, Verdicts
  <2>2. calls' # calls
    BY <2>1
  <2>3. PICK u \in Uploads : CallProvider(u)
    BY <2>2 DEF Next, Proceeds, Submit, ReserveReads, ReserveCommits, StoreProof,
                CompleteProof, Fails, CompleteByHand, SkipTreasureMission, EndGame, vars
  <2>4. upload[u].id = i
    BY <2>1, <2>3 DEF CallProvider, TypeOK
  <2>5. ~Accepted(i)
    BY <2>3, <2>4 DEF OneAtATime, CallProvider
  <2> QED
    BY <2>1, <2>5 DEF Accepted
<1> QED
  BY <1>1, <1>2, NextOneAtATime, TypeCorrect, PTL DEF Spec, LostAnswerCostsNoCall

===============================================================================
