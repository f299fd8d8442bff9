------------------------------- MODULE ProofFlow -------------------------------
(***************************************************************************)
(* Photo proofs of one player in a treasure hunt in trust mode: uploads    *)
(* that overlap, a paid provider called outside any transaction, a server  *)
(* that may die between two transactions, a player who retries, skips or   *)
(* completes by hand, and a game that ends meanwhile.                      *)
(*                                                                         *)
(* The transaction that reserves an attempt is two actions, since the one  *)
(* that stores a verdict does not take the lock of the game and may commit *)
(* in between.  GameFlow has the other players and the other rules.        *)
(***************************************************************************)
EXTENDS Naturals, FiniteSets

CONSTANTS
  Uploads,           \* POST /players/me/mission/proof requests served at a time
  Missions,          \* missions the player is given, in this order (bound)
  MaxProofAttempts   \* services.MaxProofAttempts, five

ASSUME UploadsAssumption == IsFiniteSet(Uploads)
ASSUME MissionsAssumption == Missions \in Nat \ {0}
ASSUME LimitAssumption == MaxProofAttempts \in Nat \ {0}

Ids == 1 .. Missions
NoUpload == "none"
Verdicts == {"valid", "invalid", "uncertain"}

ASSUME NoUploadAssumption == NoUpload \notin Uploads

VARIABLES
  playing,   \* games.status = "playing"
  status,    \* player_missions.status, "none" before the insertion
  attempts,  \* player_missions.proof_attempts
  proofs,    \* how many mission_proofs have each verdict
  paid,      \* how often the points of a mission were added to the score
  lock,      \* the upload whose transaction holds the lock of the game
  upload,    \* each request: where it is, its mission and its verdict
  calls,     \* calls of the provider made for a mission
  patient    \* the player waits for an answer before sending the next photo

dbVars == <<playing, status, attempts, proofs, paid>>
vars == <<dbVars, lock, upload, calls, patient>>

Idle == [phase |-> "idle", id |-> 1, verdict |-> "uncertain"]

(* Every row and every request has the values the code gives it.           *)
TypeOK ==
  /\ playing \in BOOLEAN
  /\ status \in [Ids -> {"none", "assigned", "completed", "cancelled"}]
  /\ attempts \in [Ids -> 0 .. MaxProofAttempts]
  /\ proofs \in [Ids -> [Verdicts -> Nat]]
  /\ paid \in [Ids -> Nat]
  /\ lock \in Uploads \cup {NoUpload}
  /\ upload \in [Uploads ->
       [phase : {"idle", "checked", "reserving", "calling", "storing", "completing"},
        id : Ids, verdict : Verdicts]]
  /\ calls \in [Ids -> Nat]
  /\ patient \in BOOLEAN

\* The mutant that asks whether the mission is completed, not whether it is proved.
AcceptedOnceCompleted(i) == status[i] = "completed"

\* ValidProof.
Accepted(i) == proofs[i]["valid"] > 0

\* checkProofAssignment.
Active(i) == status[i] = "assigned" /\ playing

\* ProofCount.
Stored(i) == proofs[i]["valid"] + proofs[i]["invalid"] + proofs[i]["uncertain"]

To(u, phase) == upload' = [upload EXCEPT ![u].phase = phase]
Answer(u) == To(u, "idle")

Left(i) == Stored(i) < MaxProofAttempts /\ attempts[i] < MaxProofAttempts

\* The page of a patient player sends one photo at a time.
Free(u) ==
  /\ upload[u].phase = "idle"
  /\ patient => \A w \in Uploads : upload[w].phase = "idle"

\* The mutant that refuses a player without attempts before it looks at the proofs.
SubmitWithAttemptsLeft(u, i) ==
  /\ Free(u) /\ Active(i) /\ Left(i)
  /\ upload' = [upload EXCEPT ![u] =
                  [Idle EXCEPT !.id = i,
                               !.phase = IF Accepted(i) THEN "completing" ELSE "checked"]]
  /\ UNCHANGED <<dbVars, lock, calls, patient>>

\* What SubmitMissionProof reads before any transaction.
Submit(u, i) ==
  /\ Free(u) /\ status[i] # "none"
  /\ Accepted(i) \/ Active(i)
  /\ upload' = [upload EXCEPT ![u] =
                  [Idle EXCEPT !.id = i,
                               !.phase = IF Accepted(i) THEN "completing" ELSE "checked"]]
  /\ UNCHANGED <<dbVars, lock, calls, patient>>

\* The reservation takes the lock and looks at everything again.
ReserveReads(u) ==
  LET i == upload[u].id
  IN /\ upload[u].phase = "checked" /\ lock = NoUpload
     /\ \/ Accepted(i) /\ To(u, "completing") /\ UNCHANGED lock
        \/ /\ ~Accepted(i) /\ ~(Active(i) /\ Left(i))
           /\ Answer(u) /\ UNCHANGED lock
        \/ /\ ~Accepted(i) /\ Active(i) /\ Left(i)
           /\ To(u, "reserving") /\ lock' = u
     /\ UNCHANGED <<dbVars, calls, patient>>

\* ReserveProofAttempt and the commit.
ReserveCommits(u) ==
  /\ upload[u].phase = "reserving"
  /\ attempts' = [attempts EXCEPT ![upload[u].id] = @ + 1]
  /\ lock' = NoUpload
  /\ To(u, "calling")
  /\ UNCHANGED <<playing, status, proofs, paid, calls, patient>>

\* The mutant that gives the attempt back when the provider fails.
CallProviderRefunding(u) ==
  /\ upload[u].phase = "calling"
  /\ calls' = [calls EXCEPT ![upload[u].id] = @ + 1]
  /\ \/ Answer(u) /\ attempts' = [attempts EXCEPT ![upload[u].id] = @ - 1]
     \/ \E v \in Verdicts :
          upload' = [upload EXCEPT ![u].phase = "storing", ![u].verdict = v]
          /\ UNCHANGED attempts
  /\ UNCHANGED <<playing, status, proofs, paid, lock, patient>>

\* Vision.Validate: a verdict, or an error the player is told of.
CallProvider(u) ==
  /\ upload[u].phase = "calling"
  /\ calls' = [calls EXCEPT ![upload[u].id] = @ + 1]
  /\ \/ Answer(u)
     \/ \E v \in Verdicts :
          upload' = [upload EXCEPT ![u].phase = "storing", ![u].verdict = v]
  /\ UNCHANGED <<dbVars, lock, patient>>

\* InsertProof, whatever became of the game and of the mission.
StoreProof(u) ==
  LET i == upload[u].id
      v == upload[u].verdict
  IN /\ upload[u].phase = "storing"
     /\ proofs' = [proofs EXCEPT ![i][v] = @ + 1]
     /\ IF v = "valid" THEN To(u, "completing") ELSE Answer(u)
     /\ UNCHANGED <<playing, status, attempts, paid, lock, calls, patient>>

\* The status of the missions once i has become s and the next one was given.
\* Missions beyond the bound are not followed.
Settled(i, s) ==
  [j \in Ids |-> CASE j = i -> s
                   [] j # i /\ status[j] = "none" /\ (\A k \in 1 .. j - 1 : status[k] # "none")
                        -> "assigned"
                   [] OTHER -> status[j]]

\* The mutant that only looks at the proof.
CompletableAgain(i) == playing /\ Accepted(i)

\* Does complete pay?  It answers "already completed" or refuses otherwise.
Completable(i) == Active(i) /\ Accepted(i)

\* The transaction of complete.
Completes(i) ==
  IF Completable(i)
  THEN /\ status' = Settled(i, "completed")
       /\ paid' = [paid EXCEPT ![i] = @ + 1]
  ELSE UNCHANGED <<status, paid>>

CompleteProof(u) ==
  /\ upload[u].phase = "completing" /\ lock = NoUpload
  /\ Completes(upload[u].id)
  /\ Answer(u)
  /\ UNCHANGED <<playing, attempts, proofs, lock, calls, patient>>

\* POST /players/me/mission/complete.
CompleteByHand(i) ==
  /\ lock = NoUpload /\ Completable(i)
  /\ Completes(i)
  /\ UNCHANGED <<playing, attempts, proofs, lock, upload, calls, patient>>

SkipTreasureMission(i) ==
  /\ lock = NoUpload /\ Active(i)
  /\ status' = Settled(i, "cancelled")
  /\ UNCHANGED <<playing, attempts, proofs, paid, lock, upload, calls, patient>>

EndGame ==
  /\ lock = NoUpload /\ playing
  /\ playing' = FALSE
  /\ UNCHANGED <<status, attempts, proofs, paid, lock, upload, calls, patient>>

\* A database error, a request given up, the end of the process: a rollback.
Fails(u) ==
  /\ upload[u].phase # "idle"
  /\ Answer(u)
  /\ lock' = IF lock = u THEN NoUpload ELSE lock
  /\ UNCHANGED <<dbVars, calls, patient>>

Init ==
  /\ playing = TRUE
  /\ status = [i \in Ids |-> IF i = 1 THEN "assigned" ELSE "none"]
  /\ attempts = [i \in Ids |-> 0]
  /\ proofs = [i \in Ids |-> [v \in Verdicts |-> 0]]
  /\ paid = [i \in Ids |-> 0]
  /\ lock = NoUpload
  /\ upload = [u \in Uploads |-> Idle]
  /\ calls = [i \in Ids |-> 0]
  /\ patient \in BOOLEAN

Proceeds(u) ==
  \/ ReserveReads(u) \/ ReserveCommits(u) \/ CallProvider(u)
  \/ StoreProof(u) \/ CompleteProof(u)

Next ==
  \/ \E u \in Uploads :
       Proceeds(u) \/ Fails(u) \/ \E i \in Ids : Submit(u, i)
  \/ \E i \in Ids : CompleteByHand(i) \/ SkipTreasureMission(i)
  \/ EndGame

Spec == Init /\ [][Next]_vars

(* A request that is served goes on, a player whose photo was accepted     *)
(* tries again, and some attempt gets through.                             *)
Retries(i) == \E u \in Uploads : Accepted(i) /\ Active(i) /\ Submit(u, i)

GetsThrough(i) == \E u \in Uploads : upload[u].id = i /\ CompleteProof(u)

Fairness ==
  /\ \A u \in Uploads : WF_vars(Proceeds(u))
  /\ \A i \in Ids : SF_vars(Retries(i)) /\ SF_vars(GetsThrough(i))

FairSpec == Spec /\ Fairness

-------------------------------------------------------------------------------
(* Properties.                                                             *)

(* README: five calls per assignment, shared by concurrent requests,       *)
(* failures and restarts included.                                         *)
CallsWithinLimit == \A i \in Ids : calls[i] <= MaxProofAttempts

(* However uploads, retries and completions by hand overlap, a mission is  *)
(* paid once, exactly when it is completed, and only for a valid photo.    *)
PaidOnceForAProof ==
  \A i \in Ids :
    /\ paid[i] = (IF status[i] = "completed" THEN 1 ELSE 0)
    /\ status[i] = "completed" => proofs[i]["valid"] > 0

(* A player who sends one photo at a time never pays a second call for a   *)
(* mission already proved, even if the answer was lost and the server died *)
(* between the verdict and the completion.                                 *)
LostAnswerCostsNoCall ==
  [][patient => \A i \in Ids : calls'[i] > calls[i] => proofs[i]["valid"] = 0]_vars

(* An accepted photo is worth its points in the end, through crashes and   *)
(* retries, unless the game ends or the player skips the mission.          *)
AcceptedPhotoPays ==
  \A i \in Ids : proofs[i]["valid"] > 0 /\ Active(i) ~> ~Active(i)

===============================================================================
