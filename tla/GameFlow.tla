------------------------------- MODULE GameFlow -------------------------------
(***************************************************************************)
(* One PartyBox game as PostgreSQL holds it: the lobby, the missions its   *)
(* players are given, the validation requests, the photo proofs, the chaos *)
(* engine, the score and the deadline.                                     *)
(*                                                                         *)
(* Every service operation runs in a transaction that first takes the row  *)
(* of the game FOR UPDATE, so each one is a single action here.  What does *)
(* not take that lock (the insertion of a photo verdict) is an action of   *)
(* its own, and so is FinishDueGame, a transaction of its own that every   *)
(* operation runs before its main one.                                     *)
(*                                                                         *)
(* The rows of player_missions of player p are numbered 1, 2, ... in the   *)
(* order of their insertion; mission[p][s] is the status of row s.         *)
(***************************************************************************)
EXTENDS Integers, FiniteSets, Functions

CONSTANTS
  Players,         \* everyone who may be in the game
  Host,            \* its creator
  NoPlayer,        \* NULL in chaos_states.target_player_id
  Settings,        \* what a game is created with, see AnySettings
  Minute,          \* clock units in a minute
  Instants,        \* instants at which the server's clock may be read (bound)
  MaxMissions,     \* missions given to one player (bound)
  Points           \* missions.points

Slots == 1 .. MaxMissions

\* The columns of games that never change, whether Service.Vision # nil, and who may
\* come (bound).
AnySettings ==
  [guests : SUBSET Players,
   mode : {"secret_missions", "treasure_hunt", "chaos"},
   validation : {"trust", "peer"},
   vision : BOOLEAN,
   minutes : {0, 5, 15, 30, 60}]

ASSUME PlayersAssumption == Host \in Players /\ NoPlayer \notin Players
ASSUME SettingsAssumption == Settings \subseteq AnySettings
ASSUME NumbersAssumption ==
  /\ Minute \in Nat \ {0}
  /\ Instants \subseteq Nat
  /\ MaxMissions \in Nat \ {0}
  /\ Points \in 1 .. 100

NoDeadline == 0
MinPlayers == 2
DoubleTroubleUses == 3
BountyBonus == 100
CompletionThreshold == 3

VARIABLES
  status,      \* games.status
  members,     \* the rows of players
  clock,       \* the server's clock
  endsAt,      \* games.ends_at, NoDeadline when NULL
  mission,     \* player_missions.status, "none" before the insertion
  given,       \* how many missions each player was given
  validation,  \* mission_validations.status of a mission, "none" without a row
  awarded,     \* player_missions.awarded_points
  proven,      \* has the mission a row in mission_proofs with verdict 'valid'?
  score,       \* players.score
  chaos,       \* the row of chaos_states
  logged,      \* how many game_events of each lifecycle kind were recorded
  settings     \* guests, mode, validation mode, photo validator and duration

gameVars == <<status, members, endsAt, logged, settings>>
missionVars == <<mission, given, validation, awarded, score, chaos>>
vars == <<status, members, clock, endsAt, mission, given, validation, awarded,
          proven, score, chaos, logged, settings>>

Mode == settings.mode
ValidationMode == settings.validation
Vision == settings.vision
Duration == settings.minutes

ChaosState ==
  [event : {"none", "double_trouble", "bounty", "mission_shuffle"},
   uses : Nat, target : Players \cup {NoPlayer}, completions : Nat]

Lifecycle ==
  {"game_started", "five_minutes_remaining", "final_minute", "game_ended"}

(* The status of every row, the members, the deadline and the counters are *)
(* what the database schema says they are.                                 *)
TypeOK ==
  /\ status \in {"lobby", "playing", "ended"}
  /\ members \in SUBSET Players
  /\ clock \in Nat
  /\ endsAt \in Nat
  /\ mission \in
       [Players -> [Slots -> {"none", "assigned", "completed", "cancelled"}]]
  /\ given \in [Players -> 0 .. MaxMissions]
  /\ validation \in
       [Players ->
         [Slots -> {"none", "pending", "approved", "rejected", "expired"}]]
  /\ awarded \in [Players -> [Slots -> Nat]]
  /\ proven \in [Players -> [Slots -> BOOLEAN]]
  /\ score \in [Players -> Nat]
  /\ chaos \in ChaosState
  /\ logged \in [Lifecycle -> Nat]
  /\ settings \in Settings

-------------------------------------------------------------------------------
(* The clock.                                                              *)

Expired(t) == endsAt # NoDeadline /\ t >= endsAt

FinalMinute(t) ==
  /\ endsAt # NoDeadline
  /\ t < endsAt
  /\ t >= endsAt - Minute

\* The instants the clock may show from t on.
From(t) == {t} \cup {u \in Instants \cup {endsAt} : u >= t}

(* The number of completions after which the chaos engine fires: fewer in  *)
(* the last third of a timed game, one in its final minute.                *)
Threshold(t) ==
  LET remaining == endsAt - t
  IN CASE endsAt = NoDeadline -> CompletionThreshold
       [] endsAt # NoDeadline /\ remaining <= Minute -> 1
       [] /\ endsAt # NoDeadline
          /\ remaining > Minute
          /\ 3 * remaining <= Duration * Minute -> 2
       [] OTHER -> CompletionThreshold

-------------------------------------------------------------------------------
(* The chaos engine.                                                       *)

ClearEvent(c) ==
  [c EXCEPT !.event = "none", !.uses = 0, !.target = NoPlayer]

\* HadBlockingEvent: while it lasts no other event may start.
Blocking(c) ==
  /\ c.uses > 0
  /\ \/ c.event = "double_trouble"
     \/ c.event = "bounty" /\ c.target # NoPlayer

AppliesTo(c, p) == Blocking(c) /\ (c.event = "bounty" => c.target = p)

ChaosPoints(c, p) ==
  CASE ~AppliesTo(c, p) -> Points
    [] AppliesTo(c, p) /\ c.event = "double_trouble" -> 2 * Points
    [] OTHER -> Points + BountyBonus

\* The mutant that never clears a spent event: its uses run below zero.
NeverCleared(c, p) == [c EXCEPT !.uses = @ - 1]

\* The mutant that spends a use of somebody else's bounty.
SpendAnyone(c, p) ==
  IF Blocking(c) THEN [c EXCEPT !.uses = @ - 1] ELSE ClearEvent(c)

(* ApplyCompletion: a duration effect loses a use, a spent or instantaneous *)
(* one disappears, a bounty on somebody else stays.                         *)
ApplyCompletion(c, p) ==
  CASE Blocking(c) /\ ~AppliesTo(c, p) -> c
    [] AppliesTo(c, p) /\ c.uses > 1 -> [c EXCEPT !.uses = @ - 1]
    [] OTHER -> ClearEvent(c)

\* The mutant that ignores allowTrigger: the spending completion may fire.
TriggerAfterSpending(before, after, t) ==
  /\ ~(after.event # "none" /\ after.uses > 0)
  /\ after.completions + 1 >= Threshold(t)

(* MaybeTriggerEvent starts an event when the completion it follows found  *)
(* none that blocks, none is left running and enough were counted.         *)
TriggerDue(before, after, t) ==
  /\ ~Blocking(before)
  /\ ~(after.event # "none" /\ after.uses > 0)
  /\ after.completions + 1 >= Threshold(t)

NewEvent(kind, uses, target) ==
  [event |-> kind, uses |-> uses, target |-> target, completions |-> 0]

StartableEvents ==
  {NewEvent("double_trouble", DoubleTroubleUses, NoPlayer),
   NewEvent("mission_shuffle", 0, NoPlayer)}
    \cup {NewEvent("bounty", 1, q) : q \in members}

-------------------------------------------------------------------------------
(* Giving missions, paying for them, ending the game.                      *)

CurrentMissions(p) == {s \in Slots : mission[p][s] = "assigned"}

\* Mission s of p is done and AssignMission gives p another one.
Replaced(p, s, outcome) ==
  [mission EXCEPT ![p] = [@ EXCEPT ![s] = outcome, ![given[p] + 1] = "assigned"]]

GivenOneMore(p) == [given EXCEPT ![p] = @ + 1]

\* shuffleMissions: every current mission is cancelled, every member has a new one.
Shuffled(m, g) ==
  [q \in Players |->
    [s \in Slots |->
      IF q \in members /\ s = g[q] + 1 THEN "assigned"
      ELSE IF m[q][s] = "assigned" THEN "cancelled" ELSE m[q][s]]]

GivenAfterShuffle(g) == [q \in Players |-> IF q \in members THEN g[q] + 1 ELSE g[q]]

\* The new chaos state and missions once p has completed mission s.
ChaosStep(p, s, t) ==
  LET after == ApplyCompletion(chaos, p)
  IN \/ /\ ~TriggerDue(chaos, after, t)
        /\ chaos' = [after EXCEPT !.completions = @ + 1]
        /\ mission' = Replaced(p, s, "completed")
        /\ given' = GivenOneMore(p)
     \/ /\ TriggerDue(chaos, after, t)
        /\ chaos' \in {e \in StartableEvents : e.event # "mission_shuffle"}
        /\ mission' = Replaced(p, s, "completed")
        /\ given' = GivenOneMore(p)
     \/ /\ TriggerDue(chaos, after, t)
        /\ \A q \in members : GivenOneMore(p)[q] < MaxMissions
        /\ chaos' = NewEvent("mission_shuffle", 0, NoPlayer)
        /\ mission' = Shuffled(Replaced(p, s, "completed"), GivenOneMore(p))
        /\ given' = GivenAfterShuffle(GivenOneMore(p))

Earned(p, t) ==
  (IF Mode = "chaos" THEN ChaosPoints(chaos, p) ELSE Points)
    * (IF FinalMinute(t) THEN 2 ELSE 1)

\* The mutant that adds the points of the mission, not what was awarded.
AddBasePoints(p, t) == [score EXCEPT ![p] = @ + Points]

\* AddScore is given the very amount CompleteAssignment stores.
AddScore(p, t) == [score EXCEPT ![p] = @ + Earned(p, t)]

\* CompleteAssignment.
Award(p, s, t) == [awarded EXCEPT ![p] = [@ EXCEPT ![s] = Earned(p, t)]]

(* What complete and ResolveValidation both do once a mission counts: the  *)
(* clock is read at paidAt for the multiplier and at chaosAt for the       *)
(* threshold.                                                              *)
Pay(p, s, paidAt, chaosAt) ==
  /\ given[p] < MaxMissions
  /\ awarded' = Award(p, s, paidAt)
  /\ score' = AddScore(p, paidAt)
  /\ IF Mode = "chaos" THEN ChaosStep(p, s, chaosAt)
     ELSE /\ mission' = Replaced(p, s, "completed")
          /\ given' = GivenOneMore(p)
          /\ UNCHANGED chaos

\* The mutant that expires settled requests with the pending ones.
EveryRequestExpired ==
  [p \in Players |->
    [s \in Slots |->
      IF validation[p][s] # "none" THEN "expired" ELSE validation[p][s]]]

\* ExpireValidations.
PendingExpired ==
  [p \in Players |->
    [s \in Slots |->
      IF validation[p][s] = "pending" THEN "expired" ELSE validation[p][s]]]

\* The mutant that leaves the requests of a finished game pending.
EndGameKeepingRequests ==
  /\ status' = "ended"
  /\ logged' = [logged EXCEPT !["game_ended"] = @ + 1]
  /\ UNCHANGED <<validation, members, endsAt, mission, given, awarded, score, chaos>>

EndGame ==
  /\ status' = "ended"
  /\ validation' = PendingExpired
  /\ logged' = [logged EXCEPT !["game_ended"] = @ + 1]
  /\ UNCHANGED <<members, endsAt, mission, given, awarded, score, chaos>>

-------------------------------------------------------------------------------
(* The operations.                                                         *)

\* The mutant that hands no mission to a player who arrives late.
JoinWithoutMission(p) ==
  /\ p \notin members
  /\ status # "ended" /\ ~Expired(clock)
  /\ members' = members \cup {p}
  /\ UNCHANGED <<settings, status, clock, endsAt, logged, proven, mission, given,
                 validation, awarded, score, chaos>>

Join(p) ==
  /\ p \in settings.guests \ members
  /\ status # "ended" /\ ~Expired(clock)
  /\ members' = members \cup {p}
  /\ \/ /\ status = "lobby"
        /\ UNCHANGED <<mission, given>>
     \/ /\ status = "playing"
        /\ given[p] < MaxMissions
        /\ mission' = [mission EXCEPT ![p] = [@ EXCEPT ![given[p] + 1] = "assigned"]]
        /\ given' = GivenOneMore(p)
  /\ UNCHANGED <<settings, status, clock, endsAt, logged, proven, validation, awarded,
                 score, chaos>>

\* transition(..., "playing"), by the host.
Start ==
  /\ status = "lobby"
  /\ Cardinality(members) >= MinPlayers
  /\ mission' = Shuffled(mission, given)
  /\ given' = GivenAfterShuffle(given)
  /\ status' = "playing"
  /\ endsAt' = IF Duration > 0 THEN clock + Duration * Minute ELSE NoDeadline
  /\ logged' = [logged EXCEPT !["game_started"] = @ + 1]
  /\ UNCHANGED <<settings, members, clock, validation, awarded, proven, score, chaos>>

\* transition(..., "ended"), by the host.
End ==
  /\ status \in {"lobby", "playing"}
  /\ EndGame
  /\ UNCHANGED <<settings, clock, proven>>

\* FinishDueGame, before any request on the game, and TickGames, every second.
FinishDueGame ==
  /\ status = "playing"
  /\ Expired(clock)
  /\ EndGame
  /\ UNCHANGED <<settings, clock, proven>>

\* The mutant that announces a phase at every tick.
PhaseDueAgain(kind) ==
  /\ kind \in {"five_minutes_remaining", "final_minute"}
  /\ endsAt - clock <= (IF kind = "final_minute" THEN Minute ELSE 5 * Minute)

PhaseDue(kind) ==
  /\ kind \in {"five_minutes_remaining", "final_minute"}
  /\ endsAt - clock <= (IF kind = "final_minute" THEN Minute ELSE 5 * Minute)
  /\ logged[kind] = 0

\* TickGames on a timed game that goes on: each phase is recorded once.
TickPhases ==
  /\ status = "playing" /\ endsAt # NoDeadline /\ ~Expired(clock)
  /\ \E kind \in Lifecycle : PhaseDue(kind)
  /\ logged' = [kind \in Lifecycle |->
                  IF PhaseDue(kind) THEN logged[kind] + 1 ELSE logged[kind]]
  /\ UNCHANGED <<settings, status, members, clock, endsAt, proven, mission, given,
                 validation, awarded, score, chaos>>

\* What complete, ResolveValidation and SkipTreasureMission check first.
Active(p, s) ==
  /\ mission[p][s] = "assigned"
  /\ status = "playing"
  /\ ~Expired(clock)

ProofAccepted(p, s) == Mode = "treasure_hunt" /\ Vision => proven[p][s]

\* The mutant that looks at the mission and no longer at the game.
CompleteAfterEnd(p, s) ==
  /\ ValidationMode = "trust"
  /\ mission[p][s] = "assigned" /\ ~Expired(clock)
  /\ Pay(p, s, clock, clock)
  /\ UNCHANGED <<settings, status, members, clock, endsAt, logged, validation, proven>>

(* complete in trust mode.  It reads the clock again for the multiplier    *)
(* and once more for the chaos threshold, all under the game's lock.       *)
Complete(p, s) ==
  /\ ValidationMode = "trust"
  /\ Active(p, s) /\ ProofAccepted(p, s)
  /\ \E paidAt \in From(clock) : \E chaosAt \in From(paidAt) :
       Pay(p, s, paidAt, chaosAt) /\ clock' = chaosAt
  /\ UNCHANGED <<settings, status, members, endsAt, logged, validation, proven>>

\* complete in peer mode: RequestValidation inserts a request or revives a refused one.
RequestValidation(p, s) ==
  /\ ValidationMode = "peer"
  /\ Active(p, s) /\ ProofAccepted(p, s)
  /\ validation[p][s] \in {"none", "rejected"}
  /\ validation' = [validation EXCEPT ![p] = [@ EXCEPT ![s] = "pending"]]
  /\ UNCHANGED <<settings, status, members, clock, endsAt, logged, mission, given,
                 awarded, proven, score, chaos>>

\* The mutant that pays the request of a mission a shuffle has cancelled.
ApproveStranded(v, p, s) ==
  /\ v \in members \ {p} /\ validation[p][s] = "pending"
  /\ status = "playing" /\ ~Expired(clock)
  /\ IF mission[p][s] = "assigned" THEN Pay(p, s, clock, clock)
     ELSE /\ awarded' = Award(p, s, clock) /\ score' = AddScore(p, clock)
          /\ mission' = [mission EXCEPT ![p] = [@ EXCEPT ![s] = "completed"]]
          /\ UNCHANGED <<given, chaos>>
  /\ validation' = [validation EXCEPT ![p] = [@ EXCEPT ![s] = "approved"]]
  /\ UNCHANGED <<settings, status, members, clock, endsAt, logged, proven>>

\* ResolveValidation, by validator v of the request on mission s of p.
Approve(v, p, s) ==
  /\ v \in members \ {p}
  /\ validation[p][s] = "pending"
  /\ Active(p, s) /\ ProofAccepted(p, s)
  /\ Pay(p, s, clock, clock)
  /\ validation' = [validation EXCEPT ![p] = [@ EXCEPT ![s] = "approved"]]
  /\ UNCHANGED <<settings, status, members, clock, endsAt, logged, proven>>

Reject(v, p, s) ==
  /\ v \in members \ {p}
  /\ validation[p][s] = "pending"
  /\ Active(p, s)
  /\ validation' = [validation EXCEPT ![p] = [@ EXCEPT ![s] = "rejected"]]
  /\ UNCHANGED <<settings, status, members, clock, endsAt, logged, mission, given,
                 awarded, proven, score, chaos>>

\* ExpireAssignmentValidation.
RequestDropped(p, s) ==
  IF validation[p][s] = "pending"
  THEN [validation EXCEPT ![p] = [@ EXCEPT ![s] = "expired"]]
  ELSE validation

SkipTreasureMission(p, s) ==
  /\ Mode = "treasure_hunt"
  /\ Active(p, s)
  /\ given[p] < MaxMissions
  /\ mission' = Replaced(p, s, "cancelled")
  /\ given' = GivenOneMore(p)
  /\ validation' = RequestDropped(p, s)
  /\ UNCHANGED <<settings, status, members, clock, endsAt, logged, awarded, proven,
                 score, chaos>>

(* InsertProof of a valid verdict: the analysis began while the mission    *)
(* was current, and its verdict is stored whatever happened since.         *)
StoreValidProof(p, s) ==
  /\ Mode = "treasure_hunt" /\ Vision
  /\ mission[p][s] # "none"
  /\ ~proven[p][s]
  /\ proven' = [proven EXCEPT ![p] = [@ EXCEPT ![s] = TRUE]]
  /\ UNCHANGED <<settings, status, members, clock, endsAt, logged, mission, given,
                 validation, awarded, score, chaos>>

AdvanceClock ==
  /\ clock' \in From(clock) \ {clock}
  /\ UNCHANGED <<settings, status, members, endsAt, logged, mission, given, validation,
                 awarded, proven, score, chaos>>

\* create, with its transaction committed.
Init ==
  /\ status = "lobby"
  /\ members = {Host}
  /\ clock \in Instants
  /\ endsAt = NoDeadline
  /\ mission = [p \in Players |-> [s \in Slots |-> "none"]]
  /\ given = [p \in Players |-> 0]
  /\ validation = [p \in Players |-> [s \in Slots |-> "none"]]
  /\ awarded = [p \in Players |-> [s \in Slots |-> 0]]
  /\ proven = [p \in Players |-> [s \in Slots |-> FALSE]]
  /\ score = [p \in Players |-> 0]
  /\ chaos = NewEvent("none", 0, NoPlayer)
  /\ logged = [kind \in Lifecycle |-> 0]
  /\ settings \in Settings

Next ==
  \/ \E p \in Players : Join(p)
  \/ Start
  \/ End
  \/ FinishDueGame
  \/ TickPhases
  \/ \E p \in Players, s \in Slots :
       \/ Complete(p, s)
       \/ RequestValidation(p, s)
       \/ \E v \in members : Approve(v, p, s)
       \/ \E v \in members : Reject(v, p, s)
       \/ SkipTreasureMission(p, s)
       \/ StoreValidProof(p, s)
  \/ AdvanceClock

Spec == Init /\ [][Next]_vars

-------------------------------------------------------------------------------
(* Fairness: runGameScheduler calls TickGames every second for as long as  *)
(* the server runs, and time passes.  Nothing is asked of the players.     *)

\* The mutant of TickGames that stops at a game it could not tick.
StalledScheduler == FALSE

SchedulerEndsGame == FinishDueGame

Fairness == WF_vars(AdvanceClock) /\ WF_vars(SchedulerEndsGame)

FairSpec == Spec /\ Fairness

-------------------------------------------------------------------------------
(* Properties.                                                             *)

(* While a game is played each of its members has one current mission and  *)
(* nobody else has any: the unique index one_current_mission never rejects *)
(* an assignment, whatever the order of joins, completions, skips and      *)
(* shuffles.                                                               *)
OneCurrentMission ==
  \A p \in Players :
    /\ status = "playing" /\ p \in members => CurrentMissions(p) # {}
    /\ \A s, t \in CurrentMissions(p) : s = t
    /\ CurrentMissions(p) # {} => p \in members /\ status # "lobby"

(* A player's score is the sum of what was awarded for the missions the    *)
(* player completed, and only completed missions were awarded anything:    *)
(* AddScore and CompleteAssignment never disagree, nothing is paid twice.  *)
LedgerBalances ==
  \A p \in Players :
    /\ score[p] = FoldFunction(+, 0, awarded[p])
    /\ \A s \in Slots : awarded[p][s] > 0 <=> mission[p][s] = "completed"

(* The final ranking is frozen: once the game has ended no operation that  *)
(* was already on its way changes a score, a mission, a request, the       *)
(* members or the status (the comment in complete promises it).            *)
FinalRankingFrozen ==
  [][status = "ended" => UNCHANGED <<gameVars, missionVars>>]_vars

(* A mission completed or cancelled stays so with its award: repeating a   *)
(* completion, approving a request or skipping cannot settle it again.     *)
MissionsSettleOnce ==
  [][\A p \in Players, s \in Slots :
       mission[p][s] \in {"completed", "cancelled"} =>
         mission'[p][s] = mission[p][s] /\ awarded'[p][s] = awarded[p][s]]_vars

(* A pending request belongs to a game being played, and outside chaos to  *)
(* the mission its player is on: both ends of a game and a skip expire it. *)
RequestsAreLive ==
  \A p \in Players, s \in Slots :
    validation[p][s] = "pending" =>
      /\ status = "playing"
      /\ mission[p][s] = "assigned" \/ Mode = "chaos"

(* In peer mode a mission is paid if and only if its request was approved, *)
(* also when a shuffle strands the request of a mission it cancels.        *)
PaidIffApproved ==
  ValidationMode = "peer" =>
    \A p \in Players, s \in Slots :
      (validation[p][s] = "approved") <=> (mission[p][s] = "completed")

(* The chaos row is coherent: Double Trouble has been used once for every  *)
(* completion counted since it started, a bounty aims at a member, and a   *)
(* shuffle stays visible until the next completion only.                   *)
ChaosCoherent ==
  /\ chaos.event = "double_trouble" =>
       chaos.uses > 0 /\ chaos.uses + chaos.completions = DoubleTroubleUses
  /\ chaos.event = "bounty" => chaos.uses = 1 /\ chaos.target \in members
  /\ chaos.event = "mission_shuffle" => chaos.uses = 0 /\ chaos.completions = 0
  /\ chaos.event # "bounty" => chaos.target = NoPlayer

(* A Double Trouble or a bounty runs its course: no other event replaces   *)
(* it before it is spent, not even in the completion that spends it.       *)
BlockingEventsRunTheirCourse ==
  [][Blocking(chaos) =>
       \/ chaos'.event = "none"
       \/ chaos'.event = chaos.event /\ chaos'.target = chaos.target]_vars

(* Each lifecycle event is recorded at most once, the five minutes no      *)
(* later than the final one, and the end exactly when the game is over.    *)
LifecycleLoggedOnce ==
  /\ \A kind \in Lifecycle : logged[kind] <= 1
  /\ logged["final_minute"] <= logged["five_minutes_remaining"]
  /\ logged["five_minutes_remaining"] <= logged["game_started"]
  /\ logged["game_ended"] = 1 <=> status = "ended"

(* A timed game ends although no player does anything (README, "les        *)
(* parties chronometrees se terminent automatiquement").                   *)
TimedGameEnds == status = "playing" /\ endsAt # NoDeadline ~> status = "ended"

===============================================================================
