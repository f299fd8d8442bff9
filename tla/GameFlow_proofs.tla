---------------------------- MODULE GameFlow_proofs ----------------------------
(***************************************************************************)
(* What TLAPS proves about GameFlow, for every set of players, every mode, *)
(* validation mode and duration, and every set of instants.                *)
(*                                                                         *)
(* OneCurrentMission is not inductive: a completion gives its player the   *)
(* mission numbered given[p] + 1, so the argument has to know that the     *)
(* current mission is the last one given, that what follows it is unused   *)
(* and that nobody is given a mission in the lobby.  Tidy, Busy and IInv   *)
(* say that.  Requests need to know what the mode allows (RequestInv), the *)
(* log of the lifecycle which events each status stands for (LifecycleInv),*)
(* and a ledger that an award replaces a zero (LedgerStep).                *)
(***************************************************************************)
EXTENDS GameFlow, Sums, TLAPS

MissionStatus == {"none", "assigned", "completed", "cancelled"}

RequestStatus == {"none", "pending", "approved", "rejected", "expired"}

(* The missions m of the players in mem, g of which were given to each.    *)
Tidy(m, g, mem) ==
  /\ m \in [Players -> [Slots -> MissionStatus]]
  /\ g \in [Players -> 0 .. MaxMissions]
  /\ \A p \in Players, s \in Slots :
       /\ m[p][s] # "none" <=> s <= g[p]
       /\ m[p][s] = "assigned" => s = g[p]
  /\ \A p \in Players : g[p] > 0 => p \in mem

(* Everybody in mem is on the last mission given.                          *)
Busy(m, g, mem) == \A p \in mem : g[p] > 0 /\ m[p][g[p]] = "assigned"

IInv ==
  /\ TypeOK
  /\ Tidy(mission, given, members)
  /\ status = "playing" => Busy(mission, given, members)
  /\ status = "lobby" => \A p \in Players : given[p] = 0

-------------------------------------------------------------------------------
(* Lemmas about the operators that give missions.                          *)

(* A mission that is done and its replacement: what complete, an approval  *)
(* and a skip do to the missions of one player.                            *)
LEMMA ReplacedTidy ==
  ASSUME NEW p \in members, NEW s \in Slots, members \subseteq Players,
         NEW outcome \in {"completed", "cancelled"},
         Tidy(mission, given, members), Busy(mission, given, members),
         mission[p][s] = "assigned", given[p] < MaxMissions
  PROVE  /\ Tidy(Replaced(p, s, outcome), GivenOneMore(p), members)
         /\ Busy(Replaced(p, s, outcome), GivenOneMore(p), members)
<1> DEFINE m == Replaced(p, s, outcome)
           g == GivenOneMore(p)
<1> p \in Players /\ MaxMissions \in Nat \ {0}
  BY NumbersAssumption
<1>1. s = given[p] /\ given[p] + 1 \in Slots /\ given[p] \in 0 .. MaxMissions
  BY DEF Tidy, Slots
<1>2. g = [given EXCEPT ![p] = given[p] + 1]
  BY DEF GivenOneMore
<1>3. g \in [Players -> 0 .. MaxMissions]
  BY <1>1, <1>2 DEF Tidy, Slots
<1>4. /\ g[p] = given[p] + 1
      /\ \A q \in Players \ {p} : g[q] = given[q]
  BY <1>2 DEF Tidy
<1>5. /\ m \in [Players -> [Slots -> MissionStatus]]
      /\ m[p][s] = outcome
      /\ m[p][given[p] + 1] = "assigned"
      /\ \A t \in Slots \ {s, given[p] + 1} : m[p][t] = mission[p][t]
      /\ \A q \in Players \ {p} : m[q] = mission[q]
  BY <1>1 DEF Tidy, Replaced, MissionStatus, Slots
<1> HIDE DEF m, g
<1>6. ASSUME NEW q \in Players, NEW t \in Slots
      PROVE  /\ m[q][t] # "none" <=> t <= g[q]
             /\ m[q][t] = "assigned" => t = g[q]
  <2>1. CASE q = p
    <3>1. /\ mission[p][t] # "none" <=> t <= given[p]
          /\ mission[p][t] = "assigned" => t = given[p]
          /\ t \in Nat /\ given[p] \in Nat
      BY <1>1 DEF Tidy, Slots
    <3>2. CASE t = s \/ t = given[p] + 1
      BY <2>1, <3>1, <3>2, <1>1, <1>4, <1>5
    <3>3. CASE t \notin {s, given[p] + 1}
      BY <2>1, <3>1, <3>3, <1>1, <1>4, <1>5
    <3> QED
      BY <3>2, <3>3
  <2>2. CASE q # p
    BY <2>2, <1>4, <1>5 DEF Tidy
  <2> QED
    BY <2>1, <2>2
<1>7. \A q \in Players : g[q] > 0 => q \in members
  BY <1>4 DEF Tidy
<1>8. Busy(m, g, members)
  BY <1>1, <1>4, <1>5 DEF Busy, Tidy
<1> QED
  BY <1>3, <1>5, <1>6, <1>7, <1>8 DEF Tidy, m, g

(* A shuffle, and the missions of a game that starts.                      *)
LEMMA ShuffledTidy ==
  ASSUME NEW m, NEW g, members \subseteq Players, Tidy(m, g, members),
         \A q \in members : g[q] < MaxMissions
  PROVE  /\ Tidy(Shuffled(m, g), GivenAfterShuffle(g), members)
         /\ Busy(Shuffled(m, g), GivenAfterShuffle(g), members)
<1> DEFINE m1 == Shuffled(m, g)
           g1 == GivenAfterShuffle(g)
<1> MaxMissions \in Nat \ {0}
  BY NumbersAssumption
<1>1. \A q \in Players : g1[q] = IF q \in members THEN g[q] + 1 ELSE g[q]
  BY DEF GivenAfterShuffle
<1>2. g1 \in [Players -> 0 .. MaxMissions]
  BY DEF GivenAfterShuffle, Tidy
<1>3. \A q \in Players, t \in Slots :
        m1[q][t] = IF q \in members /\ t = g[q] + 1 THEN "assigned"
                   ELSE IF m[q][t] = "assigned" THEN "cancelled" ELSE m[q][t]
  BY DEF Shuffled
<1>4. m1 \in [Players -> [Slots -> MissionStatus]]
  BY DEF Shuffled, Tidy, MissionStatus
<1> HIDE DEF m1, g1
<1>5. ASSUME NEW q \in Players, NEW t \in Slots
      PROVE  /\ m1[q][t] # "none" <=> t <= g1[q]
             /\ m1[q][t] = "assigned" => t = g1[q]
  <2>1. /\ m[q][t] # "none" <=> t <= g[q]
        /\ m[q][t] = "assigned" => t = g[q]
        /\ g[q] > 0 => q \in members
        /\ g[q] \in 0 .. MaxMissions /\ t \in 1 .. MaxMissions
    BY DEF Tidy, Slots
  <2> QED
    BY <2>1, <1>1, <1>3
<1>6. \A q \in Players : g1[q] > 0 => q \in members
  BY <1>1 DEF Tidy
<1>7. Busy(m1, g1, members)
  BY <1>1, <1>3 DEF Busy, Tidy, Slots
<1> QED
  BY <1>2, <1>4, <1>5, <1>6, <1>7 DEF Tidy, m1, g1

(* A player who joins a game being played is given a first mission.        *)
LEMMA JoinedTidy ==
  ASSUME NEW p \in Players \ members, members \subseteq Players,
         Tidy(mission, given, members), given[p] < MaxMissions
  PROVE  LET m == [mission EXCEPT ![p] = [@ EXCEPT ![given[p] + 1] = "assigned"]]
         IN  /\ Tidy(m, GivenOneMore(p), members \cup {p})
             /\ Busy(mission, given, members) =>
                  Busy(m, GivenOneMore(p), members \cup {p})
<1> DEFINE m == [mission EXCEPT ![p] = [@ EXCEPT ![given[p] + 1] = "assigned"]]
           g == GivenOneMore(p)
<1> MaxMissions \in Nat \ {0}
  BY NumbersAssumption
<1>1. given[p] = 0 /\ given[p] + 1 \in Slots
  BY DEF Tidy, Slots
<1>2. /\ g \in [Players -> 0 .. MaxMissions]
      /\ g[p] = 1
      /\ \A q \in Players \ {p} : g[q] = given[q]
  BY <1>1 DEF Tidy, GivenOneMore, Slots
<1>3. /\ m \in [Players -> [Slots -> MissionStatus]]
      /\ m[p][1] = "assigned"
      /\ \A t \in Slots \ {1} : m[p][t] = mission[p][t]
      /\ \A q \in Players \ {p} : m[q] = mission[q]
  BY <1>1 DEF Tidy, MissionStatus, Slots
<1> HIDE DEF m, g
<1>4. ASSUME NEW q \in Players, NEW t \in Slots
      PROVE  /\ m[q][t] # "none" <=> t <= g[q]
             /\ m[q][t] = "assigned" => t = g[q]
  <2>1. CASE q = p
    BY <2>1, <1>1, <1>2, <1>3 DEF Tidy, Slots
  <2>2. CASE q # p
    BY <2>2, <1>2, <1>3 DEF Tidy
  <2> QED
    BY <2>1, <2>2
<1>5. Tidy(m, g, members \cup {p})
  BY <1>2, <1>3, <1>4 DEF Tidy
<1>6. Busy(mission, given, members) => Busy(m, g, members \cup {p})
  BY <1>2, <1>3 DEF Busy
<1> QED
  BY <1>5, <1>6 DEF m, g

-------------------------------------------------------------------------------
(* Lemmas about what a completion pays and does to the chaos row.          *)

LEMMA EarnedIsNat ==
  ASSUME NEW p \in Players, NEW t \in Nat, chaos \in ChaosState
  PROVE  Earned(p, t) \in Nat
<1>1. Points \in Nat
  BY NumbersAssumption
<1>2. ChaosPoints(chaos, p) \in Nat
  BY <1>1 DEF ChaosPoints, BountyBonus
<1>3. \A n \in Nat : n * 2 \in Nat /\ n * 1 \in Nat
  OBVIOUS
<1> QED
  BY <1>1, <1>2, <1>3 DEF Earned

LEMMA ApplyCompletionType ==
  ASSUME NEW c \in ChaosState, NEW p \in Players
  PROVE  ApplyCompletion(c, p) \in ChaosState
<1>1. ClearEvent(c) \in ChaosState
  BY DEF ClearEvent, ChaosState
<1>2. ASSUME c.uses > 1
      PROVE  [c EXCEPT !.uses = @ - 1] \in ChaosState
  BY <1>2 DEF ChaosState
<1> QED
  BY <1>1, <1>2 DEF ApplyCompletion

LEMMA StartableType ==
  ASSUME members \subseteq Players
  PROVE  StartableEvents \subseteq ChaosState
BY DEF StartableEvents, NewEvent, ChaosState, DoubleTroubleUses

(* A payment leaves its player on a new mission, and everybody else too    *)
(* when it starts a shuffle.                                               *)
LEMMA PayKeeps ==
  ASSUME IInv, NEW p \in members, NEW s \in Slots,
         status = "playing", mission[p][s] = "assigned",
         NEW paidAt \in Nat, NEW chaosAt \in Nat, Pay(p, s, paidAt, chaosAt)
  PROVE  /\ Tidy(mission', given', members)
         /\ Busy(mission', given', members)
         /\ awarded' \in [Players -> [Slots -> Nat]]
         /\ score' \in [Players -> Nat]
         /\ chaos' \in ChaosState
<1> p \in Players /\ members \subseteq Players /\ chaos \in ChaosState
  BY DEF IInv, TypeOK
<1>1. /\ Tidy(Replaced(p, s, "completed"), GivenOneMore(p), members)
      /\ Busy(Replaced(p, s, "completed"), GivenOneMore(p), members)
  BY ReplacedTidy DEF IInv, Pay
<1>2. Earned(p, paidAt) \in Nat
  BY EarnedIsNat
<1>3. awarded' \in [Players -> [Slots -> Nat]]
  BY <1>2 DEF Pay, Award, IInv, TypeOK
<1>4. score' \in [Players -> Nat]
  BY <1>2 DEF Pay, AddScore, IInv, TypeOK
<1>5. CASE Mode # "chaos"
  BY <1>1, <1>3, <1>4, <1>5 DEF Pay
<1>6. CASE Mode = "chaos"
  <2> DEFINE after == ApplyCompletion(chaos, p)
  <2>1. after \in ChaosState
    BY ApplyCompletionType
  <2> HIDE DEF after
  <2>2. \/ /\ chaos' = [after EXCEPT !.completions = @ + 1]
           /\ mission' = Replaced(p, s, "completed")
           /\ given' = GivenOneMore(p)
        \/ /\ chaos' \in StartableEvents
           /\ mission' = Replaced(p, s, "completed")
           /\ given' = GivenOneMore(p)
        \/ /\ \A q \in members : GivenOneMore(p)[q] < MaxMissions
           /\ chaos' = NewEvent("mission_shuffle", 0, NoPlayer)
           /\ mission' = Shuffled(Replaced(p, s, "completed"), GivenOneMore(p))
           /\ given' = GivenAfterShuffle(GivenOneMore(p))
    BY <1>6 DEF Pay, ChaosStep, after
  <2>3. chaos' \in ChaosState
    <3>1. [after EXCEPT !.completions = @ + 1] \in ChaosState
      BY <2>1 DEF ChaosState
    <3>2. NewEvent("mission_shuffle", 0, NoPlayer) \in StartableEvents
      BY DEF StartableEvents
    <3> QED
      BY <2>2, <3>1, <3>2, StartableType
  <2>4. Tidy(mission', given', members) /\ Busy(mission', given', members)
    BY <2>2, <1>1, ShuffledTidy
  <2> QED
    BY <2>3, <2>4, <1>3, <1>4
<1> QED
  BY <1>5, <1>6

(* The ends of a game and a skip leave every request in a known status.    *)
LEMMA RequestTypes ==
  ASSUME TypeOK
  PROVE  /\ PendingExpired \in [Players -> [Slots -> RequestStatus]]
         /\ \A p \in Players, s \in Slots :
              RequestDropped(p, s) \in [Players -> [Slots -> RequestStatus]]
<1>1. validation \in [Players -> [Slots -> RequestStatus]]
  BY DEF TypeOK, RequestStatus
<1>2. "expired" \in RequestStatus
  BY DEF RequestStatus
<1>3. PendingExpired \in [Players -> [Slots -> RequestStatus]]
  BY <1>1, <1>2 DEF PendingExpired
<1>4. ASSUME NEW p \in Players, NEW s \in Slots
      PROVE  RequestDropped(p, s) \in [Players -> [Slots -> RequestStatus]]
  BY <1>1, <1>2 DEF RequestDropped
<1> QED
  BY <1>3, <1>4

(* Active tells which player and which mission may be acted upon.          *)
LEMMA ActiveMember ==
  ASSUME IInv, NEW p \in Players, NEW s \in Slots, Active(p, s)
  PROVE  p \in members /\ status = "playing" /\ mission[p][s] = "assigned"
<1>1. status = "playing" /\ mission[p][s] = "assigned"
  BY DEF Active
<1>2. s = given[p] /\ s > 0
  BY <1>1 DEF IInv, Tidy, Slots
<1> QED
  BY <1>1, <1>2 DEF IInv, Tidy

-------------------------------------------------------------------------------
(* The invariant.                                                          *)

LEMMA InitIInv == Init => IInv
<1> SUFFICES ASSUME Init PROVE IInv
  OBVIOUS
<1> MaxMissions \in Nat \ {0} /\ Instants \subseteq Nat
  BY NumbersAssumption
<1>1. TypeOK
  BY PlayersAssumption
     DEF Init, TypeOK, NewEvent, ChaosState, Lifecycle, NoDeadline
<1>2. Tidy(mission, given, members)
  BY DEF Init, Tidy, Slots, MissionStatus
<1> QED
  BY <1>1, <1>2 DEF IInv, Init

LEMMA NextIInv == IInv /\ [Next]_vars => IInv'
<1> SUFFICES ASSUME IInv, [Next]_vars PROVE IInv'
  OBVIOUS
<1> MaxMissions \in Nat \ {0} /\ Instants \subseteq Nat /\ Minute \in Nat \ {0}
      /\ members \subseteq Players
  BY NumbersAssumption DEF IInv, TypeOK
<1> Duration \in Nat
  BY SettingsAssumption DEF IInv, TypeOK, AnySettings, Duration
<1>from. \A t \in Nat : From(t) \subseteq Nat
  BY DEF From, IInv, TypeOK
<1>1. ASSUME NEW p \in Players, Join(p) PROVE IInv'
  <2>1. CASE status = "lobby" /\ UNCHANGED <<mission, given>>
    BY <1>1, <2>1 DEF Join, IInv, TypeOK, Tidy
  <2>2. CASE /\ status = "playing"
             /\ given[p] < MaxMissions
             /\ mission' = [mission EXCEPT ![p] =
                              [@ EXCEPT ![given[p] + 1] = "assigned"]]
             /\ given' = GivenOneMore(p)
    <3>1. /\ Tidy(mission', given', members')
          /\ Busy(mission', given', members')
      BY <1>1, <2>2, JoinedTidy DEF Join, IInv
    <3>2. TypeOK'
      BY <1>1, <3>1 DEF Join, IInv, TypeOK, Tidy, MissionStatus
    <3> QED
      BY <1>1, <2>2, <3>1, <3>2 DEF Join, IInv, Tidy, Busy
  <2> QED
    BY <1>1, <2>1, <2>2 DEF Join
<1>2. CASE Start
  <2>1. /\ Tidy(mission', given', members')
        /\ Busy(mission', given', members')
    BY <1>2, ShuffledTidy DEF Start, IInv
  <2>2. endsAt' \in Nat
    <3>1. Duration * Minute \in Nat
      OBVIOUS
    <3>2. \A n \in Nat : clock + n \in Nat
      BY DEF IInv, TypeOK
    <3>3. endsAt' = clock + Duration * Minute \/ endsAt' = 0
      BY <1>2 DEF Start, NoDeadline
    <3> QED
      BY <3>1, <3>2, <3>3
  <2>3. TypeOK'
    BY <1>2, <2>1, <2>2 DEF Start, IInv, TypeOK, Tidy, MissionStatus, Lifecycle
  <2> QED
    BY <1>2, <2>1, <2>3 DEF Start, IInv, Tidy, Busy
<1>3. ASSUME EndGame, UNCHANGED <<settings, clock, proven>> PROVE IInv'
  <2>1. validation' \in [Players -> [Slots -> RequestStatus]]
    BY <1>3, RequestTypes DEF EndGame, IInv
  <2>2. logged' \in [Lifecycle -> Nat]
    <3>1. logged \in [Lifecycle -> Nat]
      BY DEF IInv, TypeOK
    <3>2. logged' = [logged EXCEPT !["game_ended"] = @ + 1]
      BY <1>3 DEF EndGame
    <3> QED
      BY <3>1, <3>2 DEF Lifecycle
  <2>3. TypeOK'
    <3>1. /\ status' = "ended"
          /\ UNCHANGED <<settings, members, clock, endsAt, mission, given, awarded,
                         proven, score, chaos>>
      BY <1>3 DEF EndGame
    <3> QED
      BY <3>1, <2>1, <2>2 DEF IInv, TypeOK, RequestStatus
  <2> QED
    BY <1>3, <2>3 DEF EndGame, IInv, Tidy
<1>4. CASE TickPhases
  <2>1. logged' \in [Lifecycle -> Nat]
    BY <1>4 DEF TickPhases, IInv, TypeOK
  <2> QED
    BY <1>4, <2>1 DEF TickPhases, IInv, TypeOK, Tidy, Busy
<1>5. ASSUME NEW p \in Players, NEW s \in Slots, Complete(p, s) PROVE IInv'
  <2>0. PICK paidAt \in From(clock) :
          \E chaosAt \in From(paidAt) :
            Pay(p, s, paidAt, chaosAt) /\ clock' = chaosAt
    BY <1>5 DEF Complete
  <2>1. PICK chaosAt \in From(paidAt) :
          Pay(p, s, paidAt, chaosAt) /\ clock' = chaosAt
    BY <2>0
  <2>2. paidAt \in Nat /\ chaosAt \in Nat
    BY <1>from DEF IInv, TypeOK
  <2>3. p \in members /\ status = "playing" /\ mission[p][s] = "assigned"
    BY <1>5, ActiveMember DEF Complete
  <2>4. /\ Tidy(mission', given', members)
        /\ Busy(mission', given', members)
        /\ awarded' \in [Players -> [Slots -> Nat]]
        /\ score' \in [Players -> Nat]
        /\ chaos' \in ChaosState
    BY <2>1, <2>2, <2>3, PayKeeps
  <2>5. TypeOK'
    BY <1>5, <2>1, <2>2, <2>4 DEF Complete, IInv, TypeOK, Tidy, MissionStatus
  <2> QED
    BY <1>5, <2>3, <2>4, <2>5 DEF Complete, IInv, Tidy, Busy
<1>6. ASSUME NEW p \in Players, NEW s \in Slots, RequestValidation(p, s)
      PROVE  IInv'
  BY <1>6 DEF RequestValidation, IInv, TypeOK, Tidy, Busy
<1>7. ASSUME NEW p \in Players, NEW s \in Slots, NEW v \in members,
             Approve(v, p, s)
      PROVE  IInv'
  <2>1. p \in members /\ status = "playing" /\ mission[p][s] = "assigned"
    BY <1>7, ActiveMember DEF Approve
  <2>2. /\ Tidy(mission', given', members)
        /\ Busy(mission', given', members)
        /\ awarded' \in [Players -> [Slots -> Nat]]
        /\ score' \in [Players -> Nat]
        /\ chaos' \in ChaosState
    BY <1>7, <2>1, PayKeeps DEF Approve, IInv, TypeOK
  <2>3. TypeOK'
    BY <1>7, <2>2 DEF Approve, IInv, TypeOK, Tidy, MissionStatus
  <2> QED
    BY <1>7, <2>1, <2>2, <2>3 DEF Approve, IInv, Tidy, Busy
<1>8. ASSUME NEW p \in Players, NEW s \in Slots, NEW v \in members,
             Reject(v, p, s)
      PROVE  IInv'
  BY <1>8 DEF Reject, IInv, TypeOK, Tidy, Busy
<1>9. ASSUME NEW p \in Players, NEW s \in Slots, SkipTreasureMission(p, s)
      PROVE  IInv'
  <2>1. p \in members /\ status = "playing" /\ mission[p][s] = "assigned"
    BY <1>9, ActiveMember DEF SkipTreasureMission
  <2>2. /\ Tidy(mission', given', members)
        /\ Busy(mission', given', members)
    BY <1>9, <2>1, ReplacedTidy DEF SkipTreasureMission, IInv
  <2>3. validation' \in [Players -> [Slots -> RequestStatus]]
    BY <1>9, RequestTypes DEF SkipTreasureMission, IInv
  <2>4. TypeOK'
    BY <1>9, <2>2, <2>3
       DEF SkipTreasureMission, IInv, TypeOK, Tidy, MissionStatus, RequestStatus
  <2> QED
    BY <1>9, <2>1, <2>2, <2>4 DEF SkipTreasureMission, IInv, Tidy, Busy
<1>10. ASSUME NEW p \in Players, NEW s \in Slots, StoreValidProof(p, s)
       PROVE  IInv'
  BY <1>10 DEF StoreValidProof, IInv, TypeOK, Tidy, Busy
<1>11. CASE AdvanceClock
  <2>1. clock' \in Nat
    BY <1>11, <1>from DEF AdvanceClock, IInv, TypeOK
  <2> QED
    BY <1>11, <2>1 DEF AdvanceClock, IInv, TypeOK, Tidy, Busy
<1>12. CASE UNCHANGED vars
  BY <1>12 DEF vars, IInv, TypeOK, Tidy, Busy
<1> QED
  BY <1>1, <1>2, <1>3, <1>4, <1>5, <1>6, <1>7, <1>8, <1>9, <1>10, <1>11, <1>12
     DEF Next, End, FinishDueGame

LEMMA Invariance == Spec => []IInv
BY InitIInv, NextIInv, PTL DEF Spec

(* Every row, counter and reference is what the schema says it is, in      *)
(* particular no player is ever given more missions than there are rows.   *)
THEOREM TypeCorrect == Spec => []TypeOK
<1>1. IInv => TypeOK
  BY DEF IInv
<1> QED
  BY <1>1, Invariance, PTL

(* The index one_current_mission is never violated: while the game is      *)
(* played each member is on exactly one mission.                           *)
THEOREM MissionSafety == Spec => []OneCurrentMission
<1>1. IInv => OneCurrentMission
  <2> SUFFICES ASSUME IInv, NEW p \in Players
               PROVE  /\ status = "playing" /\ p \in members =>
                           CurrentMissions(p) # {}
                      /\ \A s, t \in CurrentMissions(p) : s = t
                      /\ CurrentMissions(p) # {} =>
                           p \in members /\ status # "lobby"
    BY DEF OneCurrentMission
  <2>1. \A s \in CurrentMissions(p) : s \in Slots /\ s = given[p] /\ given[p] > 0
    BY DEF CurrentMissions, IInv, Tidy, Slots
  <2>2. ASSUME status = "playing", p \in members
        PROVE  given[p] \in CurrentMissions(p)
    BY <2>2, NumbersAssumption DEF CurrentMissions, IInv, Tidy, Busy, Slots
  <2> QED
    BY <2>1, <2>2 DEF IInv, Tidy
<1> QED
  BY <1>1, Invariance, PTL

(* No operation changes a game that has ended: its ranking, its missions,  *)
(* its requests and its members are final.                                 *)
THEOREM RankingIsFinal == Spec => FinalRankingFrozen
<1>1. [Next]_vars =>
        (status = "ended" => UNCHANGED <<gameVars, missionVars>>)
  <2> SUFFICES ASSUME Next, status = "ended"
               PROVE  UNCHANGED <<gameVars, missionVars>>
    BY DEF vars, gameVars, missionVars
  <2>1. /\ ~Start /\ ~End /\ ~FinishDueGame /\ ~TickPhases
        /\ \A p \in Players : ~Join(p)
    BY DEF Start, End, FinishDueGame, TickPhases, Join
  <2>2. \A p \in Players, s \in Slots : ~Active(p, s)
    BY DEF Active
  <2>3. \A p \in Players, s \in Slots :
          /\ ~Complete(p, s) /\ ~RequestValidation(p, s)
          /\ ~SkipTreasureMission(p, s)
          /\ \A v \in members : ~Approve(v, p, s) /\ ~Reject(v, p, s)
    BY <2>2 DEF Complete, RequestValidation, SkipTreasureMission, Approve, Reject
  <2>4. CASE \E p \in Players, s \in Slots : StoreValidProof(p, s)
    BY <2>4 DEF StoreValidProof, gameVars, missionVars
  <2>5. CASE AdvanceClock
    BY <2>5 DEF AdvanceClock, gameVars, missionVars
  <2> QED
    BY <2>1, <2>3, <2>4, <2>5 DEF Next
<1> QED
  BY <1>1, PTL DEF Spec, FinalRankingFrozen

-------------------------------------------------------------------------------
(* What a payment does to the missions and awards of everybody, whether or *)
(* not it starts a shuffle: nothing settled moves, mission s of p is the   *)
(* only one that becomes completed and awarded, and every other open one   *)
(* stays open unless a shuffle cancels it, which only chaos does.          *)
LEMMA PaySettles ==
  ASSUME IInv, NEW p \in members, NEW s \in Slots, mission[p][s] = "assigned",
         NEW paidAt \in Nat, NEW chaosAt \in Nat, Pay(p, s, paidAt, chaosAt)
  PROVE  \A q \in Players, t \in Slots :
           /\ mission[q][t] \in {"completed", "cancelled"} =>
                mission'[q][t] = mission[q][t] /\ awarded'[q][t] = awarded[q][t]
           /\ mission'[q][t] = "completed" <=>
                mission[q][t] = "completed" \/ <<q, t>> = <<p, s>>
           /\ awarded'[q][t] =
                IF <<q, t>> = <<p, s>> THEN Earned(p, paidAt) ELSE awarded[q][t]
           /\ mission[q][t] = "assigned" /\ <<q, t>> # <<p, s>> /\ Mode # "chaos" =>
                mission'[q][t] = "assigned"
<1> USE NumbersAssumption
<1> p \in Players /\ given[p] + 1 \in Slots /\ s = given[p] /\ s # given[p] + 1
  BY DEF IInv, TypeOK, Tidy, Pay, Slots
<1>1. \A q \in Players, t \in Slots :
        awarded'[q][t] =
          IF <<q, t>> = <<p, s>> THEN Earned(p, paidAt) ELSE awarded[q][t]
  BY DEF Pay, Award, IInv, TypeOK
<1> DEFINE m == Replaced(p, s, "completed")
<1>2. \A q \in Players, t \in Slots :
        m[q][t] = IF <<q, t>> = <<p, s>> THEN "completed"
                  ELSE IF <<q, t>> = <<p, given[p] + 1>> THEN "assigned"
                  ELSE mission[q][t]
  BY DEF Replaced, IInv, TypeOK
<1>3. \A q \in Players, t \in Slots :
        q \in members /\ t = GivenOneMore(p)[q] + 1 =>
          mission[q][t] = "none" /\ <<q, t>> # <<p, s>>
  BY DEF GivenOneMore, IInv, Tidy, Slots
<1>4. mission[p][given[p] + 1] = "none"
  BY DEF IInv, Tidy, Slots
<1> HIDE DEF m
<1>5. \/ mission' = m
      \/ Mode = "chaos" /\ mission' = Shuffled(m, GivenOneMore(p))
  BY DEF Pay, ChaosStep, m
<1>6. CASE mission' = m
  BY <1>1, <1>2, <1>4, <1>6
<1>7. CASE Mode = "chaos" /\ mission' = Shuffled(m, GivenOneMore(p))
  <2>1. \A q \in Players, t \in Slots :
          mission'[q][t] =
            IF q \in members /\ t = GivenOneMore(p)[q] + 1 THEN "assigned"
            ELSE IF m[q][t] = "assigned" THEN "cancelled" ELSE m[q][t]
    BY <1>7 DEF Shuffled
  <2> QED
    BY <2>1, <1>1, <1>2, <1>3, <1>4, <1>7
<1> QED
  BY <1>5, <1>6, <1>7

(* A start gives missions where there was none.                            *)
LEMMA StartGives ==
  ASSUME IInv, Start
  PROVE  \A q \in Players, t \in Slots :
           /\ mission[q][t] = "none"
           /\ mission'[q][t] \in {"none", "assigned"}
BY DEF Start, Shuffled, IInv, Tidy, Slots

(* A player who joins is given a mission where there was none.             *)
LEMMA JoinGives ==
  ASSUME IInv, NEW p \in Players, Join(p)
  PROVE  \A q \in Players, t \in Slots :
           \/ mission'[q][t] = mission[q][t]
           \/ mission[q][t] = "none" /\ mission'[q][t] = "assigned"
<1>1. CASE mission' = mission
  BY <1>1
<1>2. CASE /\ given[p] < MaxMissions
           /\ mission' = [mission EXCEPT ![p] = [@ EXCEPT ![given[p] + 1] = "assigned"]]
  BY <1>2, NumbersAssumption DEF IInv, Tidy, Slots
<1> QED
  BY <1>1, <1>2 DEF Join

(* A skip cancels the mission of its player, whose request is dropped.     *)
LEMMA SkipSettles ==
  ASSUME IInv, NEW p \in Players, NEW s \in Slots, SkipTreasureMission(p, s)
  PROVE  \A q \in Players, t \in Slots :
           /\ mission'[q][t] = IF <<q, t>> = <<p, s>> THEN "cancelled"
                               ELSE IF <<q, t>> = <<p, given[p] + 1>> THEN "assigned"
                               ELSE mission[q][t]
           /\ validation'[q][t] =
                IF <<q, t>> = <<p, s>> /\ validation[p][s] = "pending"
                THEN "expired" ELSE validation[q][t]
           /\ mission[p][s] = "assigned"
           /\ <<q, t>> = <<p, given[p] + 1>> => mission[q][t] = "none"
<1> USE NumbersAssumption
<1>1. /\ mission[p][s] = "assigned" /\ s = given[p] /\ given[p] + 1 \in Slots
      /\ s # given[p] + 1
      /\ mission[p][given[p] + 1] = "none"
  BY DEF SkipTreasureMission, Active, IInv, Tidy, Slots
<1>2. \A q \in Players, t \in Slots :
        mission'[q][t] = IF <<q, t>> = <<p, s>> THEN "cancelled"
                         ELSE IF <<q, t>> = <<p, given[p] + 1>> THEN "assigned"
                         ELSE mission[q][t]
  BY <1>1 DEF SkipTreasureMission, Replaced, IInv, Tidy
<1>3. \A q \in Players, t \in Slots :
        validation'[q][t] =
          IF <<q, t>> = <<p, s>> /\ validation[p][s] = "pending"
          THEN "expired" ELSE validation[q][t]
  BY DEF SkipTreasureMission, RequestDropped, IInv, TypeOK
<1> QED
  BY <1>1, <1>2, <1>3

(* What Complete and Approve pay, and to whom.                             *)
LEMMA PaidMission ==
  ASSUME IInv, NEW p \in Players, NEW s \in Slots,
         Complete(p, s) \/ \E v \in members : Approve(v, p, s)
  PROVE  /\ p \in members /\ status = "playing" /\ mission[p][s] = "assigned"
         /\ \E paidAt, chaosAt \in Nat : Pay(p, s, paidAt, chaosAt)
<1>1. p \in members /\ status = "playing" /\ mission[p][s] = "assigned"
  BY ActiveMember DEF Complete, Approve
<1>2. \A t \in Nat : From(t) \subseteq Nat
  BY NumbersAssumption DEF From, IInv, TypeOK
<1>3. clock \in Nat
  BY DEF IInv, TypeOK
<1> QED
  BY <1>1, <1>2, <1>3 DEF Complete, Approve

-------------------------------------------------------------------------------
(* Settled missions.                                                       *)

(* A mission completed or cancelled keeps its status and its award, though *)
(* a shuffle rewrites every row: what the shuffle and the replacements     *)
(* assign are rows that had no mission, because Tidy numbers them.         *)
THEOREM SettlementIsFinal == Spec => MissionsSettleOnce
<1> DEFINE Kept == \A p \in Players, s \in Slots :
                     mission[p][s] \in {"completed", "cancelled"} =>
                       mission'[p][s] = mission[p][s] /\ awarded'[p][s] = awarded[p][s]
<1>1. IInv /\ Next => Kept
  <2> SUFFICES ASSUME IInv, Next PROVE Kept
    OBVIOUS
  <2>1. ASSUME NEW p \in Players, Join(p) PROVE Kept
    BY <2>1, JoinGives DEF Join
  <2>2. CASE Start
    BY <2>2, StartGives
  <2>3. CASE End \/ FinishDueGame
    BY <2>3 DEF End, FinishDueGame, EndGame
  <2>4. CASE TickPhases
    BY <2>4 DEF TickPhases
  <2>5. ASSUME NEW p \in Players, NEW s \in Slots,
               Complete(p, s) \/ \E v \in members : Approve(v, p, s)
        PROVE  Kept
    BY <2>5, PaidMission, PaySettles
  <2>6. ASSUME NEW p \in Players, NEW s \in Slots, SkipTreasureMission(p, s)
        PROVE  Kept
    <3>1. awarded' = awarded
      BY <2>6 DEF SkipTreasureMission
    <3> QED
      BY <2>6, <3>1, SkipSettles
  <2>7. ASSUME NEW p \in Players, NEW s \in Slots,
               \/ RequestValidation(p, s)
               \/ \E v \in members : Reject(v, p, s)
               \/ StoreValidProof(p, s)
        PROVE  Kept
    BY <2>7 DEF RequestValidation, Reject, StoreValidProof
  <2>8. CASE AdvanceClock
    BY <2>8 DEF AdvanceClock
  <2> QED
    BY <2>1, <2>2, <2>3, <2>4, <2>5, <2>6, <2>7, <2>8 DEF Next
<1> QED
  BY <1>1, Invariance, PTL DEF Spec, MissionsSettleOnce

-------------------------------------------------------------------------------
(* What is awarded.                                                        *)

LEMMA EarnedIsPositive ==
  ASSUME NEW p \in Players, NEW t \in Nat, chaos \in ChaosState
  PROVE  Earned(p, t) \in Nat /\ Earned(p, t) > 0
<1>1. ChaosPoints(chaos, p) \in Nat /\ ChaosPoints(chaos, p) > 0
  BY NumbersAssumption DEF ChaosPoints, BountyBonus
<1> QED
  BY <1>1, NumbersAssumption DEF Earned

(* Missions are awarded points if and only if they are completed.          *)
PaidWhenDone ==
  \A p \in Players, s \in Slots : awarded[p][s] > 0 <=> mission[p][s] = "completed"

(* A step pays nobody, or one player for one mission that was not paid:    *)
(* the score grows by exactly what CompleteAssignment stores.              *)
LedgerStep ==
  \/ UNCHANGED <<score, awarded>>
  \/ \E p \in Players, s \in Slots, n \in Nat \ {0} :
       /\ mission[p][s] = "assigned" /\ awarded[p][s] = 0
       /\ mission'[p][s] = "completed"
       /\ awarded' = [awarded EXCEPT ![p] = [@ EXCEPT ![s] = n]]
       /\ score' = [score EXCEPT ![p] = @ + n]

(* An award of zero becomes n exactly when the score of its player grows   *)
(* by n, and the mission it is for is completed in that very step.         *)
LEMMA OnlyDoneMissionsArePaid == Spec => []PaidWhenDone /\ [][LedgerStep]_vars
<1>1. Init => PaidWhenDone
  BY DEF Init, PaidWhenDone
<1>2. IInv /\ PaidWhenDone /\ [Next]_vars => PaidWhenDone' /\ [LedgerStep]_vars
  <2> SUFFICES ASSUME IInv, PaidWhenDone, [Next]_vars
               PROVE  PaidWhenDone' /\ LedgerStep
    OBVIOUS
  <2>1. ASSUME UNCHANGED <<score, awarded>>,
               \A q \in Players, t \in Slots :
                 mission'[q][t] = "completed" <=> mission[q][t] = "completed"
        PROVE  PaidWhenDone' /\ LedgerStep
    BY <2>1 DEF PaidWhenDone, LedgerStep
  <2>2. ASSUME NEW p \in Players, NEW s \in Slots,
               Complete(p, s) \/ \E v \in members : Approve(v, p, s)
        PROVE  PaidWhenDone' /\ LedgerStep
    <3>1. PICK paidAt \in Nat, chaosAt \in Nat :
            /\ p \in members /\ mission[p][s] = "assigned"
            /\ Pay(p, s, paidAt, chaosAt)
      BY <2>2, PaidMission
    <3> DEFINE n == Earned(p, paidAt)
    <3>2. n \in Nat \ {0}
      BY EarnedIsPositive DEF IInv, TypeOK
    <3>3. awarded' = [awarded EXCEPT ![p] = [@ EXCEPT ![s] = n]]
          /\ score' = [score EXCEPT ![p] = @ + n]
      BY <3>1 DEF Pay, Award, AddScore
    <3> HIDE DEF n
    <3>4. awarded[p][s] \in Nat /\ ~(awarded[p][s] > 0)
      BY <3>1 DEF PaidWhenDone, IInv, TypeOK
    <3>5. \A q \in Players, t \in Slots :
            /\ mission'[q][t] = "completed" <=>
                 mission[q][t] = "completed" \/ <<q, t>> = <<p, s>>
            /\ awarded'[q][t] = IF <<q, t>> = <<p, s>> THEN n ELSE awarded[q][t]
      BY <3>1, PaySettles DEF n
    <3>6. PaidWhenDone'
      BY <3>2, <3>5 DEF PaidWhenDone
    <3>7. awarded[p][s] = 0
      BY <3>4
    <3> QED
      BY <3>1, <3>2, <3>3, <3>5, <3>6, <3>7 DEF LedgerStep
  <2>3. ASSUME NEW p \in Players, Join(p) PROVE PaidWhenDone' /\ LedgerStep
    BY <2>1, <2>3, JoinGives DEF Join
  <2>4. CASE Start
    BY <2>1, <2>4, StartGives DEF Start
  <2>5. ASSUME NEW p \in Players, NEW s \in Slots, SkipTreasureMission(p, s)
        PROVE  PaidWhenDone' /\ LedgerStep
    <3>1. UNCHANGED <<score, awarded>>
      BY <2>5 DEF SkipTreasureMission
    <3> QED
      BY <2>1, <2>5, <3>1, SkipSettles
  <2>6. ASSUME NEW p \in Players, NEW s \in Slots,
               \/ RequestValidation(p, s)
               \/ \E v \in members : Reject(v, p, s)
               \/ StoreValidProof(p, s)
        PROVE  PaidWhenDone' /\ LedgerStep
    BY <2>1, <2>6 DEF RequestValidation, Reject, StoreValidProof
  <2>7. CASE End \/ FinishDueGame \/ TickPhases \/ AdvanceClock \/ UNCHANGED vars
    BY <2>1, <2>7 DEF End, FinishDueGame, EndGame, TickPhases, AdvanceClock, vars
  <2> QED
    BY <2>2, <2>3, <2>4, <2>5, <2>6, <2>7 DEF Next
<1> QED
  BY <1>1, <1>2, Invariance, PTL DEF Spec

(* The first half of LedgerBalances.                                       *)
Balanced == \A p \in Players : score[p] = Sum(awarded[p])

LEMMA BalancedMeansIt == LedgerBalances <=> Balanced /\ PaidWhenDone
  BY DEF LedgerBalances, Balanced, PaidWhenDone, Sum

LEMMA FiniteSlots == IsFiniteSet(Slots)
  BY NumbersAssumption, FS_Interval DEF Slots

LEMMA InitBalanced ==
  ASSUME Init
  PROVE  Balanced
<1>1. \A p \in Players : awarded[p] \in [Slots -> {0}] /\ score[p] = 0
  BY DEF Init
<1> QED
  BY <1>1, FiniteSlots, SumOfZeros DEF Balanced

LEMMA LedgerStepBalances ==
  ASSUME TypeOK, TypeOK', Balanced, [LedgerStep]_vars
  PROVE  Balanced'
<1>1. CASE UNCHANGED <<score, awarded>>
  BY <1>1 DEF Balanced
<1>2. CASE ~(UNCHANGED <<score, awarded>>)
  <2>1. PICK p \in Players, s \in Slots, n \in Nat \ {0} :
          /\ awarded[p][s] = 0
          /\ awarded' = [awarded EXCEPT ![p] = [@ EXCEPT ![s] = n]]
          /\ score' = [score EXCEPT ![p] = @ + n]
    BY <1>2 DEF LedgerStep, vars
  <2>2. ASSUME NEW q \in Players
        PROVE  score'[q] = Sum(awarded'[q])
    <3>1. CASE q # p
      <4>1. score'[q] = score[q] /\ awarded'[q] = awarded[q]
        BY <2>1, <3>1 DEF TypeOK
      <4> QED
        BY <4>1 DEF Balanced
    <3>2. CASE q = p
      <4>1. awarded[q] \in [Slots -> Nat] /\ awarded'[q] \in [Slots -> Nat]
        BY DEF TypeOK
      <4>2. /\ awarded'[q][s] = n
            /\ \A t \in Slots \ {s} : awarded'[q][t] = awarded[q][t]
        BY <2>1, <3>2 DEF TypeOK
      <4>3. Sum(awarded'[q]) = Sum(awarded[q]) + awarded'[q][s] - awarded[q][s]
        BY <4>1, <4>2, FiniteSlots, SumOfOneChange
      <4>4. score'[q] = score[q] + n /\ score[q] = Sum(awarded[q]) /\ score[q] \in Nat
        BY <2>1, <3>2 DEF Balanced, TypeOK
      <4> QED
        BY <2>1, <3>2, <4>2, <4>3, <4>4
    <3> QED
      BY <3>1, <3>2
  <2> QED
    BY <2>2 DEF Balanced
<1> QED
  BY <1>1, <1>2

(* A score is the sum of what the missions of its player were awarded, and *)
(* those that are completed are the ones that were: AddScore and           *)
(* CompleteAssignment agree in every mode and whenever the clock is read.  *)
THEOREM ScoresAreEarned == Spec => []LedgerBalances
<1>1. Init => Balanced
  BY InitBalanced
<1>2. IInv /\ IInv' /\ Balanced /\ [LedgerStep]_vars => Balanced'
  BY LedgerStepBalances DEF IInv
<1>3. LedgerBalances <=> Balanced /\ PaidWhenDone
  BY BalancedMeansIt
<1> QED
  BY <1>1, <1>2, <1>3, Invariance, OnlyDoneMissionsArePaid, PTL DEF Spec

-------------------------------------------------------------------------------
(* Validation requests.                                                    *)

(* RequestsAreLive alone is not inductive: a game in trust mode would pay  *)
(* missions and leave their requests pending, were there any.              *)
RequestInv ==
  /\ RequestsAreLive
  /\ PaidIffApproved
  /\ ValidationMode = "trust" =>
       \A p \in Players, s \in Slots : validation[p][s] = "none"

LEMMA NextRequestInv == IInv /\ RequestInv /\ [Next]_vars => RequestInv'
<1> SUFFICES ASSUME IInv, RequestInv, [Next]_vars PROVE RequestInv'
  OBVIOUS
<1> USE DEF RequestInv, RequestsAreLive, PaidIffApproved
<1>0. settings' = settings /\ ValidationMode' = ValidationMode /\ Mode' = Mode
  BY DEF Next, Join, Start, End, FinishDueGame, TickPhases, Complete,
         RequestValidation, Approve, Reject, SkipTreasureMission, StoreValidProof,
         AdvanceClock, vars, ValidationMode, Mode
<1>m. ValidationMode \in {"trust", "peer"}
  BY SettingsAssumption DEF IInv, TypeOK, AnySettings, ValidationMode
<1>1. ASSUME NEW p \in Players, Join(p) PROVE RequestInv'
  <2>1. validation' = validation /\ status' = status
    BY <1>1 DEF Join
  <2> QED
    BY <1>0, <1>1, <2>1, JoinGives
<1>2. CASE Start
  <2>1. validation' = validation /\ status = "lobby"
    BY <1>2 DEF Start
  <2> QED
    BY <1>0, <1>2, <2>1, StartGives
<1>3. ASSUME EndGame PROVE RequestInv'
  <2>1. mission' = mission
    BY <1>3 DEF EndGame
  <2>2. \A q \in Players, t \in Slots :
          validation'[q][t] = IF validation[q][t] = "pending" THEN "expired"
                              ELSE validation[q][t]
    BY <1>3 DEF EndGame, PendingExpired
  <2> QED
    BY <1>0, <2>1, <2>2
<1>4. CASE TickPhases \/ AdvanceClock \/ UNCHANGED vars
  BY <1>0, <1>4 DEF TickPhases, AdvanceClock, vars
<1>5. ASSUME NEW p \in Players, NEW s \in Slots, Complete(p, s) PROVE RequestInv'
  BY <1>0, <1>5 DEF Complete
<1>6. ASSUME NEW p \in Players, NEW s \in Slots, NEW v \in members, Approve(v, p, s)
      PROVE  RequestInv'
  <2>1. PICK paidAt \in Nat, chaosAt \in Nat :
          /\ p \in members /\ status = "playing" /\ mission[p][s] = "assigned"
          /\ Pay(p, s, paidAt, chaosAt)
    BY <1>6, PaidMission
  <2>2. \A q \in Players, t \in Slots :
          /\ mission'[q][t] = "completed" <=>
               mission[q][t] = "completed" \/ <<q, t>> = <<p, s>>
          /\ mission[q][t] = "assigned" /\ <<q, t>> # <<p, s>> /\ Mode # "chaos" =>
               mission'[q][t] = "assigned"
    BY <2>1, PaySettles
  <2>3. /\ status' = "playing"
        /\ \A q \in Players, t \in Slots :
             validation'[q][t] = IF <<q, t>> = <<p, s>> THEN "approved"
                                 ELSE validation[q][t]
    BY <1>6, <2>1 DEF Approve, IInv, TypeOK
  <2>4. validation[p][s] = "pending"
    BY <1>6 DEF Approve
  <2> QED
    BY <1>0, <2>2, <2>3, <2>4
<1>7. ASSUME NEW p \in Players, NEW s \in Slots,
             RequestValidation(p, s) \/ \E v \in members : Reject(v, p, s)
      PROVE  RequestInv'
  <2>1. /\ mission' = mission /\ status' = status
        /\ mission[p][s] = "assigned" /\ status = "playing"
    BY <1>7 DEF RequestValidation, Reject, Active
  <2>2. \E new \in {"pending", "rejected"} : \A q \in Players, t \in Slots :
          validation'[q][t] = IF <<q, t>> = <<p, s>> THEN new ELSE validation[q][t]
    BY <1>7 DEF RequestValidation, Reject, IInv, TypeOK
  <2>3. ValidationMode = "peer"
    BY <1>7, <1>m DEF RequestValidation, Reject
  <2> QED
    BY <1>0, <2>1, <2>2, <2>3
<1>8. ASSUME NEW p \in Players, NEW s \in Slots, SkipTreasureMission(p, s)
      PROVE  RequestInv'
  <2>1. status' = status
    BY <1>8 DEF SkipTreasureMission
  <2> QED
    BY <1>0, <1>8, <2>1, SkipSettles
<1>9. ASSUME NEW p \in Players, NEW s \in Slots, StoreValidProof(p, s)
      PROVE  RequestInv'
  BY <1>0, <1>9 DEF StoreValidProof
<1> HIDE DEF RequestInv, RequestsAreLive, PaidIffApproved
<1> QED
  BY <1>1, <1>2, <1>3, <1>4, <1>5, <1>6, <1>7, <1>8, <1>9
     DEF Next, End, FinishDueGame

LEMMA RequestInvariance == Spec => []RequestInv
<1>1. Init => RequestInv
  BY DEF Init, RequestInv, RequestsAreLive, PaidIffApproved
<1> QED
  BY <1>1, NextRequestInv, Invariance, PTL DEF Spec

(* Both ends of a game and a skip expire the requests they make moot; only *)
(* a shuffle leaves a request on a mission nobody can complete any more.   *)
THEOREM PendingRequestsAreLive == Spec => []RequestsAreLive
<1>1. RequestInv => RequestsAreLive
  BY DEF RequestInv
<1> QED
  BY <1>1, RequestInvariance, PTL

(* Between peers a mission is paid if and only if somebody approved it:    *)
(* no order of requests, refusals, skips and shuffles pays another one.    *)
THEOREM PaymentNeedsApproval == Spec => []PaidIffApproved
<1>1. RequestInv => PaidIffApproved
  BY DEF RequestInv
<1> QED
  BY <1>1, RequestInvariance, PTL

-------------------------------------------------------------------------------
(* The chaos engine.                                                       *)

(* What a completion does to the chaos row: while an event blocks it can   *)
(* only lose a use or disappear, and nothing starts.                       *)
LEMMA ChaosAfterPay ==
  ASSUME TypeOK, NEW p \in members, NEW s \in Slots, NEW paidAt, NEW chaosAt,
         Pay(p, s, paidAt, chaosAt)
  PROVE  \/ chaos' = chaos
         \/ /\ Blocking(chaos)
            /\ \/ /\ chaos.event = "bounty"
                  /\ chaos' = [chaos EXCEPT !.completions = @ + 1]
               \/ /\ chaos.uses > 1
                  /\ chaos' = [chaos EXCEPT !.uses = @ - 1, !.completions = @ + 1]
         \/ chaos' = [ClearEvent(chaos) EXCEPT !.completions = @ + 1]
         \/ ~Blocking(chaos) /\ chaos' \in StartableEvents
<1>1. chaos \in ChaosState
  BY DEF TypeOK
<1>2. CASE Mode # "chaos"
  BY <1>2 DEF Pay
<1>3. CASE Mode = "chaos"
  <2> DEFINE after == ApplyCompletion(chaos, p)
  <2>1. \/ ~TriggerDue(chaos, after, chaosAt)
           /\ chaos' = [after EXCEPT !.completions = @ + 1]
        \/ TriggerDue(chaos, after, chaosAt) /\ chaos' \in StartableEvents
    BY <1>3 DEF Pay, ChaosStep, StartableEvents
  <2>2. CASE TriggerDue(chaos, after, chaosAt) /\ chaos' \in StartableEvents
    BY <2>2 DEF TriggerDue
  <2>3. CASE chaos' = [after EXCEPT !.completions = @ + 1]
    <3>1. \/ after = chaos /\ Blocking(chaos) /\ chaos.event = "bounty"
          \/ /\ Blocking(chaos) /\ chaos.uses > 1
             /\ after = [chaos EXCEPT !.uses = @ - 1]
          \/ after = ClearEvent(chaos)
      BY DEF ApplyCompletion, AppliesTo
    <3> HIDE DEF after
    <3>2. CASE after = [chaos EXCEPT !.uses = @ - 1] /\ Blocking(chaos) /\ chaos.uses > 1
      <4>1. chaos' = [chaos EXCEPT !.uses = @ - 1, !.completions = @ + 1]
        BY <2>3, <3>2, <1>1 DEF ChaosState
      <4> QED
        BY <3>2, <4>1
    <3> QED
      BY <2>3, <3>1, <3>2
  <2> QED
    BY <2>1, <2>2, <2>3
<1> QED
  BY <1>2, <1>3

(* The only steps that touch the chaos row.                                *)
LEMMA ChaosMoves ==
  ASSUME IInv, [Next]_vars
  PROVE  /\ members \subseteq members'
         /\ \/ chaos' = chaos
            \/ /\ Blocking(chaos)
               /\ \/ /\ chaos.event = "bounty"
                     /\ chaos' = [chaos EXCEPT !.completions = @ + 1]
                  \/ /\ chaos.uses > 1
                     /\ chaos' = [chaos EXCEPT !.uses = @ - 1, !.completions = @ + 1]
            \/ chaos' = [ClearEvent(chaos) EXCEPT !.completions = @ + 1]
            \/ ~Blocking(chaos) /\ chaos' \in StartableEvents
<1>1. members \subseteq members'
  BY DEF Next, Join, Start, End, FinishDueGame, EndGame, TickPhases, Complete,
         RequestValidation, Approve, Reject, SkipTreasureMission, StoreValidProof,
         AdvanceClock, vars
<1>2. ASSUME NEW p \in Players, NEW s \in Slots,
             Complete(p, s) \/ \E v \in members : Approve(v, p, s)
      PROVE  \E q \in members, paidAt, chaosAt \in Nat : Pay(q, s, paidAt, chaosAt)
  BY <1>2, PaidMission
<1>3. \/ chaos' = chaos
      \/ \E p \in Players, s \in Slots :
           Complete(p, s) \/ \E v \in members : Approve(v, p, s)
  BY DEF Next, Join, Start, End, FinishDueGame, EndGame, TickPhases,
         RequestValidation, Reject, SkipTreasureMission, StoreValidProof,
         AdvanceClock, vars
<1>4. TypeOK
  BY DEF IInv
<1> QED
  BY <1>1, <1>2, <1>3, <1>4, ChaosAfterPay

(* A Double Trouble has been used once for every completion counted since  *)
(* it started, which holds because nothing may start while it blocks.      *)
THEOREM ChaosRowCoherent == Spec => []ChaosCoherent
<1>1. Init => ChaosCoherent
  BY DEF Init, ChaosCoherent, NewEvent
<1>2. IInv /\ ChaosCoherent /\ [Next]_vars => ChaosCoherent'
  <2> SUFFICES ASSUME IInv, ChaosCoherent, [Next]_vars PROVE ChaosCoherent'
    OBVIOUS
  <2>1. chaos \in ChaosState
    BY DEF IInv, TypeOK
  <2>2. members \subseteq members'
    BY ChaosMoves
  <2>3. CASE chaos' = chaos
    BY <2>2, <2>3 DEF ChaosCoherent
  <2>4. CASE chaos.event = "bounty" /\ chaos' = [chaos EXCEPT !.completions = @ + 1]
    BY <2>1, <2>2, <2>4 DEF ChaosCoherent, ChaosState
  <2>5. CASE /\ Blocking(chaos) /\ chaos.uses > 1
             /\ chaos' = [chaos EXCEPT !.uses = @ - 1, !.completions = @ + 1]
    BY <2>1, <2>2, <2>5 DEF ChaosCoherent, ChaosState, Blocking, DoubleTroubleUses
  <2>6. CASE chaos' = [ClearEvent(chaos) EXCEPT !.completions = @ + 1]
    BY <2>1, <2>6 DEF ChaosCoherent, ChaosState, ClearEvent
  <2>7. CASE chaos' \in StartableEvents
    BY <2>2, <2>7 DEF ChaosCoherent, StartableEvents, NewEvent, DoubleTroubleUses
  <2> QED
    BY <2>3, <2>4, <2>5, <2>6, <2>7, ChaosMoves
<1> QED
  BY <1>1, <1>2, Invariance, PTL DEF Spec

(* No other event replaces a Double Trouble or a bounty before it is       *)
(* spent, not even in the completion that spends it.                       *)
THEOREM EventsRunTheirCourse == Spec => BlockingEventsRunTheirCourse
<1>1. IInv /\ [Next]_vars =>
        (Blocking(chaos) =>
           \/ chaos'.event = "none"
           \/ chaos'.event = chaos.event /\ chaos'.target = chaos.target)
  <2> SUFFICES ASSUME IInv, [Next]_vars, Blocking(chaos)
               PROVE  \/ chaos'.event = "none"
                      \/ chaos'.event = chaos.event /\ chaos'.target = chaos.target
    OBVIOUS
  <2>1. chaos \in ChaosState
    BY DEF IInv, TypeOK
  <2> QED
    BY <2>1, ChaosMoves DEF ChaosState, ClearEvent
<1> QED
  BY <1>1, Invariance, PTL DEF Spec, BlockingEventsRunTheirCourse

-------------------------------------------------------------------------------
(* The lifecycle events.                                                   *)

(* LifecycleLoggedOnce is not inductive: what start and the scheduler are  *)
(* about to record depends on where the game is.                           *)
LifecycleInv ==
  /\ LifecycleLoggedOnce
  /\ status = "lobby" => \A kind \in Lifecycle : logged[kind] = 0
  /\ status = "playing" => logged["game_started"] = 1

LEMMA NextLifecycleInv == IInv /\ LifecycleInv /\ [Next]_vars => LifecycleInv'
<1> SUFFICES ASSUME IInv, LifecycleInv, [Next]_vars PROVE LifecycleInv'
  OBVIOUS
<1> USE DEF Lifecycle
<1>t. logged \in [Lifecycle -> Nat] /\ status \in {"lobby", "playing", "ended"}
  BY DEF IInv, TypeOK
<1>1. CASE Start
  <2>1. status = "lobby" /\ status' = "playing"
        /\ logged' = [logged EXCEPT !["game_started"] = @ + 1]
    BY <1>1 DEF Start
  <2> QED
    BY <1>t, <2>1 DEF LifecycleInv, LifecycleLoggedOnce
<1>2. CASE End \/ FinishDueGame
  <2>1. status # "ended" /\ status' = "ended"
        /\ logged' = [logged EXCEPT !["game_ended"] = @ + 1]
    BY <1>2 DEF End, FinishDueGame, EndGame
  <2> QED
    BY <1>t, <2>1 DEF LifecycleInv, LifecycleLoggedOnce
<1>3. CASE TickPhases
  <2>1. status = "playing" /\ status' = "playing"
    BY <1>3 DEF TickPhases
  <2>2. \A kind \in Lifecycle :
          logged'[kind] = IF PhaseDue(kind) THEN logged[kind] + 1 ELSE logged[kind]
    BY <1>3 DEF TickPhases
  <2>3. ~PhaseDue("game_started") /\ ~PhaseDue("game_ended")
    BY DEF PhaseDue
  <2>4. \A kind \in Lifecycle : PhaseDue(kind) => logged[kind] = 0
    BY DEF PhaseDue
  <2>5. PhaseDue("final_minute") /\ logged["five_minutes_remaining"] = 0 =>
          PhaseDue("five_minutes_remaining")
    <3>1. endsAt - clock \in Int /\ Minute \in Nat
      BY NumbersAssumption DEF IInv, TypeOK
    <3>2. endsAt - clock <= Minute => endsAt - clock <= 5 * Minute
      BY <3>1
    <3> QED
      BY <3>2 DEF PhaseDue
  <2> QED
    BY <1>t, <2>1, <2>2, <2>3, <2>4, <2>5 DEF LifecycleInv, LifecycleLoggedOnce
<1>4. CASE UNCHANGED <<status, logged>>
  BY <1>4 DEF LifecycleInv, LifecycleLoggedOnce
<1>5. Start \/ End \/ FinishDueGame \/ TickPhases \/ UNCHANGED <<status, logged>>
  BY DEF Next, Join, Complete, RequestValidation, Approve, Reject,
         SkipTreasureMission, StoreValidProof, AdvanceClock, vars
<1> QED
  BY <1>1, <1>2, <1>3, <1>4, <1>5

(* The start, both warnings and the end are each recorded at most once and *)
(* in that order, although the scheduler looks at the game every second    *)
(* and either the host or a passing request may end it.                    *)
THEOREM LifecycleIsLoggedOnce == Spec => []LifecycleLoggedOnce
<1>1. Init => LifecycleInv
  BY DEF Init, LifecycleInv, LifecycleLoggedOnce, Lifecycle
<1>2. LifecycleInv => LifecycleLoggedOnce
  BY DEF LifecycleInv
<1> QED
  BY <1>1, <1>2, NextLifecycleInv, Invariance, PTL DEF Spec

===============================================================================
