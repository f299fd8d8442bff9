-------------------------------- MODULE Reaction --------------------------------
(***************************************************************************)
(* The reaction challenges of one game: the scheduler of the server, the   *)
(* host who gives the two buttons to players, the box that polls a         *)
(* command, acknowledges it, plays and reports, and the network between.   *)
(*                                                                         *)
(* A transaction of the server is one action.  What the code does between  *)
(* two transactions is not: TickReactions reads the clock and the list of  *)
(* challenges to expire first and works on them one by one, and a request  *)
(* reads the clock before it waits for the lock of the game.  A request of *)
(* the box may be lost, may be served after the box gave up on it, and its *)
(* response may be lost.  The box may reboot, and a tick may stop anywhere *)
(* (a database error, a restart of the server).                            *)
(***************************************************************************)
EXTENDS Integers, FiniteSets, Functions

CONSTANTS
  Players,            \* the members of the game, two or more
  NoOne,              \* NULL in a column that refers to a player
  MaxChallenges,      \* challenges scheduled in the game (bound)
  MaxEvents,          \* event identifiers the box draws (bound)
  MaxClock,           \* the last instant considered (bound)
  Deadline,           \* games.ends_at, 0 when the game is open-ended
  AssignmentTimeout,  \* REACTION_ASSIGNMENT_TIMEOUT_SECONDS
  ResultTimeout,      \* REACTION_RESULT_TIMEOUT_SECONDS
  Delay,              \* reaction_challenges.delay_ms
  Intervals,          \* REACTION_MIN_INTERVAL .. REACTION_MAX_INTERVAL
  LockWait,           \* how long a request may wait for the game's lock (bound)
  Times               \* the reaction times, in milliseconds, the box measures

Challenges == 1 .. MaxChallenges
Buttons == {"S2", "S3"}
Someone == Players \cup {NoOne}
ReactionTimeout == 5000

ASSUME PlayersAssumption == NoOne \notin Players /\ Cardinality(Players) >= 2
ASSUME NumbersAssumption ==
  /\ {MaxChallenges, MaxEvents, MaxClock, AssignmentTimeout, ResultTimeout,
      Delay} \subseteq Nat \ {0}
  /\ {Deadline, LockWait} \subseteq Nat
  /\ Intervals \subseteq Nat /\ Intervals # {}
  /\ Times \subseteq Nat

NoRow == -2      \* reaction_game_states has no row for the game
NoTrigger == -1  \* next_trigger_at IS NULL

VARIABLES
  clock,      \* the server's clock
  game,       \* games.status, from its start on
  next,       \* reaction_game_states.next_trigger_at
  status,     \* reaction_challenges.status, "none" before the insertion
  kind,       \* "solo" or "duel"
  holder,     \* the player each button was given to
  expires,    \* reaction_challenges.expires_at
  result,     \* what was recorded when the challenge was resolved
  command,    \* device_commands: its status and expires_at
  score,      \* the points players won in reaction challenges
  online,     \* was the box heard of within DEVICE_ONLINE_TIMEOUT_SECONDS?
  tick,       \* TickReactions: where it is and what it has read
  box,        \* the firmware
  events,     \* event identifiers drawn so far
  net         \* the requests of the box on their way

dbVars == <<game, next, status, kind, holder, expires, result, command, score>>
vars == <<dbVars, clock, online, tick, box, events, net>>

Active == {"awaiting_assignment", "awaiting_device", "armed"}
ActiveChallenges == {c \in Challenges : status[c] \in Active}

NoOutcome == [button |-> "", falseStart |-> FALSE, ms |-> -1]
TimedOut == NoOutcome

Outcomes ==
  [button : Buttons, falseStart : {TRUE}, ms : {-1}]
    \cup [button : Buttons, falseStart : {FALSE}, ms : Times] \cup {TimedOut}

NoResult == [event |-> 0, outcome |-> NoOutcome, winner |-> NoOne, points |-> 0]

Ack(c) == [type |-> "ack", challenge |-> c, event |-> 0, outcome |-> NoOutcome]
Report(c, e, o) == [type |-> "result", challenge |-> c, event |-> e, outcome |-> o]

IdleBox == [state |-> "idle", challenge |-> 0, outcome |-> NoOutcome, event |-> 0,
            confirmed |-> FALSE]
IdleTick == [phase |-> "idle", now |-> 0, expiring |-> {}]

(* Every column, message and local state has the values the code gives it. *)
TypeOK ==
  /\ clock \in 0 .. MaxClock
  /\ game \in {"playing", "ended"}
  /\ next \in {NoRow, NoTrigger} \cup Nat
  /\ status \in
       [Challenges -> Active \cup {"none", "resolved", "expired", "cancelled"}]
  /\ kind \in [Challenges -> {"solo", "duel"}]
  /\ holder \in [Challenges -> [Buttons -> Someone]]
  /\ expires \in [Challenges -> Nat]
  /\ result \in [Challenges -> [event : 0 .. MaxEvents,
                                outcome : Outcomes, winner : Someone, points : Nat]]
  /\ command \in
       [Challenges ->
         [status : {"none", "pending", "acknowledged", "completed", "expired"},
          expires : Nat]]
  /\ score \in [Players -> Nat]
  /\ online \in BOOLEAN
  /\ tick \in [phase : {"idle", "expiring", "scheduling"}, now : Nat,
               expiring : SUBSET Challenges]
  /\ box \in [state : {"idle", "acking", "playing", "reporting"},
              challenge : {0} \cup Challenges, outcome : Outcomes,
              event : 0 .. MaxEvents, confirmed : BOOLEAN]
  /\ events \in 0 .. MaxEvents
  /\ \A m \in net :
       /\ m.type \in {"ack", "result"}
       /\ m.challenge \in Challenges
       /\ m.outcome \in Outcomes
       /\ m.event \in 0 .. MaxEvents

GameExpired(t) == Deadline # 0 /\ t >= Deadline

\* What a request may have read on the clock before it got the game's lock.
ReadBeforeLock == {t \in 0 .. clock : clock - t <= LockWait}

-------------------------------------------------------------------------------
(* The scheduler: TickReactions.                                           *)

\* The mutant that expires no challenge a host has assigned.
ExpirableUnassigned ==
  {c \in ActiveChallenges : expires[c] <= clock /\ status[c] = "awaiting_assignment"}

Expirable == {c \in ActiveChallenges : expires[c] <= clock \/ game # "playing"}

\* It reads the clock once, creates a missing schedule and lists what to expire.
TickBegins ==
  /\ tick.phase = "idle"
  /\ tick' = [phase |-> "expiring", now |-> clock, expiring |-> Expirable]
  /\ IF game = "playing" /\ next = NoRow
     THEN \E i \in Intervals : next' = clock + i
     ELSE UNCHANGED next
  /\ UNCHANGED <<game, status, kind, holder, expires, result, command, score,
                 clock, online, box, events, net>>

\* The mutant that leaves the command of a closed challenge to the box.
WithdrawnKept(C) == command

\* The commands once nobody is to carry out those of the challenges in C.
Withdrawn(C) ==
  [c \in Challenges |->
    IF c \in C /\ command[c].status \in {"pending", "acknowledged"}
    THEN [command[c] EXCEPT !.status = "expired"] ELSE command[c]]

\* The mutant that expires a challenge and plans no other one.
NeverReplanned(now) == next' = next

\* ReplanReaction, nextReactionAt.
Replanned(now) == \E i \in Intervals : next' = now + i

\* ExpireReaction, the transaction for one challenge of the list.
TickExpires(c) ==
  /\ tick.phase = "expiring" /\ c \in tick.expiring
  /\ tick' = [tick EXCEPT !.expiring = @ \ {c}]
  /\ IF status[c] \in Active
     THEN /\ status' = [status EXCEPT ![c] =
                          IF game = "playing" THEN "expired" ELSE "cancelled"]
          /\ expires' = [expires EXCEPT ![c] = tick.now]
          /\ command' = Withdrawn({c})
          /\ IF game = "playing" THEN Replanned(tick.now)
             ELSE next' = IF next = NoRow THEN NoRow ELSE NoTrigger
     ELSE UNCHANGED <<status, expires, command, next>>
  /\ UNCHANGED <<game, kind, holder, result, score, clock, online, box, events, net>>

\* What DueReactionGames selects, and what the transaction looks at again.
Due == game = "playing" /\ next >= 0 /\ next <= tick.now /\ online /\ ActiveChallenges = {}

TickLooksForDue ==
  /\ tick.phase = "expiring" /\ tick.expiring = {}
  /\ tick' = IF Due THEN [tick EXCEPT !.phase = "scheduling"] ELSE IdleTick
  /\ UNCHANGED <<dbVars, clock, online, box, events, net>>

StillDue == Due /\ ~GameExpired(tick.now)

\* The transaction that inserts a challenge, or finds that none is due any more.
TickSchedules ==
  /\ tick.phase = "scheduling"
  /\ tick' = IdleTick
  /\ IF StillDue
     THEN \E c \in Challenges, k \in {"solo", "duel"} :
            /\ status[c] = "none" /\ \A d \in 1 .. c - 1 : status[d] # "none"
            /\ tick.now + AssignmentTimeout <= MaxClock
            /\ status' = [status EXCEPT ![c] = "awaiting_assignment"]
            /\ kind' = [kind EXCEPT ![c] = k]
            /\ expires' = [expires EXCEPT ![c] = tick.now + AssignmentTimeout]
            /\ next' = NoTrigger
     ELSE UNCHANGED <<status, kind, expires, next>>
  /\ UNCHANGED <<game, holder, result, command, score, clock, online, box,
                 events, net>>

\* A database error or a restart: the next tick starts afresh.
TickStops ==
  /\ tick.phase # "idle"
  /\ tick' = IdleTick
  /\ UNCHANGED <<dbVars, clock, online, box, events, net>>

-------------------------------------------------------------------------------
(* The host and the end of the game.                                       *)

\* validateReactionAssignment.
ValidHolders(k) ==
  {h \in [Buttons -> Someone] :
     IF k = "solo" THEN (h["S2"] = NoOne) # (h["S3"] = NoOne)
     ELSE h["S2"] # NoOne /\ h["S3"] # NoOne /\ h["S2"] # h["S3"]}

AssignReaction(c) ==
  /\ game = "playing" /\ status[c] = "awaiting_assignment" /\ online
  /\ \E now \in ReadBeforeLock, h \in ValidHolders(kind[c]) :
       /\ ~GameExpired(now) /\ expires[c] > now
       /\ now + Delay + ResultTimeout <= MaxClock
       /\ holder' = [holder EXCEPT ![c] = h]
       /\ expires' = [expires EXCEPT ![c] = now + Delay + ResultTimeout]
       /\ command' = [command EXCEPT ![c] =
                        [status |-> "pending", expires |-> now + Delay + ResultTimeout]]
  /\ status' = [status EXCEPT ![c] = "awaiting_device"]
  /\ UNCHANGED <<game, next, kind, result, score, clock, online, tick, box,
                 events, net>>

(* End by the host at any time, or FinishDueGame after the deadline, with  *)
(* CancelActiveReactions.                                                  *)
EndGame ==
  /\ game = "playing"
  /\ game' = "ended"
  /\ status' = [c \in Challenges |->
                  IF status[c] \in Active THEN "cancelled" ELSE status[c]]
  /\ expires' = [c \in Challenges |->
                   IF status[c] \in Active THEN clock ELSE expires[c]]
  /\ command' = Withdrawn(ActiveChallenges)
  /\ next' = IF next = NoRow THEN NoRow ELSE NoTrigger
  /\ UNCHANGED <<kind, holder, result, score, clock, online, tick, box, events, net>>

-------------------------------------------------------------------------------
(* The box asks for a command and acknowledges it.                         *)

\* The commands DeviceCommands expires.
Overdue == {c \in Challenges : command[c].expires <= clock}

\* The commands it returns; the firmware takes the first one.
Offered ==
  {c \in Challenges \ Overdue : command[c].status \in {"pending", "acknowledged"}}

(* pollCommand: the server expires overdue commands even when its response *)
(* is lost.                                                                *)
Poll ==
  /\ box.state = "idle"
  /\ command' = Withdrawn(Overdue)
  /\ \/ UNCHANGED <<box, net>>
     \/ \E c \in Offered :
          /\ events < MaxEvents
          /\ \A d \in Offered : c <= d
          /\ box' = [IdleBox EXCEPT !.state = "acking", !.challenge = c]
          /\ net' = net \cup {Ack(c)}
  /\ UNCHANGED <<game, next, status, kind, holder, expires, result, score, clock,
                 online, tick, events>>

\* AcknowledgeDeviceCommand: the response is 200 when Acknowledgeable.
Acknowledgeable(c) ==
  /\ command[c].expires > clock
  /\ \/ command[c].status = "acknowledged"
     \/ command[c].status = "pending" /\ status[c] \in {"awaiting_device", "armed"}

ServeAck(c) ==
  /\ Ack(c) \in net
  /\ net' = net \ {Ack(c)}
  /\ IF Acknowledgeable(c)
     THEN /\ command' = [command EXCEPT ![c].status = "acknowledged"]
          /\ status' = [status EXCEPT ![c] =
                          IF @ = "awaiting_device" THEN "armed" ELSE @]
     ELSE UNCHANGED <<command, status>>
  /\ \/ UNCHANGED box
     \/ /\ box.state = "acking" /\ box.challenge = c
        /\ box' = IF Acknowledgeable(c) THEN [box EXCEPT !.state = "playing"]
                  ELSE IdleBox
  /\ UNCHANGED <<game, next, kind, holder, expires, result, score, clock, online,
                 tick, events>>

\* The box gives up on an acknowledgement; the request may still be served.
AckTimesOut ==
  /\ box.state = "acking"
  /\ box' = IdleBox
  /\ UNCHANGED <<dbVars, clock, online, tick, events, net>>

-------------------------------------------------------------------------------
(* The box plays and reports.                                              *)

\* ReactionGame: a button that was given to somebody, or the time limit.
Play ==
  /\ box.state = "playing"
  /\ \E o \in Outcomes :
       /\ o.button # "" => holder[box.challenge][o.button] # NoOne
       /\ box' = [box EXCEPT !.state = "reporting", !.outcome = o]
  /\ UNCHANGED <<dbVars, clock, online, tick, events, net>>

\* submitReaction: the first attempt draws an event identifier, the others keep it.
SendReport ==
  /\ box.state = "reporting"
  /\ \/ box.event # 0 /\ UNCHANGED <<box, events>>
     \/ /\ box.event = 0 /\ events < MaxEvents
        /\ events' = events + 1
        /\ box' = [box EXCEPT !.event = events + 1]
  /\ net' = net \cup {Report(box.challenge, box'.event, box.outcome)}
  /\ net' # net
  /\ UNCHANGED <<dbVars, clock, online, tick>>

SoloReactionPoints(ms) ==
  CASE ms < 200 -> 150
    [] ms >= 200 /\ ms < 300 -> 100
    [] ms >= 300 /\ ms < 400 -> 75
    [] ms >= 400 /\ ms < 600 -> 50
    [] OTHER -> 25

Opponent(c, p) ==
  LET others == {holder[c][b] : b \in Buttons} \ {p, NoOne}
  IN IF others = {} THEN NoOne ELSE CHOOSE q \in others : TRUE

Winner(c, o) ==
  LET pressed == holder[c][o.button]
  IN CASE o.button = "" -> NoOne
       [] o.button # "" /\ o.falseStart ->
            IF kind[c] = "duel" THEN Opponent(c, pressed) ELSE NoOne
       [] OTHER -> IF o.ms < ReactionTimeout THEN pressed ELSE NoOne

PointsWon(c, o) ==
  CASE Winner(c, o) = NoOne -> 0
    [] Winner(c, o) # NoOne /\ kind[c] = "duel" -> 100
    [] OTHER -> SoloReactionPoints(o.ms)

\* The mutant without deduplication: a resolved challenge is resolved again.
AcceptAgain(m, now) ==
  IF game # "playing" \/ GameExpired(now)
       \/ status[m.challenge] \notin {"armed", "resolved"}
  THEN "conflict" ELSE "resolve"

\* The mutant that looks at nothing but the event identifier.
AcceptUnlessResolved(m, now) ==
  IF status[m.challenge] # "resolved" THEN "resolve"
  ELSE IF result[m.challenge].event = m.event THEN "already processed" ELSE "conflict"

\* The mutant whose refusals the box takes for a failure to be retried.
RetryForever(m, now) ==
  IF status[m.challenge] = "armed" /\ command[m.challenge].status = "acknowledged"
  THEN "resolve" ELSE "forbidden"

\* The mutant that takes any retry of a resolved challenge for the same event.
ReplyToAnyEvent(m, now) ==
  LET c == m.challenge
  IN CASE status[c] = "resolved" -> "already processed"
       [] status[c] # "resolved" /\
            (game # "playing" \/ GameExpired(now) \/ status[c] # "armed") -> "conflict"
       [] OTHER -> IF command[c].status = "acknowledged" THEN "resolve"
                   ELSE "forbidden"

\* What SubmitReactionResult decides, with the game and the challenge locked.
Reply(m, now) ==
  LET c == m.challenge
  IN CASE status[c] = "resolved" ->
            IF result[c].event = m.event THEN "already processed" ELSE "conflict"
       [] status[c] # "resolved" /\
            (game # "playing" \/ GameExpired(now) \/ status[c] # "armed") -> "conflict"
       [] OTHER -> IF command[c].status = "acknowledged" THEN "resolve"
                   ELSE "forbidden"

\* ResolveReaction and ReplanReaction.
Resolve(m, now) ==
  LET c == m.challenge
      w == Winner(c, m.outcome)
  IN /\ status' = [status EXCEPT ![c] = "resolved"]
     /\ expires' = [expires EXCEPT ![c] = now]
     /\ result' = [result EXCEPT ![c] =
                     [event |-> m.event, outcome |-> m.outcome, winner |-> w,
                      points |-> PointsWon(c, m.outcome)]]
     /\ score' = IF w = NoOne THEN score
                 ELSE [score EXCEPT ![w] = @ + PointsWon(c, m.outcome)]
     /\ command' = [command EXCEPT ![c].status = "completed"]
     /\ Replanned(now)

\* The statuses 2xx and 409 send the box back to idle, any other is retried.
Hears(m, reply) ==
  /\ box.state = "reporting" /\ box.event = m.event
  /\ box' = CASE reply = "forbidden" -> box
              [] reply = "conflict" -> IdleBox
              [] OTHER -> [IdleBox EXCEPT !.confirmed = TRUE]

ServeReport(m, now, heard) ==
  /\ m \in net /\ m.type = "result"
  /\ net' = net \ {m}
  /\ IF Reply(m, now) = "resolve" THEN Resolve(m, now)
     ELSE UNCHANGED <<next, status, expires, result, command, score>>
  /\ IF heard THEN Hears(m, Reply(m, now)) ELSE UNCHANGED box
  /\ UNCHANGED <<game, kind, holder, clock, online, tick, events>>

-------------------------------------------------------------------------------
(* The environment.                                                        *)

\* A request that never reaches the server.
RequestLost ==
  /\ \E m \in net : net' = net \ {m}
  /\ UNCHANGED <<dbVars, clock, online, tick, box, events>>

\* The outcome and its event identifier are in memory only.
Reboot ==
  /\ box.state # "idle"
  /\ box' = IdleBox
  /\ UNCHANGED <<dbVars, clock, online, tick, events, net>>

\* A heartbeat arrives, or none has for DEVICE_ONLINE_TIMEOUT_SECONDS.
ConnectivityChanges ==
  /\ online' = ~online
  /\ UNCHANGED <<dbVars, clock, tick, box, events, net>>

ClockTicks ==
  /\ clock < MaxClock
  /\ clock' = clock + 1
  /\ UNCHANGED <<dbVars, online, tick, box, events, net>>

Init ==
  /\ clock = 0
  /\ game = "playing"
  /\ next = NoRow
  /\ status = [c \in Challenges |-> "none"]
  /\ kind = [c \in Challenges |-> "solo"]
  /\ holder = [c \in Challenges |-> [b \in Buttons |-> NoOne]]
  /\ expires = [c \in Challenges |-> 0]
  /\ result = [c \in Challenges |-> NoResult]
  /\ command = [c \in Challenges |-> [status |-> "none", expires |-> 0]]
  /\ score = [p \in Players |-> 0]
  /\ online = TRUE
  /\ tick = IdleTick
  /\ box = IdleBox
  /\ events = 0
  /\ net = {}

Scheduler ==
  \/ TickBegins
  \/ \E c \in Challenges : TickExpires(c)
  \/ TickLooksForDue
  \/ TickSchedules

Next ==
  \/ Scheduler
  \/ TickStops
  \/ \E c \in Challenges : AssignReaction(c)
  \/ EndGame
  \/ Poll
  \/ \E c \in Challenges : ServeAck(c)
  \/ AckTimesOut
  \/ Play
  \/ SendReport
  \/ \E m \in net, now \in ReadBeforeLock, heard \in BOOLEAN : ServeReport(m, now, heard)
  \/ RequestLost
  \/ Reboot
  \/ ConnectivityChanges
  \/ ClockTicks

Spec == Init /\ [][Next]_vars

(* The scheduler ticks every second, a tick that keeps being interrupted   *)
(* gets through in the end, the box retries its report for as long as it   *)
(* is not answered and one of its attempts is answered in the end.         *)
ReportAnswered ==
  \E m \in net, now \in ReadBeforeLock : ServeReport(m, now, TRUE)

Fairness ==
  /\ WF_vars(ClockTicks)
  /\ WF_vars(Scheduler)
  /\ \A c \in Challenges : SF_vars(TickExpires(c))
  /\ WF_vars(SendReport)
  /\ SF_vars(ReportAnswered)

FairSpec == Spec /\ Fairness

-------------------------------------------------------------------------------
(* Properties.                                                             *)

(* Challenges follow one another: never two at a time, none outside a game *)
(* being played, and as long as it is played either one is active or the   *)
(* next one is planned, so that no crash, refusal or expiry silences the   *)
(* scheduler for the rest of the game.                                     *)
ChallengesFollowOneAnother ==
  /\ Cardinality(ActiveChallenges) <= 1
  /\ game = "ended" => ActiveChallenges = {}
  /\ game = "playing" /\ next # NoRow =>
       (next = NoTrigger <=> ActiveChallenges # {})

(* Each challenge is paid once: whatever is lost, retried, delivered late  *)
(* or replayed after a reboot, a score is the sum of the prizes recorded.  *)
PrizesBalance ==
  \A p \in Players :
    score[p] = FoldFunction(+, 0,
                 [c \in Challenges |->
                    IF result[c].winner = p THEN result[c].points ELSE 0])

(* A command lives and dies with its challenge: what is armed was          *)
(* acknowledged, what is resolved completed, and the box is offered no     *)
(* command whose challenge is closed.                                      *)
CommandFollowsChallenge ==
  \A c \in Challenges :
    command[c].status \in
      CASE status[c] \in {"none", "awaiting_assignment"} -> {"none"}
        [] status[c] = "awaiting_device" -> {"pending", "expired"}
        [] status[c] = "armed" -> {"acknowledged", "expired"}
        [] status[c] = "resolved" -> {"completed"}
        [] status[c] \in {"expired", "cancelled"} -> {"none", "expired"}

(* When the box tells the players that their result is confirmed, that     *)
(* very result was recorded, not one of a run before a reboot.             *)
ConfirmedMeansCounted ==
  [][box'.confirmed /\ ~box.confirmed =>
       /\ result'[box.challenge].event = box.event
       /\ result'[box.challenge].outcome = box.outcome]_vars

(* A challenge nobody assigns or plays does not last: it leaves the way to *)
(* the next one although host and box may be gone.                         *)
ChallengesClose ==
  \A c \in Challenges : status[c] \in Active ~> status[c] \notin Active

(* The box is never stuck with a result: every report is confirmed or      *)
(* discarded in the end, also when the challenge expired under it.         *)
BoxComesBack == box.state = "reporting" ~> box.state = "idle"

(* README: REACTION_RESULT_TIMEOUT_SECONDS is the margin left to the       *)
(* result after the local delay, so while the game is played an assigned   *)
(* challenge does not expire before it.                                    *)
AssignedKeepsItsMargin ==
  [][\A c \in Challenges :
       status[c] \in {"awaiting_device", "armed"} /\ status'[c] = "expired" =>
         clock >= expires[c]]_vars

(* The promise of the README, without scheduler, box or network.           *)
Promise == INSTANCE ReactionPromise WITH
  state <- [c \in Challenges |->
              CASE status[c] = "none" -> "new"
                [] status[c] \in Active -> "open"
                [] status[c] = "resolved" -> "settled"
                [] OTHER -> "dropped"],
  winner <- [c \in Challenges |-> result[c].winner],
  prize <- [c \in Challenges |-> result[c].points],
  over <- game = "ended"

(* The server, its scheduler and a box that crashes keep that promise.     *)
KeepsPromise == Promise!Spec

===============================================================================
