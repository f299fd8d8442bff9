-------------------------------- MODULE Firmware --------------------------------
(***************************************************************************)
(* The main loop of the box: two debounced buttons, the reaction game, the *)
(* report that is retried, heartbeats and polls, with network calls that   *)
(* block the loop while fingers move.                                      *)
(*                                                                         *)
(* The unit of time is one turn of the loop.  esp_timer_get_time has 64    *)
(* bits and is `time`; millis has 32, and is `time` modulo Word.           *)
(***************************************************************************)
EXTENDS Integers

CONSTANTS
  Commands,          \* the sets of buttons a command may enable
  Word,              \* 2^32, the range of millis
  Debounce,          \* BUTTON_DEBOUNCE_MS
  Delay,             \* delay_ms, from red to green
  Response,          \* kResponseTimeoutUs
  RetryBase,         \* the 1000 of reportAttempt
  RetryCap,          \* the 30000 of reportAttempt
  HeartbeatInterval, \* HEARTBEAT_INTERVAL_MS
  PollInterval,      \* COMMAND_POLL_INTERVAL_MS
  CallTimeout,       \* how long a network call may block the loop
  Starts,            \* when the exploration begins, in the life of the box
  Span,              \* how long it lasts (bound)
  MaxMoves           \* how often a button or the transport changes (bound)

Buttons == {"S2", "S3"}
Half == Word \div 2

ASSUME CommandsAssumption == Commands \subseteq SUBSET Buttons \ {{}}
ASSUME TimesAssumption ==
  /\ {Debounce, Delay, Response, RetryBase, RetryCap, HeartbeatInterval,
      PollInterval, Half} \subseteq Nat \ {0}
  /\ {CallTimeout, Span, MaxMoves} \subseteq Nat /\ Starts \subseteq Nat
  /\ \A d \in {Debounce, RetryCap, HeartbeatInterval, PollInterval} : d < Half

VARIABLES
  time,           \* esp_timer_get_time
  start,          \* when the exploration began
  moves,          \* changes of the buttons and of the transport so far
  down,           \* the buttons that are physically down
  since,          \* history: when each button last went down
  button,         \* DebouncedButton: candidate, stable and candidateSinceMs_
  game,           \* ReactionGame
  command,        \* the buttons the command on its way or in the game enables
  at,             \* where the loop is
  waited,         \* how long the present call has blocked
  began,          \* when this turn of the loop began
  nextHeartbeat,  \* nextHeartbeatMs
  nextPoll,       \* nextPollMs
  ready,          \* apiTransportReady
  due,            \* history: when the next attempt to report is due, 0 for at once
  armed           \* history: when the game was armed, and the buttons whose press
                  \* the box had then missed or begun to see

\* What it holds of a game that is over is not read any more.
IdleGame == [state |-> "idle", ignore |-> {}, greenAt |-> 0, startedAt |-> 0,
             pressed |-> "", attempts |-> 0, nextReport |-> 0]

hands == <<down, since, moves>>
timers == <<nextHeartbeat, nextPoll>>
vars == <<time, start, hands, button, game, command, at, waited, began, timers,
          ready, due, armed>>

Calls == {"reporting", "beating", "polling", "acking"}

\* Every variable has the values its comment names.
TypeOK ==
  /\ {time, start, began, due, waited, moves, armed.time} \subseteq Nat
  /\ {down, armed.early, command} \subseteq SUBSET Buttons
  /\ since \in [Buttons -> Nat]
  /\ button \in [Buttons -> [candidate : BOOLEAN, stable : BOOLEAN, since : 0 .. Word - 1]]
  /\ game \in [state : {"idle", "red", "green", "report"}, ignore : SUBSET Buttons,
               greenAt : Nat, startedAt : Nat, pressed : Buttons \cup {""},
               attempts : 0 .. 5, nextReport : 0 .. Word - 1]
  /\ at \in {"top", "report", "heartbeat", "poll", "delay"} \cup Calls
  /\ {nextHeartbeat, nextPoll} \subseteq 0 .. Word - 1
  /\ ready \in BOOLEAN

-------------------------------------------------------------------------------
(* Arithmetic of millis.                                                   *)

Wrap(n) == n % Word

nowMs == Wrap(began)

\* The mutant that compares instants and not their difference.
LaterThan(now, then) == now >= then

\* static_cast<int32_t>(now - then) >= 0
Reached(now, then) == Wrap(now - then) < Half

-------------------------------------------------------------------------------
(* Time, fingers and the network.                                          *)

\* A button goes down or up, or the transport comes or goes.
TimePasses ==
  /\ time < start + Span
  /\ time' = time + 1
  /\ \/ UNCHANGED <<hands, ready>>
     \/ /\ moves < MaxMoves /\ moves' = moves + 1
        /\ \/ /\ \E b \in Buttons :
                   down' = IF b \in down THEN down \ {b} ELSE down \cup {b}
              /\ UNCHANGED ready
           \/ ready' = ~ready /\ UNCHANGED down
        /\ since' = [b \in Buttons |->
                        CASE b \notin down' -> 0
                          [] b \in down' \ down -> time + 1
                          [] OTHER -> since[b]]
  /\ UNCHANGED <<start, button, game, command, began, timers, due, armed>>

CallBlocks ==
  /\ at \in Calls /\ waited < CallTimeout
  /\ TimePasses
  /\ waited' = waited + 1
  /\ UNCHANGED at

\* delay(2)
NextTurn ==
  /\ at = "delay" /\ at' = "top"
  /\ TimePasses
  /\ UNCHANGED waited

-------------------------------------------------------------------------------
(* The buttons and the game, at the top of the loop.                       *)

\* DebouncedButton::update, the level.  candidateSinceMs_ is kept while it is read,
\* until the candidate is stable.
Debounced(b) ==
  LET d == b \in down
      was == button[b]
  IN IF d # was.candidate
     THEN [was EXCEPT !.candidate = d,
                      !.since = IF d = was.stable THEN 0 ELSE Wrap(time)]
     ELSE IF d # was.stable /\ Wrap(Wrap(time) - was.since) >= Debounce
          THEN [was EXCEPT !.stable = d, !.since = 0]
     ELSE was

\* DebouncedButton::update, what it returns.
Edges == {b \in Buttons : ~button[b].stable /\ Debounced(b).stable}

Held(buttons) == {b \in Buttons : buttons[b].stable}

\* The buttons down, or about to be found down, that are not held for the box.
Unseen == (down \cup {b \in Buttons : button[b].candidate}) \ Held(button)

\* ReactionGame::update, with the buttons just updated.
Updated ==
  LET ignored == game.ignore \cap Held(button')
      presses == (command \cap Edges) \ ignored
      quiet == [game EXCEPT !.ignore = ignored]
      lit == IF game.state = "red" /\ time >= game.greenAt
             THEN [quiet EXCEPT !.state = "green", !.startedAt = time] ELSE quiet
  IN CASE game.state \in {"red", "green"} /\ presses # {} ->
            [quiet EXCEPT !.state = "report",
                          !.pressed = IF "S2" \in presses THEN "S2" ELSE "S3"]
       [] lit.state = "green" /\ presses = {} /\ time - lit.startedAt >= Response ->
            [lit EXCEPT !.state = "report", !.pressed = ""]
       [] OTHER -> lit

Top ==
  /\ at = "top" /\ at' = "report"
  /\ began' = time
  /\ button' = [b \in Buttons |-> Debounced(b)]
  /\ game' = Updated
  /\ UNCHANGED <<time, start, hands, command, waited, timers, ready, due, armed>>

-------------------------------------------------------------------------------
(* The calls of the loop.                                                  *)

\* It blocks in a call when `wanted`, or goes on to the next one.
CallsIf(wanted, call, next) ==
  /\ at' = IF wanted THEN call ELSE next
  /\ waited' = 0
  /\ UNCHANGED <<time, start, hands, button, game, command, began, timers, ready,
                 due, armed>>

shouldReport ==
  game.state = "report" /\ (game.nextReport = 0 \/ Reached(nowMs, game.nextReport))

Report == at = "report" /\ CallsIf(ready /\ shouldReport, "reporting", "heartbeat")

\* reportAttempt: 2xx and 409 are a success, anything else is tried again.
ReportReturns(success) ==
  LET attempts == IF game.attempts < 5 THEN game.attempts + 1 ELSE 5
      backoff == RetryBase * 2 ^ (attempts - 1)
      wait == IF backoff < RetryCap THEN backoff ELSE RetryCap
  IN /\ at = "reporting" /\ at' = "heartbeat"
     /\ IF success THEN game' = IdleGame /\ due' = 0
        ELSE /\ game' = [game EXCEPT !.attempts = attempts,
                                     !.nextReport = Wrap(nowMs + wait)]
             /\ due' = began + wait
     /\ UNCHANGED <<time, start, hands, button, command, waited, began, timers,
                    ready, armed>>

timing == game.state \in {"red", "green"}

\* The mutant that keeps heartbeats running during the game.
HeartbeatAlways ==
  /\ at = "heartbeat"
  /\ CallsIf(ready /\ Reached(nowMs, nextHeartbeat), "beating", "poll")

Heartbeat ==
  /\ at = "heartbeat"
  /\ CallsIf(ready /\ ~timing /\ Reached(nowMs, nextHeartbeat), "beating", "poll")

HeartbeatReturns ==
  /\ at = "beating" /\ at' = "poll"
  /\ nextHeartbeat' = Wrap(nowMs + HeartbeatInterval)
  /\ UNCHANGED <<time, start, hands, button, game, command, waited, began, nextPoll,
                 ready, due, armed>>

Poll ==
  /\ at = "poll"
  /\ CallsIf(ready /\ game.state = "idle" /\ Reached(nowMs, nextPoll), "polling", "delay")

\* pollCommand and commandHardwareAvailable.
PollReturns ==
  /\ at = "polling"
  /\ \/ /\ at' = "delay" /\ nextPoll' = Wrap(nowMs + PollInterval)
        /\ UNCHANGED command
     \/ /\ at' = "acking" /\ command' \in Commands
        /\ UNCHANGED nextPoll
  /\ waited' = 0
  /\ UNCHANGED <<time, start, hands, button, game, began, nextHeartbeat, ready, due,
                 armed>>

\* acknowledge and, when it succeeds, ReactionGame::arm.
AckReturns(success) ==
  /\ at = "acking" /\ at' = "delay"
  /\ nextPoll' = Wrap(nowMs + PollInterval)
  /\ IF success
     THEN /\ game' = [state |-> "red", ignore |-> command \cap Held(button),
                      greenAt |-> time + Delay, startedAt |-> 0, pressed |-> "",
                      attempts |-> 0, nextReport |-> 0]
          /\ due' = 0
          /\ armed' = [time |-> time, early |-> Unseen]
     ELSE UNCHANGED <<game, due, armed>>
  /\ UNCHANGED <<time, start, hands, button, command, waited, began, nextHeartbeat,
                 ready>>

-------------------------------------------------------------------------------
(* The box has been running and idle, and its timers are due.              *)
Init ==
  /\ start \in Starts /\ time = start /\ began = start
  /\ moves = 0 /\ down = {} /\ since = [b \in Buttons |-> 0]
  /\ button = [b \in Buttons |-> [candidate |-> FALSE, stable |-> FALSE, since |-> 0]]
  /\ game = IdleGame
  /\ command = {}
  /\ at = "top" /\ waited = 0
  /\ nextHeartbeat = Wrap(start) /\ nextPoll = Wrap(start)
  /\ ready = TRUE
  /\ due = 0 /\ armed = [time |-> 0, early |-> {}]

Next ==
  \/ CallBlocks \/ NextTurn
  \/ Top
  \/ Report \/ \E success \in BOOLEAN : ReportReturns(success)
  \/ Heartbeat \/ HeartbeatReturns
  \/ Poll \/ PollReturns \/ \E success \in BOOLEAN : AckReturns(success)

Spec == Init /\ [][Next]_vars

-------------------------------------------------------------------------------
(* Properties.                                                             *)

\* The enabled buttons pressed since the game was armed, and down for the time of
\* debouncing, but for one held before whose release the box has missed.
Fair == {b \in (command \cap down) \ game.ignore :
           since[b] > armed.time /\ time - since[b] >= Debounce}

(* firmware/README.md: the first stable press wins, and no network call is *)
(* made during red and green.  A press made after the game was armed       *)
(* decides it in the very turn in which it has been stable long enough;    *)
(* apart from it only a press that fell into the calls that armed the game *)
(* can decide, and a button held for the box since before them cannot.     *)
FirstPressDecides ==
  [][at = "top" /\ timing =>
       /\ Fair # {} =>
            /\ game'.state = "report"
            /\ \E b \in Fair : time - since[b] = Debounce
       /\ game'.state = "report" /\ game'.pressed # "" =>
            game'.pressed \in Fair \cup armed.early]_vars

(* A report that waits is sent in the first turn that finds the transport  *)
(* ready after its delay, and not before, also when millis has wrapped     *)
(* around in between: provided the turn comes within half the range of     *)
(* millis, and the due time is not the 0 that means none.                  *)
RetriesOnTime ==
  [][at = "report" /\ ready /\ game.state = "report"
       /\ (due = 0 \/ (began - due < Half /\ Wrap(due) # 0)) =>
         (at' = "reporting" <=> began >= due)]_vars

===============================================================================
