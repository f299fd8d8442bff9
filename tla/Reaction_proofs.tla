---------------------------- MODULE Reaction_proofs ----------------------------
(***************************************************************************)
(* What holds of Reaction for every number of players, challenges, events  *)
(* and instants, and that it keeps the promise of ReactionPromise.         *)
(*                                                                         *)
(* The properties are not inductive one by one: a prize is paid once since *)
(* only a resolved challenge has a result, and it is resolved once since   *)
(* commands follow challenges; what the box confirms was counted because   *)
(* an event identifier stands for one outcome in its memory, on the        *)
(* network and in the database alike.                                      *)
(***************************************************************************)
EXTENDS Reaction, Sums, FiniteSetTheorems, TLAPS

\* At most one challenge is active.
OneAtATime ==
  \A c, d \in Challenges : status[c] \in Active /\ status[d] \in Active => c = d

\* A game that is over or has no schedule has no active challenge; one that is played
\* has an active challenge or an instant for the next one.
Planned ==
  LET active == \E c \in Challenges : status[c] \in Active
  IN /\ game = "ended" \/ next = NoRow => ~active
     /\ game = "playing" /\ next # NoRow => (next = NoTrigger <=> active)

\* Only a resolved challenge has a result.
ResultsAreFinal == \A c \in Challenges : status[c] # "resolved" => result[c] = NoResult

\* An event identifier stands for one outcome of one challenge, wherever it is found:
\* in the memory of the box, in a report on its way, in the database.
EventsAreUnique ==
  /\ box.event # 0 => box.state = "reporting"
  /\ box.event <= events /\ \A c \in Challenges : result[c].event <= events
  /\ \A m \in net : m.type = "result" =>
       /\ m.event \in 1 .. events
       /\ m.event = box.event => m.challenge = box.challenge /\ m.outcome = box.outcome
       /\ \A n \in net : n.type = "result" /\ n.event = m.event =>
            n.challenge = m.challenge /\ n.outcome = m.outcome
       /\ \A c \in Challenges : result[c].event = m.event =>
            c = m.challenge /\ result[c].outcome = m.outcome
  /\ box.event # 0 =>
       \A c \in Challenges : result[c].event = box.event =>
         c = box.challenge /\ result[c].outcome = box.outcome

\* A box that works on something works on a challenge.
BoxHasChallenge == box.state # "idle" => box.challenge \in Challenges

IInv ==
  /\ TypeOK /\ BoxHasChallenge
  /\ OneAtATime /\ Planned /\ ResultsAreFinal
  /\ EventsAreUnique /\ CommandFollowsChallenge

-------------------------------------------------------------------------------
\* The bounds and the timeouts are natural numbers.
LEMMA Numbers ==
  /\ MaxChallenges \in Nat \ {0} /\ MaxEvents \in Nat \ {0} /\ MaxClock \in Nat \ {0}
  /\ AssignmentTimeout \in Nat \ {0} /\ ResultTimeout \in Nat \ {0} /\ Delay \in Nat \ {0}
  /\ Deadline \in Nat /\ LockWait \in Nat
  /\ \A i \in Intervals : i \in Nat
  /\ \A t \in Times : t \in Nat
  BY NumbersAssumption

\* Who wins, and what.
LEMMA Prizes ==
  ASSUME NEW c \in Challenges, NEW o \in Outcomes, holder[c] \in [Buttons -> Someone]
  PROVE  /\ Winner(c, o) \in Someone
         /\ Winner(c, o) = NoOne => PointsWon(c, o) = 0
         /\ Winner(c, o) # NoOne => PointsWon(c, o) \in {25, 50, 75, 100, 150}
<1>1. o.button # "" => o.button \in Buttons /\ holder[c][o.button] \in Someone
  <2>1. CASE o \in [button : Buttons, falseStart : {TRUE}, ms : {-1}]
    BY <2>1
  <2>2. CASE o \in [button : Buttons, falseStart : {FALSE}, ms : Times]
    BY <2>2
  <2>3. CASE o = TimedOut
    BY <2>3 DEF TimedOut, NoOutcome
  <2> QED
    BY <2>1, <2>2, <2>3 DEF Outcomes
<1>2. \A p : Opponent(c, p) \in Someone
  <2> SUFFICES ASSUME NEW p
               PROVE  Opponent(c, p) \in Someone
    OBVIOUS
  <2> DEFINE others == {holder[c][b] : b \in Buttons} \ {p, NoOne}
  <2>1. others \subseteq Someone
    OBVIOUS
  <2>2. others # {} => (CHOOSE q \in others : TRUE) \in others
    OBVIOUS
  <2> QED
    BY <2>1, <2>2 DEF Opponent, Someone
<1>3. Winner(c, o) \in Someone
  BY <1>1, <1>2 DEF Winner, Someone
<1>4. /\ Winner(c, o) = NoOne => PointsWon(c, o) = 0
      /\ Winner(c, o) # NoOne => PointsWon(c, o) \in {100, SoloReactionPoints(o.ms)}
  BY DEF PointsWon
<1>5. SoloReactionPoints(o.ms) \in {25, 50, 75, 100, 150}
  BY DEF SoloReactionPoints
<1> QED
  BY <1>3, <1>4, <1>5

\* The commands of the challenges in C are expired unless they were done.
LEMMA Withdrawal ==
  ASSUME TypeOK, NEW C
  PROVE  /\ Withdrawn(C) \in
              [Challenges ->
                [status : {"none", "pending", "acknowledged", "completed", "expired"},
                 expires : Nat]]
         /\ \A c \in Challenges :
              Withdrawn(C)[c].status =
                IF c \in C /\ command[c].status \in {"pending", "acknowledged"}
                THEN "expired" ELSE command[c].status
  BY DEF TypeOK, Withdrawn

\* What each reply presupposes.
LEMMA Replies ==
  ASSUME NEW m, NEW now
  PROVE  /\ Reply(m, now) = "resolve" =>
              /\ game = "playing" /\ ~GameExpired(now)
              /\ status[m.challenge] = "armed"
              /\ command[m.challenge].status = "acknowledged"
         /\ Reply(m, now) = "already processed" =>
              status[m.challenge] = "resolved" /\ result[m.challenge].event = m.event
         /\ Reply(m, now) \in {"resolve", "already processed", "conflict", "forbidden"}
  BY DEF Reply

LEMMA InitIInv ==
  ASSUME Init
  PROVE  IInv
<1>1. TypeOK
  <2>1. NoOutcome \in Outcomes /\ NoOne \in Someone /\ 0 \in 0 .. MaxEvents
        /\ 0 \in 0 .. MaxClock
    BY Numbers DEF Outcomes, TimedOut, Someone
  <2>2. NoResult \in [event : 0 .. MaxEvents, outcome : Outcomes, winner : Someone,
                      points : Nat]
    BY <2>1 DEF NoResult
  <2> QED
    BY <2>1, <2>2 DEF Init, TypeOK, IdleTick, IdleBox, NoRow
<1>2. OneAtATime /\ Planned /\ ResultsAreFinal
  BY DEF Init, OneAtATime, Planned, ResultsAreFinal, Active
<1>3. EventsAreUnique /\ BoxHasChallenge
  BY DEF Init, EventsAreUnique, BoxHasChallenge, IdleBox, NoResult
<1>4. CommandFollowsChallenge
  BY DEF Init, CommandFollowsChallenge
<1> QED
  BY <1>1, <1>2, <1>3, <1>4 DEF IInv

\* A step that leaves the database alone.
LEMMA QuietStep ==
  ASSUME IInv, UNCHANGED dbVars
  PROVE  OneAtATime' /\ Planned' /\ ResultsAreFinal' /\ CommandFollowsChallenge'
  BY DEF IInv, dbVars, OneAtATime, Planned, ResultsAreFinal, CommandFollowsChallenge, NoRow,
     NoTrigger

\* A step that touches neither a result nor an event of the box.
LEMMA SameEvents ==
  ASSUME IInv, UNCHANGED <<result, box, events, net>>
  PROVE  EventsAreUnique' /\ BoxHasChallenge'
  BY DEF IInv, EventsAreUnique, BoxHasChallenge

\* The scheduler's steps.
LEMMA TickBeginsKeeps ==
  ASSUME IInv, TickBegins
  PROVE  IInv'
<1> USE DEF IInv
<1>1. Expirable \subseteq Challenges
  BY DEF Expirable, ActiveChallenges
<1>2. \/ game = "playing" /\ next = NoRow /\ next' \in Nat
      \/ ~(game = "playing" /\ next = NoRow) /\ next' = next
  <2>1. CASE game = "playing" /\ next = NoRow
    BY <2>1, Numbers DEF TickBegins, TypeOK
  <2> QED
    BY <2>1 DEF TickBegins
<1>3. TypeOK'
  <2>1. tick' \in [phase : {"idle", "expiring", "scheduling"}, now : Nat,
                   expiring : SUBSET Challenges]
    BY <1>1 DEF TickBegins, TypeOK
  <2> QED
    BY <1>2, <2>1 DEF TickBegins, TypeOK
<1>4. OneAtATime' /\ ResultsAreFinal' /\ CommandFollowsChallenge'
  BY DEF TickBegins, OneAtATime, ResultsAreFinal, CommandFollowsChallenge
<1>5. Planned'
  BY <1>2 DEF TickBegins, Planned, NoRow, NoTrigger
<1>6. EventsAreUnique' /\ BoxHasChallenge'
  BY SameEvents DEF TickBegins
<1> QED
  BY <1>3, <1>4, <1>5, <1>6

LEMMA TickExpiresKeeps ==
  ASSUME IInv, NEW c \in Challenges, TickExpires(c)
  PROVE  IInv'
<1> USE DEF IInv
<1>1. tick.now \in Nat /\ tick' \in [phase : {"idle", "expiring", "scheduling"}, now : Nat,
                                     expiring : SUBSET Challenges]
  BY DEF TickExpires, TypeOK
<1>2. EventsAreUnique' /\ BoxHasChallenge'
  BY SameEvents DEF TickExpires
<1>3. CASE status[c] \notin Active
  <2>1. UNCHANGED dbVars
    BY <1>3 DEF TickExpires, dbVars
  <2>2. TypeOK'
    BY <1>1, <2>1 DEF TickExpires, TypeOK, dbVars
  <2> QED
    BY <1>2, <2>1, <2>2, QuietStep
<1>4. CASE status[c] \in Active
  <2>1. /\ game = "playing" /\ next # NoRow
        /\ status' = [status EXCEPT ![c] = "expired"]
        /\ command' = Withdrawn({c}) /\ expires' = [expires EXCEPT ![c] = tick.now]
        /\ next' \in Nat
        /\ UNCHANGED <<game, kind, holder, result, score, clock, online, box, events, net>>
    <3>1. game = "playing" /\ next # NoRow
      BY <1>4 DEF Planned, TypeOK
    <3> QED
      BY <1>1, <1>4, <3>1, Numbers DEF TickExpires, Replanned
  <2>2. TypeOK'
    BY <1>1, <2>1, Withdrawal DEF TypeOK
  <2>3. \A d \in Challenges : status'[d] \notin Active
    BY <1>4, <2>1 DEF OneAtATime, TypeOK, Active
  <2>4. OneAtATime' /\ Planned'
    BY <2>1, <2>3 DEF OneAtATime, Planned, NoRow, NoTrigger
  <2>5. ResultsAreFinal'
    BY <1>4, <2>1 DEF ResultsAreFinal, TypeOK, Active
  <2>6. CommandFollowsChallenge'
    BY <1>4, <2>1, Withdrawal DEF CommandFollowsChallenge, TypeOK, Active
  <2> QED
    BY <1>2, <2>2, <2>4, <2>5, <2>6
<1> QED
  BY <1>3, <1>4

LEMMA TickSchedulesKeeps ==
  ASSUME IInv, TickSchedules
  PROVE  IInv'
<1> USE DEF IInv
<1>1. tick' \in [phase : {"idle", "expiring", "scheduling"}, now : Nat,
                 expiring : SUBSET Challenges]
  BY DEF TickSchedules, IdleTick
<1>2. EventsAreUnique' /\ BoxHasChallenge'
  BY SameEvents DEF TickSchedules
<1>3. CASE ~StillDue
  <2>1. UNCHANGED dbVars
    BY <1>3 DEF TickSchedules, dbVars
  <2>2. TypeOK'
    BY <1>1, <2>1 DEF TickSchedules, TypeOK, dbVars
  <2> QED
    BY <1>2, <2>1, <2>2, QuietStep
<1>4. CASE StillDue
  <2>1. PICK c \in Challenges, k \in {"solo", "duel"} :
          /\ status[c] = "none"
          /\ status' = [status EXCEPT ![c] = "awaiting_assignment"]
          /\ kind' = [kind EXCEPT ![c] = k]
          /\ expires' = [expires EXCEPT ![c] = tick.now + AssignmentTimeout]
          /\ next' = NoTrigger
    BY <1>4 DEF TickSchedules
  <2>2. UNCHANGED <<game, holder, result, command, score, clock, online, box, events, net>>
    BY DEF TickSchedules
  <2>3. game = "playing" /\ \A d \in Challenges : status[d] \notin Active
    BY <1>4 DEF StillDue, Due, ActiveChallenges
  <2>4. tick.now + AssignmentTimeout \in Nat
    BY Numbers DEF TypeOK
  <2>5. TypeOK'
    BY <1>1, <2>1, <2>2, <2>4 DEF TypeOK, Active
  <2>6. OneAtATime' /\ Planned'
    BY <2>1, <2>2, <2>3 DEF OneAtATime, Planned, TypeOK, NoRow, NoTrigger, Active
  <2>7. ResultsAreFinal' /\ CommandFollowsChallenge'
    BY <2>1, <2>2 DEF ResultsAreFinal, CommandFollowsChallenge, TypeOK
  <2> QED
    BY <1>2, <2>5, <2>6, <2>7
<1> QED
  BY <1>3, <1>4

\* The steps of the host and the end of the game.
LEMMA AssignReactionKeeps ==
  ASSUME IInv, NEW c \in Challenges, AssignReaction(c)
  PROVE  IInv'
<1> USE DEF IInv
<1>1. PICK now \in ReadBeforeLock, h \in ValidHolders(kind[c]) :
        /\ holder' = [holder EXCEPT ![c] = h]
        /\ expires' = [expires EXCEPT ![c] = now + Delay + ResultTimeout]
        /\ command' = [command EXCEPT ![c] =
                         [status |-> "pending", expires |-> now + Delay + ResultTimeout]]
  BY DEF AssignReaction
<1>2. /\ status[c] = "awaiting_assignment"
      /\ status' = [status EXCEPT ![c] = "awaiting_device"]
      /\ UNCHANGED <<game, next, kind, result, score, clock, online, tick, box, events, net>>
  BY DEF AssignReaction
<1>3. now + Delay + ResultTimeout \in Nat
  BY Numbers DEF ReadBeforeLock, TypeOK
<1>4. h \in [Buttons -> Someone]
  BY DEF ValidHolders
<1>5. TypeOK'
  BY <1>1, <1>2, <1>3, <1>4 DEF TypeOK, Active
<1>6. OneAtATime' /\ Planned'
  BY <1>2 DEF OneAtATime, Planned, TypeOK, Active
<1>7. ResultsAreFinal'
  BY <1>2 DEF ResultsAreFinal, TypeOK
<1>8. CommandFollowsChallenge'
  BY <1>1, <1>2 DEF CommandFollowsChallenge, TypeOK
<1> QED
  BY <1>2, <1>5, <1>6, <1>7, <1>8, SameEvents

LEMMA EndGameKeeps ==
  ASSUME IInv, EndGame
  PROVE  IInv'
<1> USE DEF IInv
<1>1. /\ game' = "ended"
      /\ status' = [c \in Challenges |->
                      IF status[c] \in Active THEN "cancelled" ELSE status[c]]
      /\ expires' = [c \in Challenges |->
                       IF status[c] \in Active THEN clock ELSE expires[c]]
      /\ command' = Withdrawn(ActiveChallenges)
      /\ next' \in {NoRow, NoTrigger}
      /\ UNCHANGED <<kind, holder, result, score, clock, online, tick, box, events, net>>
  BY DEF EndGame
<1>2. TypeOK'
  BY <1>1, Withdrawal DEF TypeOK, Active
<1>3. \A d \in Challenges : status'[d] \notin Active
  BY <1>1 DEF Active
<1>4. OneAtATime' /\ Planned'
  <2>1. game' = "ended" /\ game' # "playing"
    BY <1>1
  <2>2. OneAtATime'
    BY <1>3 DEF OneAtATime, Active
  <2>3. Planned'
    BY <1>3, <2>1 DEF Planned, Active
  <2> QED
    BY <2>2, <2>3
<1>5. ResultsAreFinal'
  BY <1>1 DEF ResultsAreFinal, Active
<1>6. CommandFollowsChallenge'
  <2>1. \A d \in Challenges :
          command'[d].status =
            IF status[d] \in Active /\ command[d].status \in {"pending", "acknowledged"}
            THEN "expired" ELSE command[d].status
    BY <1>1, Withdrawal DEF ActiveChallenges
  <2>2. \A d \in Challenges :
          status'[d] = IF status[d] \in Active THEN "cancelled" ELSE status[d]
    BY <1>1
  <2> QED
    BY <2>1, <2>2 DEF CommandFollowsChallenge, Active, TypeOK
<1> QED
  BY <1>1, <1>2, <1>4, <1>5, <1>6, SameEvents

\* The steps of the box and of the requests it sends.
LEMMA PollKeeps ==
  ASSUME IInv, Poll
  PROVE  IInv'
<1> USE DEF IInv
<1>1. /\ command' = Withdrawn(Overdue)
      /\ UNCHANGED <<game, next, status, kind, holder, expires, result, score, clock,
                     online, tick, events>>
  BY DEF Poll
<1>2. \/ UNCHANGED <<box, net>>
      \/ \E c \in Challenges : box' = [IdleBox EXCEPT !.state = "acking", !.challenge = c]
                               /\ net' = net \cup {Ack(c)}
  BY DEF Poll, Offered
<1>3. TypeOK'
  <2>1. CASE UNCHANGED <<box, net>>
    BY <1>1, <2>1, Withdrawal DEF TypeOK
  <2>2. ASSUME NEW c \in Challenges,
               box' = [IdleBox EXCEPT !.state = "acking", !.challenge = c],
               net' = net \cup {Ack(c)}
        PROVE  TypeOK'
    <3>1. NoOutcome \in Outcomes /\ 0 \in 0 .. MaxEvents
      BY Numbers DEF Outcomes, TimedOut
    <3>2. box' = [state |-> "acking", challenge |-> c, outcome |-> NoOutcome, event |-> 0,
                  confirmed |-> FALSE]
      BY <2>2 DEF IdleBox
    <3>3. \A m \in net' : /\ m.type \in {"ack", "result"} /\ m.challenge \in Challenges
                          /\ m.outcome \in Outcomes /\ m.event \in 0 .. MaxEvents
      BY <2>2, <3>1 DEF TypeOK, Ack
    <3> QED
      BY <1>1, <3>1, <3>2, <3>3, Withdrawal DEF TypeOK
  <2> QED
    BY <1>2, <2>1, <2>2
<1>4. OneAtATime' /\ Planned' /\ ResultsAreFinal'
  <2>1. OneAtATime' /\ ResultsAreFinal'
    BY <1>1 DEF OneAtATime, ResultsAreFinal, Active
  <2>2. Planned'
    BY <1>1 DEF Planned, Active, NoRow, NoTrigger
  <2> QED
    BY <2>1, <2>2
<1>5. CommandFollowsChallenge'
  <2>1. \A d \in Challenges :
          command'[d].status =
            IF d \in Overdue /\ command[d].status \in {"pending", "acknowledged"}
            THEN "expired" ELSE command[d].status
    BY <1>1, Withdrawal
  <2>2. \A d \in Challenges :
          status[d] \in Active \cup {"none", "resolved", "expired", "cancelled"}
    BY DEF TypeOK
  <2>3. ASSUME NEW d \in Challenges
        PROVE  /\ status[d] \in {"none", "awaiting_assignment"} =>
                    command'[d].status = "none"
               /\ status[d] = "awaiting_device" =>
                    command'[d].status \in {"pending", "expired"}
               /\ status[d] = "armed" =>
                    command'[d].status \in {"acknowledged", "expired"}
               /\ status[d] = "resolved" => command'[d].status = "completed"
               /\ status[d] \in {"expired", "cancelled"} =>
                    command'[d].status \in {"none", "expired"}
    BY <2>1 DEF CommandFollowsChallenge
  <2> QED
    BY <1>1, <2>2, <2>3 DEF CommandFollowsChallenge, Active
<1>6. EventsAreUnique'
  <2>1. CASE UNCHANGED <<box, net>>
    BY <1>1, <2>1, SameEvents
  <2>2. ASSUME NEW c \in Challenges,
               box' = [IdleBox EXCEPT !.state = "acking", !.challenge = c],
               net' = net \cup {Ack(c)}
        PROVE  EventsAreUnique'
    <3>1. box'.event = 0 /\ \A m \in net' : m.type = "result" => m \in net
      BY <2>2 DEF IdleBox, Ack
    <3> QED
      BY <1>1, <3>1 DEF EventsAreUnique, TypeOK
  <2> QED
    BY <1>2, <2>1, <2>2
<1>7. BoxHasChallenge'
  BY <1>2 DEF BoxHasChallenge, IdleBox
<1> QED
  BY <1>3, <1>4, <1>5, <1>6, <1>7

LEMMA ServeAckKeeps ==
  ASSUME IInv, NEW c \in Challenges, ServeAck(c)
  PROVE  IInv'
<1> USE DEF IInv
<1>1. /\ net' \subseteq net
      /\ \/ UNCHANGED <<command, status>>
         \/ /\ Acknowledgeable(c)
            /\ command' = [command EXCEPT ![c].status = "acknowledged"]
            /\ status' = [status EXCEPT ![c] =
                            IF @ = "awaiting_device" THEN "armed" ELSE @]
      /\ UNCHANGED <<game, next, kind, holder, expires, result, score, clock, online, tick,
                     events>>
  BY DEF ServeAck
<1>2. \/ UNCHANGED box \/ box' = IdleBox
      \/ box.state = "acking" /\ box' = [box EXCEPT !.state = "playing"]
  BY DEF ServeAck
<1>3. /\ \A d \in Challenges : status'[d] \in Active <=> status[d] \in Active
      /\ \A d \in Challenges : status'[d] = "resolved" <=> status[d] = "resolved"
      /\ status' \in [Challenges -> Active \cup {"none", "resolved", "expired", "cancelled"}]
  BY <1>1 DEF TypeOK, Active
<1>4. TypeOK'
  <2>1. command' \in
          [Challenges ->
            [status : {"none", "pending", "acknowledged", "completed", "expired"},
             expires : Nat]]
    <3>1. command[c] \in [status : {"none", "pending", "acknowledged", "completed", "expired"},
                          expires : Nat]
      BY DEF TypeOK
    <3>2. [command[c] EXCEPT !.status = "acknowledged"] \in
            [status : {"none", "pending", "acknowledged", "completed", "expired"},
             expires : Nat]
      BY <3>1
    <3>3. command' = command \/
            command' = [command EXCEPT ![c] = [command[c] EXCEPT !.status = "acknowledged"]]
      BY <1>1
    <3> QED
      BY <3>2, <3>3 DEF TypeOK
  <2>2. box' \in [state : {"idle", "acking", "playing", "reporting"},
                  challenge : {0} \cup Challenges, outcome : Outcomes,
                  event : 0 .. MaxEvents, confirmed : BOOLEAN]
    <3>1. NoOutcome \in Outcomes /\ 0 \in 0 .. MaxEvents
      BY Numbers DEF Outcomes, TimedOut
    <3>2. IdleBox \in [state : {"idle", "acking", "playing", "reporting"},
                       challenge : {0} \cup Challenges, outcome : Outcomes,
                       event : 0 .. MaxEvents, confirmed : BOOLEAN]
      BY <3>1 DEF IdleBox
    <3> QED
      BY <1>2, <3>2 DEF TypeOK
  <2> QED
    BY <1>1, <1>3, <2>1, <2>2 DEF TypeOK
<1>5. OneAtATime' /\ Planned' /\ ResultsAreFinal'
  <2>1. OneAtATime'
    BY <1>3 DEF OneAtATime, Active
  <2>2. Planned'
    BY <1>1, <1>3 DEF Planned, Active, NoRow, NoTrigger
  <2>3. ResultsAreFinal'
    BY <1>1, <1>3 DEF ResultsAreFinal
  <2> QED
    BY <2>1, <2>2, <2>3
<1>6. CommandFollowsChallenge'
  <2>1. CASE UNCHANGED <<command, status>>
    BY <2>1 DEF CommandFollowsChallenge
  <2>2. CASE ~UNCHANGED <<command, status>>
    <3>1. /\ Acknowledgeable(c) /\ command'[c].status = "acknowledged"
          /\ status'[c] = IF status[c] = "awaiting_device" THEN "armed" ELSE status[c]
          /\ \A d \in Challenges \ {c} : command'[d] = command[d] /\ status'[d] = status[d]
      BY <1>1, <2>2 DEF TypeOK
    <3>2. status'[c] = "armed"
      BY <3>1 DEF CommandFollowsChallenge, Acknowledgeable, TypeOK, Active
    <3> QED
      BY <3>1, <3>2 DEF CommandFollowsChallenge
  <2> QED
    BY <2>1, <2>2
<1>7. EventsAreUnique'
  <2>1. box'.event = 0 \/ box' = box
    BY <1>2 DEF EventsAreUnique, IdleBox, TypeOK
  <2> QED
    BY <1>1, <2>1 DEF EventsAreUnique, TypeOK
<1>8. BoxHasChallenge'
  BY <1>2 DEF BoxHasChallenge, IdleBox, TypeOK
<1> QED
  BY <1>4, <1>5, <1>6, <1>7, <1>8

LEMMA PlayKeeps ==
  ASSUME IInv, Play
  PROVE  IInv'
<1> USE DEF IInv
<1>1. PICK o \in Outcomes : box' = [box EXCEPT !.state = "reporting", !.outcome = o]
  BY DEF Play
<1>2. UNCHANGED <<dbVars, clock, online, tick, events, net>> /\ box.state = "playing"
  BY DEF Play
<1>3. TypeOK'
  BY <1>1, <1>2 DEF TypeOK, dbVars
<1>4. EventsAreUnique'
  <2>1. box.event = 0 /\ box'.event = 0
    BY <1>1, <1>2 DEF EventsAreUnique, TypeOK
  <2> QED
    BY <1>2, <2>1 DEF EventsAreUnique, dbVars, TypeOK
<1>5. BoxHasChallenge'
  BY <1>1, <1>2 DEF BoxHasChallenge, TypeOK
<1> QED
  BY <1>2, <1>3, <1>4, <1>5, QuietStep

\* A new event identifier is in no report and in no result.
LEMMA SendReportKeeps ==
  ASSUME IInv, SendReport
  PROVE  IInv'
<1> USE DEF IInv
<1>1. /\ box.state = "reporting"
      /\ \/ box.event # 0 /\ box' = box /\ events' = events
         \/ /\ box.event = 0 /\ events < MaxEvents /\ events' = events + 1
            /\ box' = [box EXCEPT !.event = events + 1]
      /\ net' = net \cup {Report(box.challenge, box'.event, box.outcome)}
      /\ UNCHANGED <<dbVars, clock, online, tick>>
  BY DEF SendReport
<1>2. /\ events \in Nat /\ MaxEvents \in Nat /\ events <= MaxEvents
      /\ \A m \in net : m.event \in 0 .. MaxEvents
      /\ \A c \in Challenges : result[c].event \in 0 .. MaxEvents
      /\ box \in [state : {"idle", "acking", "playing", "reporting"},
                  challenge : {0} \cup Challenges, outcome : Outcomes,
                  event : 0 .. MaxEvents, confirmed : BOOLEAN]
  BY Numbers DEF TypeOK
<1>3. /\ box'.event \in 1 .. MaxEvents /\ box'.event <= events' /\ events' \in 0 .. MaxEvents
      /\ box'.challenge = box.challenge /\ box'.outcome = box.outcome
      /\ box'.state = "reporting" /\ events <= events'
      /\ box' \in [state : {"idle", "acking", "playing", "reporting"},
                   challenge : {0} \cup Challenges, outcome : Outcomes,
                   event : 0 .. MaxEvents, confirmed : BOOLEAN]
  BY <1>1, <1>2 DEF EventsAreUnique
<1>4. /\ Report(box.challenge, box'.event, box.outcome).type = "result"
      /\ Report(box.challenge, box'.event, box.outcome).challenge = box.challenge
      /\ Report(box.challenge, box'.event, box.outcome).event = box'.event
      /\ Report(box.challenge, box'.event, box.outcome).outcome = box.outcome
  BY DEF Report
<1>5. \A m \in net' : \/ m \in net
                      \/ /\ m.type = "result" /\ m.challenge = box.challenge
                         /\ m.event = box'.event /\ m.outcome = box.outcome
  BY <1>1, <1>4
<1>6. TypeOK'
  <2>1. \A m \in net' : /\ m.type \in {"ack", "result"} /\ m.challenge \in Challenges
                        /\ m.outcome \in Outcomes /\ m.event \in 0 .. MaxEvents
    BY <1>1, <1>2, <1>3, <1>5 DEF TypeOK, BoxHasChallenge
  <2> QED
    BY <1>1, <1>3, <2>1 DEF TypeOK, dbVars
<1>7. /\ \A m \in net : m.type = "result" /\ m.event = box'.event =>
           m.challenge = box.challenge /\ m.outcome = box.outcome
      /\ \A c \in Challenges : result[c].event = box'.event =>
           c = box.challenge /\ result[c].outcome = box.outcome
  BY <1>1, <1>2 DEF EventsAreUnique
<1>8. EventsAreUnique'
  <2>1. UNCHANGED result
    BY <1>1 DEF dbVars
  <2>2. \A m \in net' : m.type = "result" =>
          /\ m.event \in 1 .. events'
          /\ m.event = box'.event => m.challenge = box'.challenge /\ m.outcome = box'.outcome
          /\ \A n \in net' : n.type = "result" /\ n.event = m.event =>
               n.challenge = m.challenge /\ n.outcome = m.outcome
          /\ \A c \in Challenges : result[c].event = m.event =>
               c = m.challenge /\ result[c].outcome = m.outcome
    BY <1>2, <1>3, <1>5, <1>7 DEF EventsAreUnique
  <2> QED
    BY <1>2, <1>3, <1>7, <2>1, <2>2 DEF EventsAreUnique
<1>9. BoxHasChallenge'
  BY <1>1, <1>3 DEF BoxHasChallenge
<1> QED
  BY <1>1, <1>6, <1>8, <1>9, QuietStep

\* What a report that is served does, resolved or not, heard or not.
LEMMA ServedReport ==
  ASSUME IInv, NEW m \in net, NEW now \in ReadBeforeLock, NEW heard \in BOOLEAN,
         ServeReport(m, now, heard)
  PROVE  /\ m.type = "result" /\ m.challenge \in Challenges /\ m.outcome \in Outcomes
         /\ m.event \in 1 .. events /\ now \in Nat /\ net' \subseteq net
         /\ \/ box' = box \/ box' = IdleBox
            \/ box' = [IdleBox EXCEPT !.confirmed = TRUE]
         /\ UNCHANGED <<game, kind, holder, clock, online, tick, events>>
         /\ Reply(m, now) # "resolve" =>
              UNCHANGED <<next, status, expires, result, command, score>>
         /\ Reply(m, now) = "resolve" =>
              /\ Resolve(m, now) /\ game = "playing" /\ status[m.challenge] = "armed"
              /\ next' \in Nat
<1>1. m.type = "result" /\ m.challenge \in Challenges /\ m.outcome \in Outcomes
  BY DEF IInv, TypeOK, ServeReport
<1>2. m.event \in 1 .. events
  BY <1>1 DEF IInv, EventsAreUnique
<1>3. now \in Nat
  BY Numbers DEF IInv, TypeOK, ReadBeforeLock
<1>4. \/ box' = box \/ box' = IdleBox
      \/ box' = [IdleBox EXCEPT !.confirmed = TRUE]
  BY DEF ServeReport, Hears
<1>5. Resolve(m, now) => next' \in Nat
  BY <1>3, Numbers DEF Resolve, Replanned
<1> QED
  BY <1>1, <1>2, <1>3, <1>4, <1>5, Replies DEF ServeReport

\* What is recorded of a challenge that is resolved.
LEMMA Resolution ==
  ASSUME IInv, NEW m \in net, NEW now \in ReadBeforeLock, m.type = "result",
         Resolve(m, now)
  PROVE  LET c == m.challenge
             w == Winner(c, m.outcome)
         IN /\ w \in Someone /\ PointsWon(c, m.outcome) \in Nat
            /\ status' = [status EXCEPT ![c] = "resolved"]
            /\ command' = [command EXCEPT ![c] = [command[c] EXCEPT !.status = "completed"]]
            /\ result' = [result EXCEPT ![c] =
                            [event |-> m.event, outcome |-> m.outcome, winner |-> w,
                             points |-> PointsWon(c, m.outcome)]]
            /\ score' = IF w = NoOne THEN score
                        ELSE [score EXCEPT ![w] = @ + PointsWon(c, m.outcome)]
            /\ expires' = [expires EXCEPT ![c] = now]
<1>1. m.challenge \in Challenges /\ m.outcome \in Outcomes
      /\ holder[m.challenge] \in [Buttons -> Someone]
  BY DEF IInv, TypeOK
<1>2. /\ Winner(m.challenge, m.outcome) \in Someone
      /\ Winner(m.challenge, m.outcome) = NoOne => PointsWon(m.challenge, m.outcome) = 0
      /\ Winner(m.challenge, m.outcome) # NoOne =>
           PointsWon(m.challenge, m.outcome) \in {25, 50, 75, 100, 150}
  BY <1>1, Prizes
<1>3. PointsWon(m.challenge, m.outcome) \in Nat
  BY <1>2
<1> QED
  BY <1>2, <1>3 DEF Resolve

LEMMA ServeReportKeeps ==
  ASSUME IInv, NEW m \in net, NEW now \in ReadBeforeLock, NEW heard \in BOOLEAN,
         ServeReport(m, now, heard)
  PROVE  IInv'
<1> USE DEF IInv
<1> DEFINE c == m.challenge
           w == Winner(c, m.outcome)
           points == PointsWon(c, m.outcome)
<1> HIDE DEF c, w, points
<1>1. /\ m.type = "result" /\ c \in Challenges /\ m.outcome \in Outcomes
      /\ m.event \in 1 .. events /\ now \in Nat /\ net' \subseteq net
      /\ box' = box \/ box' = IdleBox \/ box' = [IdleBox EXCEPT !.confirmed = TRUE]
      /\ UNCHANGED <<game, kind, holder, clock, online, tick, events>>
  BY ServedReport DEF c
<1>2. box' \in [state : {"idle", "acking", "playing", "reporting"},
                challenge : {0} \cup Challenges, outcome : Outcomes,
                event : 0 .. MaxEvents, confirmed : BOOLEAN]
      /\ BoxHasChallenge' /\ (box' = box \/ box'.event = 0)
  <2>1. NoOutcome \in Outcomes /\ 0 \in 0 .. MaxEvents
    BY Numbers DEF Outcomes, TimedOut
  <2>2. /\ IdleBox.event = 0 /\ IdleBox.state = "idle"
        /\ IdleBox \in [state : {"idle", "acking", "playing", "reporting"},
                        challenge : {0} \cup Challenges, outcome : Outcomes,
                        event : 0 .. MaxEvents, confirmed : BOOLEAN]
    BY <2>1 DEF IdleBox
  <2> QED
    BY <1>1, <2>2 DEF TypeOK, BoxHasChallenge
<1>3. CASE Reply(m, now) # "resolve"
  <2>1. UNCHANGED dbVars
    BY <1>1, <1>3, ServedReport DEF dbVars
  <2>2. TypeOK'
    BY <1>1, <1>2, <2>1 DEF TypeOK, dbVars
  <2>3. EventsAreUnique'
    BY <1>1, <1>2, <2>1 DEF EventsAreUnique, dbVars, TypeOK
  <2> QED
    BY <1>2, <2>1, <2>2, <2>3, QuietStep
<1>4. CASE Reply(m, now) = "resolve"
  <2>1. /\ w \in Someone /\ points \in Nat
        /\ game = "playing" /\ status[c] = "armed" /\ next' \in Nat
        /\ status' = [status EXCEPT ![c] = "resolved"]
        /\ command' = [command EXCEPT ![c] = [command[c] EXCEPT !.status = "completed"]]
        /\ result' = [result EXCEPT ![c] = [event |-> m.event, outcome |-> m.outcome,
                                            winner |-> w, points |-> points]]
        /\ score' = IF w = NoOne THEN score ELSE [score EXCEPT ![w] = @ + points]
        /\ expires' = [expires EXCEPT ![c] = now]
    BY <1>1, <1>4, ServedReport, Resolution DEF c, w, points
  <2>2. TypeOK'
    <3>1. command[c] \in
            [status : {"none", "pending", "acknowledged", "completed", "expired"},
             expires : Nat]
      BY <1>1 DEF TypeOK
    <3>2. [command[c] EXCEPT !.status = "completed"] \in
            [status : {"none", "pending", "acknowledged", "completed", "expired"},
             expires : Nat]
      BY <3>1
    <3>3. /\ score' \in [Players -> Nat]
          /\ m.event \in 0 .. MaxEvents
      BY <1>1, <2>1, Numbers DEF TypeOK, Someone
    <3>4. result' \in [Challenges -> [event : 0 .. MaxEvents, outcome : Outcomes,
                                      winner : Someone, points : Nat]]
      BY <1>1, <2>1, <3>3 DEF TypeOK
    <3> QED
      BY <1>1, <1>2, <2>1, <3>2, <3>3, <3>4 DEF TypeOK
  <2>3. \A d \in Challenges : status'[d] \notin Active
    BY <1>1, <2>1 DEF OneAtATime, TypeOK, Active
  <2>4. OneAtATime' /\ Planned'
    <3>1. OneAtATime'
      BY <2>3 DEF OneAtATime, Active
    <3>2. Planned'
      BY <1>1, <2>1, <2>3 DEF Planned, Active, NoRow, NoTrigger
    <3> QED
      BY <3>1, <3>2
  <2>5. ResultsAreFinal'
    BY <1>1, <2>1 DEF ResultsAreFinal, TypeOK
  <2>6. CommandFollowsChallenge'
    <3>1. /\ \A d \in Challenges \ {c} : command'[d] = command[d] /\ status'[d] = status[d]
          /\ command'[c].status = "completed" /\ status'[c] = "resolved"
      BY <1>1, <2>1 DEF TypeOK
    <3> QED
      BY <1>1, <3>1 DEF CommandFollowsChallenge
  <2>7. EventsAreUnique'
    <3>1. /\ \A d \in Challenges \ {c} : result'[d] = result[d]
          /\ result'[c].event = m.event /\ result'[c].outcome = m.outcome
      BY <1>1, <2>1 DEF TypeOK
    <3>2. \A n \in net : n.type = "result" /\ n.event = m.event =>
            n.challenge = c /\ n.outcome = m.outcome
      BY <1>1 DEF EventsAreUnique, c
    <3>3. m.event = box.event => c = box.challenge /\ m.outcome = box.outcome
      <4>1. m.type = "result" /\ EventsAreUnique
        BY <1>1
      <4> QED
        BY <4>1 DEF EventsAreUnique, c
    <3>4. \A d \in Challenges : result'[d].event <= events
      <4>1. m.event <= events
        BY <1>1 DEF TypeOK
      <4>2. \A d \in Challenges : result[d].event <= events
        BY DEF EventsAreUnique
      <4> QED
        BY <3>1, <4>1, <4>2
    <3>5. \A n \in net' : n.type = "result" =>
            \A d \in Challenges : result'[d].event = n.event =>
              d = n.challenge /\ result'[d].outcome = n.outcome
      BY <1>1, <3>1, <3>2 DEF EventsAreUnique
    <3>6. box'.event # 0 =>
            \A d \in Challenges : result'[d].event = box'.event =>
              d = box'.challenge /\ result'[d].outcome = box'.outcome
      BY <1>1, <1>2, <3>1, <3>3 DEF EventsAreUnique
    <3> QED
      BY <1>1, <1>2, <3>4, <3>5, <3>6 DEF EventsAreUnique, TypeOK
  <2> QED
    BY <1>2, <2>2, <2>4, <2>5, <2>6, <2>7
<1> QED
  BY <1>3, <1>4

LEMMA NextIInv ==
  ASSUME IInv, [Next]_vars
  PROVE  IInv'
<1> USE DEF IInv
<1>1. ASSUME UNCHANGED <<dbVars, box, events, net>>, clock' \in 0 .. MaxClock,
             online' \in BOOLEAN, tick' \in [phase : {"idle", "expiring", "scheduling"},
                                             now : Nat, expiring : SUBSET Challenges]
      PROVE  IInv'
  <2>1. TypeOK'
    BY <1>1 DEF TypeOK, dbVars
  <2> QED
    BY <1>1, <2>1, QuietStep, SameEvents DEF dbVars
<1>4. CASE TickLooksForDue \/ TickStops
  <2>1. UNCHANGED <<dbVars, box, events, net>> /\ UNCHANGED <<clock, online>>
    BY <1>4 DEF TickLooksForDue, TickStops
  <2>2. tick' \in {tick, IdleTick, [tick EXCEPT !.phase = "scheduling"]}
    BY <1>4 DEF TickLooksForDue, TickStops
  <2>3. tick' \in [phase : {"idle", "expiring", "scheduling"}, now : Nat,
                   expiring : SUBSET Challenges]
    <3>1. tick \in [phase : {"idle", "expiring", "scheduling"}, now : Nat,
                    expiring : SUBSET Challenges]
      BY DEF TypeOK
    <3>2. [tick EXCEPT !.phase = "scheduling"] \in
            [phase : {"idle", "expiring", "scheduling"}, now : Nat,
             expiring : SUBSET Challenges]
      BY <3>1
    <3>3. IdleTick \in [phase : {"idle", "expiring", "scheduling"}, now : Nat,
                        expiring : SUBSET Challenges]
      BY DEF IdleTick
    <3> QED
      BY <2>2, <3>1, <3>2, <3>3
  <2> QED
    BY <1>1, <2>1, <2>3 DEF TypeOK
<1>5. CASE ConnectivityChanges
  <2>1. UNCHANGED <<dbVars, box, events, net>> /\ UNCHANGED <<clock, tick>>
    BY <1>5 DEF ConnectivityChanges
  <2>2. online' \in BOOLEAN
    BY <1>5 DEF ConnectivityChanges
  <2> QED
    BY <1>1, <2>1, <2>2 DEF TypeOK
<1>6. CASE ClockTicks
  <2>1. UNCHANGED <<dbVars, box, events, net>> /\ UNCHANGED <<online, tick>>
    BY <1>6 DEF ClockTicks
  <2>2. clock' \in 0 .. MaxClock
    BY <1>6, Numbers DEF ClockTicks, TypeOK
  <2> QED
    BY <1>1, <2>1, <2>2 DEF TypeOK
<1>2. ASSUME AckTimesOut \/ Reboot \/ RequestLost
      PROVE  IInv'
  <2>1. /\ UNCHANGED <<dbVars, clock, online, tick, events>> /\ net' \subseteq net
        /\ box' = box \/ box' = IdleBox
    BY <1>2 DEF AckTimesOut, Reboot, RequestLost
  <2>2. box' \in [state : {"idle", "acking", "playing", "reporting"},
                  challenge : {0} \cup Challenges, outcome : Outcomes,
                  event : 0 .. MaxEvents, confirmed : BOOLEAN]
        /\ BoxHasChallenge' /\ (box' = box \/ box'.event = 0)
    <3>1. NoOutcome \in Outcomes /\ 0 \in 0 .. MaxEvents
      BY Numbers DEF Outcomes, TimedOut
    <3>2. /\ IdleBox.event = 0 /\ IdleBox.state = "idle"
          /\ IdleBox \in [state : {"idle", "acking", "playing", "reporting"},
                          challenge : {0} \cup Challenges, outcome : Outcomes,
                          event : 0 .. MaxEvents, confirmed : BOOLEAN]
      BY <3>1 DEF IdleBox
    <3> QED
      BY <2>1, <3>2 DEF TypeOK, BoxHasChallenge
  <2>3. TypeOK'
    BY <2>1, <2>2 DEF TypeOK, dbVars
  <2>4. EventsAreUnique'
    BY <2>1, <2>2 DEF EventsAreUnique, dbVars, TypeOK
  <2> QED
    BY <2>1, <2>2, <2>3, <2>4, QuietStep
<1>3. CASE UNCHANGED vars
  BY <1>3, QuietStep, SameEvents DEF vars, dbVars, TypeOK
<1> QED
  BY <1>2, <1>3, <1>4, <1>5, <1>6, TickBeginsKeeps, TickExpiresKeeps, TickSchedulesKeeps,
     AssignReactionKeeps, EndGameKeeps, PollKeeps, ServeAckKeeps, PlayKeeps, SendReportKeeps,
     ServeReportKeeps DEF Next, Scheduler

LEMMA Invariance == Spec => []IInv
<1>1. Init => IInv
  BY InitIInv
<1>2. IInv /\ [Next]_vars => IInv'
  BY NextIInv
<1> QED
  BY <1>1, <1>2, PTL DEF Spec

-------------------------------------------------------------------------------
(* Every column, message and local state has the values the code gives it. *)
THEOREM TypeCorrect == Spec => []TypeOK
<1>1. IInv => TypeOK
  BY DEF IInv
<1> QED
  BY <1>1, Invariance, PTL

(* Never two challenges at a time nor one outside a game that is played,   *)
(* and a game that is played always has a challenge or an instant for the  *)
(* next one: no expiry, refusal, crash or race silences the scheduler.     *)
THEOREM OneAfterTheOther == Spec => []ChallengesFollowOneAnother
<1>1. ASSUME IInv
      PROVE  ChallengesFollowOneAnother
  <2>1. ActiveChallenges # {} <=> \E c \in Challenges : status[c] \in Active
    BY DEF ActiveChallenges
  <2>2. Cardinality(ActiveChallenges) <= 1
    <3>1. CASE ActiveChallenges = {}
      BY <3>1, FS_EmptySet
    <3>2. ASSUME NEW c \in ActiveChallenges
          PROVE  Cardinality(ActiveChallenges) <= 1
      <4>1. ActiveChallenges = {c}
        BY <1>1, <3>2 DEF IInv, OneAtATime, ActiveChallenges
      <4> QED
        BY <4>1, FS_Singleton
    <3> QED
      BY <3>1, <3>2
  <2> QED
    BY <1>1, <2>1, <2>2 DEF IInv, Planned, ChallengesFollowOneAnother
<1> QED
  BY <1>1, Invariance, PTL

(* A command lives and dies with its challenge, in every interleaving of   *)
(* polls, acknowledgements, results, ticks and the end of the game.        *)
THEOREM CommandsFollow == Spec => []CommandFollowsChallenge
<1>1. IInv => CommandFollowsChallenge
  BY DEF IInv
<1> QED
  BY <1>1, Invariance, PTL

(* A result that the box shows as confirmed was recorded, that very one:   *)
(* an event identifier stands for one outcome of one challenge in the      *)
(* memory of the box, in every report on its way and in the database.      *)
THEOREM ConfirmedIsCounted == Spec => ConfirmedMeansCounted
<1>1. ASSUME IInv, [Next]_vars, box'.confirmed, ~box.confirmed
      PROVE  /\ result'[box.challenge].event = box.event
             /\ result'[box.challenge].outcome = box.outcome
  <2>1. PICK m \in net, now \in ReadBeforeLock, heard \in BOOLEAN :
          ServeReport(m, now, heard) /\ heard
    <3>1. \E m \in net, now \in ReadBeforeLock, heard \in BOOLEAN :
            ServeReport(m, now, heard) /\ ~(box' = box)
      <4>1. ~(UNCHANGED box) /\ box' # IdleBox
        BY <1>1 DEF IdleBox
      <4>2. ~Poll /\ ~Play /\ ~SendReport /\ \A c \in Challenges : ~ServeAck(c)
        BY <1>1, <4>1 DEF Poll, Play, SendReport, ServeAck, IdleBox, IInv, TypeOK
      <4>3. ~AckTimesOut /\ ~Reboot
        BY <4>1 DEF AckTimesOut, Reboot
      <4> QED
        BY <1>1, <4>1, <4>2, <4>3 DEF Next, Scheduler, TickBegins, TickExpires,
           TickLooksForDue, TickSchedules, TickStops, AssignReaction, EndGame, RequestLost,
           ConnectivityChanges, ClockTicks, vars
    <3> QED
      BY <3>1 DEF ServeReport
  <2>2. /\ m.type = "result" /\ box.state = "reporting" /\ box.event = m.event
        /\ Reply(m, now) \in {"resolve", "already processed"}
    <3>1. m.type = "result" /\ box.state = "reporting" /\ box.event = m.event
      BY <2>1 DEF ServeReport, Hears
    <3>2. box' = CASE Reply(m, now) = "forbidden" -> box
                      [] Reply(m, now) = "conflict" -> IdleBox
                      [] OTHER -> [IdleBox EXCEPT !.confirmed = TRUE]
      BY <2>1 DEF ServeReport, Hears
    <3>3. box' # box /\ box' # IdleBox
      BY <1>1 DEF IdleBox
    <3>4. Reply(m, now) # "forbidden" /\ Reply(m, now) # "conflict"
      BY <3>2, <3>3
    <3>5. Reply(m, now) \in {"resolve", "already processed", "conflict", "forbidden"}
      BY Replies
    <3>6. Reply(m, now) \in {"resolve", "already processed"}
      BY <3>4, <3>5
    <3> QED
      BY <3>1, <3>6
  <2>3. /\ m.challenge = box.challenge /\ m.outcome = box.outcome /\ m.event # 0
        /\ m.challenge \in Challenges
    <3>1. m.challenge \in Challenges /\ m.event \in 1 .. events
      BY <1>1, <2>1, ServedReport
    <3>2. m.challenge = box.challenge /\ m.outcome = box.outcome
      BY <1>1, <2>2 DEF IInv, EventsAreUnique
    <3> QED
      BY <3>1, <3>2
  <2>4. CASE Reply(m, now) = "resolve"
    <3>1. result' = [result EXCEPT ![m.challenge] =
                       [event |-> m.event, outcome |-> m.outcome,
                        winner |-> Winner(m.challenge, m.outcome),
                        points |-> PointsWon(m.challenge, m.outcome)]]
      BY <1>1, <2>1, <2>4, ServedReport DEF Resolve
    <3> QED
      BY <1>1, <2>2, <2>3, <3>1 DEF IInv, TypeOK
  <2>5. CASE Reply(m, now) = "already processed"
    <3>1. result[m.challenge].event = m.event /\ UNCHANGED result
      BY <1>1, <2>1, <2>5, Replies, ServedReport
    <3> QED
      BY <1>1, <2>1, <2>2, <2>3, <3>1 DEF IInv, EventsAreUnique
  <2> QED
    BY <2>2, <2>4, <2>5
<1> QED
  BY <1>1, Invariance, PTL DEF Spec, ConfirmedMeansCounted

\* The prizes player p was paid, challenge by challenge.
Won(p) == [c \in Challenges |-> IF result[c].winner = p THEN result[c].points ELSE 0]

Balanced == \A p \in Players : score[p] = Sum(Won(p))

LEMMA BalancedMeansIt == PrizesBalance <=> Balanced
  BY DEF PrizesBalance, Balanced, Sum, Won

LEMMA FiniteChallenges == IsFiniteSet(Challenges)
  BY Numbers, FS_Interval DEF Challenges

LEMMA WonType ==
  ASSUME TypeOK, NEW p \in Players
  PROVE  Won(p) \in [Challenges -> Nat]
  BY DEF TypeOK, Won

LEMMA InitBalanced ==
  ASSUME Init
  PROVE  Balanced
<1>1. \A p \in Players : Won(p) \in [Challenges -> {0}] /\ score[p] = 0
  BY DEF Init, Won, NoResult
<1> QED
  BY <1>1, FiniteChallenges, SumOfZeros DEF Balanced

\* A challenge is resolved once, so its prize is added where nothing was.
LEMMA ResolutionBalances ==
  ASSUME IInv, Balanced, NEW m \in net, NEW now \in ReadBeforeLock, NEW heard \in BOOLEAN,
         ServeReport(m, now, heard), Reply(m, now) = "resolve", TypeOK'
  PROVE  Balanced'
<1>1. /\ Resolve(m, now) /\ status[m.challenge] = "armed"
      /\ m.challenge \in Challenges /\ m.type = "result"
  BY ServedReport
<1>2. PICK c \in Challenges, w \in Someone, n \in Nat :
        /\ c = m.challenge /\ w = Winner(c, m.outcome) /\ n = PointsWon(c, m.outcome)
        /\ w = NoOne => n = 0
  <2>1. m.outcome \in Outcomes /\ holder[m.challenge] \in [Buttons -> Someone]
    BY <1>1, ServedReport DEF IInv, TypeOK
  <2>2. /\ Winner(m.challenge, m.outcome) \in Someone
        /\ Winner(m.challenge, m.outcome) = NoOne => PointsWon(m.challenge, m.outcome) = 0
        /\ Winner(m.challenge, m.outcome) # NoOne =>
             PointsWon(m.challenge, m.outcome) \in {25, 50, 75, 100, 150}
    BY <1>1, <2>1, Prizes
  <2>3. PointsWon(m.challenge, m.outcome) \in Nat
    BY <2>2
  <2> QED
    BY <1>1, <2>2, <2>3
<1>3. /\ result' = [result EXCEPT ![c] =
                      [event |-> m.event, outcome |-> m.outcome, winner |-> w, points |-> n]]
      /\ score' = IF w = NoOne THEN score ELSE [score EXCEPT ![w] = @ + n]
  BY <1>1, <1>2 DEF Resolve
<1>4. result[c] = NoResult
  BY <1>1, <1>2 DEF IInv, ResultsAreFinal
<1>5. ASSUME NEW p \in Players
      PROVE  score'[p] = Sum(Won(p)')
  <2>1. p # NoOne
    BY PlayersAssumption
  <2>2. Won(p) \in [Challenges -> Nat] /\ Won(p)' \in [Challenges -> Nat]
    BY WonType DEF IInv, TypeOK, Won
  <2>3. Won(p)[c] = 0
    BY <1>4, <2>1 DEF Won, NoResult
  <2>4. (Won(p)')[c] = IF w = p THEN n ELSE 0
    BY <1>3 DEF Won, IInv, TypeOK
  <2>5. \A x \in Challenges \ {c} : (Won(p)')[x] = Won(p)[x]
    BY <1>3 DEF Won, IInv, TypeOK
  <2>6. Sum(Won(p)') = Sum(Won(p)) + (Won(p)')[c] - Won(p)[c]
    BY <2>2, <2>5, FiniteChallenges, SumOfOneChange
  <2>7. Sum(Won(p)) = score[p] /\ score[p] \in Nat
    BY DEF Balanced, IInv, TypeOK
  <2>8. score'[p] = score[p] + (IF w = p THEN n ELSE 0)
    BY <1>2, <1>3, <2>1, <2>7 DEF IInv, TypeOK
  <2> QED
    BY <1>2, <2>3, <2>4, <2>6, <2>7, <2>8
<1> QED
  BY <1>5 DEF Balanced

LEMMA NextBalanced ==
  ASSUME IInv, Balanced, [Next]_vars
  PROVE  Balanced'
<1>1. CASE UNCHANGED <<result, score>>
  BY <1>1 DEF Balanced, Won
<1>2. CASE \E m \in net, now \in ReadBeforeLock, heard \in BOOLEAN :
             ServeReport(m, now, heard) /\ Reply(m, now) = "resolve"
  <2>1. TypeOK'
    BY NextIInv DEF IInv
  <2> QED
    BY <1>2, <2>1, ResolutionBalances
<1> QED
  BY <1>1, <1>2 DEF Next, Scheduler, TickBegins, TickExpires, TickLooksForDue, TickSchedules,
     TickStops, AssignReaction, EndGame, Poll, ServeAck, AckTimesOut, Play, SendReport,
     ServeReport, RequestLost, Reboot, ConnectivityChanges, ClockTicks, vars, dbVars

(* Every prize is paid once and to its winner: whatever the network loses, *)
(* repeats or delays, a score is the sum of the prizes of the challenges.  *)
THEOREM EachPrizeIsPaidOnce == Spec => []PrizesBalance
<1>1. Init => Balanced
  BY InitBalanced
<1>2. IInv /\ Balanced /\ [Next]_vars => Balanced'
  BY NextBalanced
<1>3. Balanced <=> PrizesBalance
  BY BalancedMeansIt
<1> QED
  BY <1>1, <1>2, <1>3, Invariance, PTL DEF Spec

-------------------------------------------------------------------------------
(* The refinement of ReactionPromise.                                      *)

\* The promise as it stands in the state of Reaction.
Seen(c) ==
  CASE status[c] = "none" -> "new"
    [] status[c] \in Active -> "open"
    [] status[c] = "resolved" -> "settled"
    [] OTHER -> "dropped"

SeenState == [c \in Challenges |-> Seen(c)]

\* The values of Seen, one by one.
LEMMA SeenValues ==
  ASSUME NEW c \in Challenges
  PROVE  /\ Seen(c) = "new" <=> status[c] = "none"
         /\ Seen(c) = "open" <=> status[c] \in Active
         /\ Seen(c) = "settled" <=> status[c] = "resolved"
         /\ Seen(c) \in {"new", "open", "settled", "dropped"}
  BY DEF Seen, Active

\* What was closed without a result.
LEMMA SeenDropped ==
  ASSUME NEW c \in Challenges, status[c] \in {"expired", "cancelled"}
  PROVE  Seen(c) = "dropped"
  BY DEF Seen, Active

LEMMA PromiseInit ==
  ASSUME Init
  PROVE  Promise!Init
  BY DEF Init, Promise!Init, NoResult, Active

\* A step that leaves open what is open and closes nothing is no step of the promise.
LEMMA Stutters ==
  ASSUME UNCHANGED <<result, score, game>>, \A c \in Challenges : Seen(c)' = Seen(c)
  PROVE  UNCHANGED Promise!vars
<1>1. SeenState' = SeenState
  BY DEF SeenState
<1> QED
  BY <1>1 DEF Promise!vars, SeenState, Seen

\* One challenge is opened, dropped or settled.
LEMMA OneIsSeen ==
  ASSUME NEW c \in Challenges, NEW s, Seen(c)' = s,
         \A d \in Challenges \ {c} : status'[d] = status[d]
  PROVE  SeenState' = [SeenState EXCEPT ![c] = s]
<1>1. \A d \in Challenges \ {c} : Seen(d)' = Seen(d)
  BY DEF Seen
<1> QED
  BY <1>1 DEF SeenState

LEMMA PromiseOpens ==
  ASSUME IInv, TickSchedules
  PROVE  [Promise!Next]_(Promise!vars)
<1>1. CASE ~StillDue
  BY <1>1, Stutters DEF TickSchedules, Seen
<1>2. CASE StillDue
  <2>1. PICK c \in Challenges :
          status[c] = "none" /\ status' = [status EXCEPT ![c] = "awaiting_assignment"]
    BY <1>2 DEF TickSchedules
  <2>2. game = "playing" /\ (\A d \in Challenges : status[d] \notin Active)
        /\ UNCHANGED <<result, score, game>>
    BY <1>2 DEF TickSchedules, StillDue, Due, ActiveChallenges
  <2>3. status'[c] = "awaiting_assignment" /\ \A d \in Challenges \ {c} : status'[d] = status[d]
    BY <2>1 DEF IInv, TypeOK
  <2>4. Seen(c) = "new" /\ \A d \in Challenges : Seen(d) # "open"
    BY <2>1, <2>2, SeenValues
  <2>5. Seen(c)' = "open"
    BY <2>3 DEF Seen, Active
  <2>6. SeenState' = [SeenState EXCEPT ![c] = "open"]
    BY <2>3, <2>5, OneIsSeen
  <2>7. SeenState[c] = "new" /\ \A d \in Challenges : SeenState[d] # "open"
    BY <2>4 DEF SeenState
  <2>8. Promise!Open(c)
    BY <2>2, <2>6, <2>7 DEF Promise!Open, SeenState, Seen
  <2> QED
    BY <2>8 DEF Promise!Next
<1> QED
  BY <1>1, <1>2

LEMMA PromiseDrops ==
  ASSUME IInv, NEW c \in Challenges, TickExpires(c)
  PROVE  [Promise!Next]_(Promise!vars)
<1>1. CASE status[c] \notin Active
  BY <1>1, Stutters DEF TickExpires, Seen
<1>2. CASE status[c] \in Active
  <2>1. status'[c] \in {"expired", "cancelled"}
        /\ (\A d \in Challenges \ {c} : status'[d] = status[d])
        /\ UNCHANGED <<result, score, game>>
    BY <1>2 DEF TickExpires, IInv, TypeOK
  <2>2. Seen(c) = "open"
    BY <1>2, SeenValues
  <2>3. Seen(c)' = "dropped"
    BY <2>1 DEF Seen, Active
  <2>4. SeenState' = [SeenState EXCEPT ![c] = "dropped"] /\ SeenState[c] = "open"
    BY <2>1, <2>2, <2>3, OneIsSeen DEF SeenState
  <2>5. Promise!Drop(c)
    BY <2>1, <2>4 DEF Promise!Drop, SeenState, Seen
  <2> QED
    BY <2>5 DEF Promise!Next
<1> QED
  BY <1>1, <1>2

\* The functions of the promise that hold winners and prizes.
Winners == [c \in Challenges |-> result[c].winner]
Points == [c \in Challenges |-> result[c].points]

LEMMA PromiseSettles ==
  ASSUME IInv, NEW m \in net, NEW now \in ReadBeforeLock, NEW heard \in BOOLEAN,
         ServeReport(m, now, heard)
  PROVE  [Promise!Next]_(Promise!vars)
<1>1. CASE Reply(m, now) # "resolve"
  <2>1. UNCHANGED <<status, result, score, game>>
    BY <1>1, ServedReport
  <2> QED
    BY <2>1, Stutters DEF Seen
<1>2. CASE Reply(m, now) = "resolve"
  <2>0. /\ Resolve(m, now) /\ game = "playing" /\ status[m.challenge] = "armed"
        /\ m.challenge \in Challenges /\ m.outcome \in Outcomes /\ UNCHANGED game
    BY <1>2, ServedReport
  <2>1. PICK c \in Challenges, w \in Someone, n \in Nat :
          /\ c = m.challenge /\ w = Winner(c, m.outcome) /\ n = PointsWon(c, m.outcome)
          /\ w = NoOne => n = 0
          /\ w # NoOne => n \in {25, 50, 75, 100, 150}
    <3>1. holder[m.challenge] \in [Buttons -> Someone]
      BY <2>0 DEF IInv, TypeOK
    <3>2. /\ Winner(m.challenge, m.outcome) \in Someone
          /\ Winner(m.challenge, m.outcome) = NoOne => PointsWon(m.challenge, m.outcome) = 0
          /\ Winner(m.challenge, m.outcome) # NoOne =>
               PointsWon(m.challenge, m.outcome) \in {25, 50, 75, 100, 150}
      BY <2>0, <3>1, Prizes
    <3>3. PointsWon(m.challenge, m.outcome) \in Nat
      BY <3>2
    <3> QED
      BY <2>0, <3>2, <3>3
  <2>2. /\ status' = [status EXCEPT ![c] = "resolved"]
        /\ result' = [result EXCEPT ![c] =
                        [event |-> m.event, outcome |-> m.outcome, winner |-> w, points |-> n]]
        /\ score' = IF w = NoOne THEN score ELSE [score EXCEPT ![w] = @ + n]
    BY <2>0, <2>1 DEF Resolve
  <2>3. result[c] = NoResult /\ status[c] = "armed"
    BY <2>0, <2>1 DEF IInv, ResultsAreFinal
  <2>5. SeenState' = [SeenState EXCEPT ![c] = "settled"] /\ SeenState[c] = "open"
    <3>1. status'[c] = "resolved" /\ \A d \in Challenges \ {c} : status'[d] = status[d]
      BY <2>1, <2>2 DEF IInv, TypeOK
    <3>2. Seen(c)' = "settled" /\ Seen(c) = "open"
      BY <2>3, <3>1 DEF Seen, Active
    <3> QED
      BY <3>1, <3>2, OneIsSeen DEF SeenState
  <2>6. /\ Winners' = [Winners EXCEPT ![c] = w]
        /\ Points' = [Points EXCEPT ![c] = n]
    <3>1. \A d \in Challenges : result'[d].winner = IF d = c THEN w ELSE result[d].winner
      BY <2>1, <2>2 DEF IInv, TypeOK
    <3>2. \A d \in Challenges : result'[d].points = IF d = c THEN n ELSE result[d].points
      BY <2>1, <2>2 DEF IInv, TypeOK
    <3> QED
      BY <3>1, <3>2 DEF Winners, Points
  <2>7. Winners[c] = NoOne /\ Points[c] = 0
    BY <2>1, <2>3 DEF Winners, Points, NoResult
  <2>8. \/ UNCHANGED <<Winners, Points, score>>
        \/ \E p \in Players, k \in {25, 50, 75, 100, 150} :
             /\ Winners' = [Winners EXCEPT ![c] = p]
             /\ Points' = [Points EXCEPT ![c] = k]
             /\ score' = [score EXCEPT ![p] = @ + k]
    <3>1. CASE w = NoOne
      <4>1. Winners' = Winners /\ Points' = Points
        BY <2>1, <2>6, <2>7, <3>1 DEF Winners, Points
      <4> QED
        BY <2>2, <3>1, <4>1
    <3>2. CASE w # NoOne
      <4>1. w \in Players /\ n \in {25, 50, 75, 100, 150}
        BY <2>1, <3>2 DEF Someone
      <4>2. score' = [score EXCEPT ![w] = @ + n]
        BY <2>2, <3>2
      <4> DEFINE Rewards == {25, 50, 75, 100, 150}
                 Paid(p, k) == /\ Winners' = [Winners EXCEPT ![c] = p]
                               /\ Points' = [Points EXCEPT ![c] = k]
                               /\ score' = [score EXCEPT ![p] = @ + k]
      <4>3. w \in Players /\ n \in Rewards /\ Paid(w, n)
        BY <2>6, <4>1, <4>2
      <4>4. \E p \in Players, k \in Rewards : Paid(p, k)
        <5> HIDE DEF Rewards, Paid
        <5> QED
          BY <4>3
      <4> QED
        BY <4>4
    <3> QED
      BY <3>1, <3>2
  <2>9. Promise!Settle(c)
    BY <2>0, <2>5, <2>8 DEF Promise!Settle, SeenState, Seen, Winners, Points
  <2> QED
    BY <2>1, <2>9 DEF Promise!Next
<1> QED
  BY <1>1, <1>2

LEMMA PromiseFinishes ==
  ASSUME IInv, EndGame
  PROVE  Promise!Finish
<1>1. /\ game = "playing" /\ game' = "ended" /\ UNCHANGED <<result, score>>
      /\ \A c \in Challenges :
           status'[c] = IF status[c] \in Active THEN "cancelled" ELSE status[c]
  BY DEF EndGame
<1>2. SeenState' = [c \in Challenges |->
                      IF SeenState[c] = "open" THEN "dropped" ELSE SeenState[c]]
  <2>1. ASSUME NEW c \in Challenges
        PROVE  Seen(c)' = IF Seen(c) = "open" THEN "dropped" ELSE Seen(c)
    <3>1. CASE status[c] \in Active
      BY <1>1, <3>1 DEF Seen, Active
    <3>2. CASE status[c] \notin Active
      <4>1. Seen(c) # "open"
        BY <3>2, SeenValues
      <4>2. Seen(c)' = Seen(c)
        BY <1>1, <3>2 DEF Seen
      <4> QED
        BY <4>1, <4>2
    <3> QED
      BY <3>1, <3>2
  <2> QED
    BY <2>1 DEF SeenState
<1> QED
  BY <1>1, <1>2 DEF Promise!Finish, SeenState, Seen

\* Every other step leaves the promise as it is.
LEMMA PromiseRests ==
  ASSUME IInv, [Next]_vars, ~TickSchedules, ~EndGame, \A c \in Challenges : ~TickExpires(c),
         \A m \in net, now \in ReadBeforeLock, heard \in BOOLEAN : ~ServeReport(m, now, heard)
  PROVE  UNCHANGED Promise!vars
<1>1. ASSUME UNCHANGED <<status, result, score, game>>
      PROVE  UNCHANGED Promise!vars
  BY <1>1, Stutters DEF Seen
<1>2. ASSUME NEW c \in Challenges, AssignReaction(c)
      PROVE  UNCHANGED Promise!vars
  <2>1. /\ status[c] \in Active /\ status'[c] \in Active
        /\ \A d \in Challenges \ {c} : status'[d] = status[d]
        /\ UNCHANGED <<result, score, game>>
    BY <1>2 DEF AssignReaction, Active, IInv, TypeOK
  <2>2. \A d \in Challenges : Seen(d)' = Seen(d)
    BY <2>1 DEF Seen, Active
  <2> QED
    BY <2>1, <2>2, Stutters
<1>3. ASSUME NEW c \in Challenges, ServeAck(c)
      PROVE  UNCHANGED Promise!vars
  <2>1. /\ status'[c] = status[c] \/ (status[c] \in Active /\ status'[c] \in Active)
        /\ \A d \in Challenges \ {c} : status'[d] = status[d]
        /\ UNCHANGED <<result, score, game>>
    BY <1>3 DEF ServeAck, Active, IInv, TypeOK
  <2>2. \A d \in Challenges : Seen(d)' = Seen(d)
    BY <2>1 DEF Seen, Active
  <2> QED
    BY <2>1, <2>2, Stutters
<1>4. CASE UNCHANGED <<status, result, score, game>>
  BY <1>1, <1>4
<1>5. CASE \E c \in Challenges : AssignReaction(c) \/ ServeAck(c)
  BY <1>2, <1>3, <1>5
<1> QED
  BY <1>4, <1>5 DEF Next, Scheduler, TickBegins, TickLooksForDue, TickStops, Poll, AckTimesOut,
     Play, SendReport, RequestLost, Reboot, ConnectivityChanges, ClockTicks, vars, dbVars

(* Scheduler, host, box and network, whatever is lost, late or repeated,   *)
(* keep the promise of ReactionPromise: one challenge at a time, settled   *)
(* at most once, its prize paid in the same step, nothing after the end.   *)
THEOREM PromiseIsKept == Spec => KeepsPromise
<1>1. Init => Promise!Init
  BY PromiseInit
<1>2. IInv /\ [Next]_vars => [Promise!Next]_(Promise!vars)
  <2> SUFFICES ASSUME IInv, [Next]_vars
               PROVE  [Promise!Next]_(Promise!vars)
    OBVIOUS
  <2>1. CASE TickSchedules
    BY <2>1, PromiseOpens
  <2>2. CASE \E c \in Challenges : TickExpires(c)
    BY <2>2, PromiseDrops
  <2>3. CASE \E m \in net, now \in ReadBeforeLock, heard \in BOOLEAN :
               ServeReport(m, now, heard)
    BY <2>3, PromiseSettles
  <2>4. CASE EndGame
    <3>1. Promise!Finish
      BY <2>4, PromiseFinishes
    <3> QED
      BY <3>1 DEF Promise!Next
  <2>5. CASE UNCHANGED Promise!vars
    BY <2>5
  <2> QED
    BY <2>1, <2>2, <2>3, <2>4, <2>5, PromiseRests
<1> QED
  BY <1>1, <1>2, Invariance, PTL DEF Spec, KeepsPromise, Promise!Spec

================================================================================
