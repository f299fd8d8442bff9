------------------------------- MODULE LockOrder -------------------------------
(***************************************************************************)
(* The row locks of the transactions that touch one reaction challenge, in *)
(* the order in which PostgreSQL is asked for them.  Most take the lock of *)
(* the game first; an acknowledgement takes the command and the challenge  *)
(* first and needs a key share lock on the game for its event.             *)
(*                                                                         *)
(* Reaction takes each of these transactions as one step: here they        *)
(* interleave lock by lock, and what they write is seen when they commit.  *)
(* A behaviour has one challenge (bound).  The rows of the players are     *)
(* left out: only a holder of the lock of the game writes them.            *)
(***************************************************************************)
EXTENDS Naturals, Sequences, FiniteSets

CONSTANTS
  Tickers,   \* runReactionScheduler of a server process
  Hosts,     \* requests of the page: assignments and the end of the game
  Boxes      \* requests of the Box served at a time

Actors == Tickers \cup Hosts \cup Boxes
Rows == {"game", "challenge", "command", "plan"}
Active == {"awaiting_assignment", "awaiting_device", "armed"}
Open == {"pending", "acknowledged"}

ASSUME ActorsAssumption == IsFiniteSet(Actors)
ASSUME RolesAssumption ==
  Tickers \cap Hosts = {} /\ Tickers \cap Boxes = {} /\ Hosts \cap Boxes = {}

VARIABLES
  db,     \* the committed rows: status of the game, the challenge, the command;
          \* the plan is reaction_game_states, "null" with next_trigger_at NULL
  late,   \* expires_at of the challenge and of its command has passed
  tx,     \* each actor: its operation, the rows it has yet to lock, its clock
  held    \* the rows each transaction has locked

vars == <<db, late, tx, held>>

Idle == [op |-> "idle", todo |-> <<>>, late |-> FALSE]

\* The mutant that locks the challenge before it knows its game.
ChallengeThenGame == <<"challenge", "game", "command", "plan">>

\* ExpireReaction reads the game of the challenge first, without a lock.
GameThenChallenge == <<"game", "challenge", "command", "plan">>

\* The rows each operation locks, in the order of its statements.
Plan(op) ==
  CASE op = "expire"            -> GameThenChallenge
    [] op \in {"end", "submit"} -> <<"game", "challenge", "command", "plan">>
    [] op = "assign"            -> <<"game", "challenge">>
    [] op = "schedule"          -> <<"game", "plan">>
    [] op = "ensure"            -> <<"plan", "game">>
    [] op = "ack"               -> <<"command", "challenge", "game">>
    [] op = "poll"              -> <<"command">>

\* A foreign key asks for FOR KEY SHARE, which two transactions may hold.
Shares(op, row) == row = "game" /\ op \in {"ack", "ensure"}

\* What an actor reads, without a lock, before the transaction.
May(a, op) ==
  \/ /\ a \in Tickers
     /\ \/ op = "ensure" /\ db.game = "playing" /\ db.plan = "none"
        \/ op = "expire" /\ db.challenge \in Active /\ (late \/ db.game = "ended")
        \/ op = "schedule" /\ db.game = "playing" /\ db.plan = "set" /\ db.challenge = "none"
  \/ /\ a \in Hosts
     /\ op = "end" \/ (op = "assign" /\ db.challenge # "none")
  \/ /\ a \in Boxes
     /\ \/ op \in {"poll", "ack"} /\ db.command # "none"
        \/ op = "submit" /\ db.command \in {"acknowledged", "completed", "expired"}

Wants(a) == Head(tx[a].todo)
Waiting(a) == tx[a].todo # <<>>

\* Does the statement find its row?  UPDATE ... WHERE locks only what it matches,
\* and ON CONFLICT DO NOTHING locks nothing, not the game either, when a row is there.
Matches(a) ==
  LET op == tx[a].op
  IN CASE Wants(a) = "plan"      ->
              IF op = "ensure" THEN db.game = "playing" /\ db.plan = "none"
                               ELSE op \in {"expire", "submit"} \/ db.plan # "none"
       [] Wants(a) = "challenge" -> op = "end" => db.challenge \in Active
       [] Wants(a) = "command"   ->
              /\ op \in {"end", "expire", "poll"} => db.command \in Open
              /\ op = "end" => db.challenge \in Active
              /\ op = "poll" => tx[a].late
       [] OTHER                  -> op = "ensure" => "plan" \in held[a]

\* The transactions a waits for.
Blockers(a) ==
  {b \in Actors \ {a} : /\ Waiting(a) /\ Matches(a) /\ Wants(a) \in held[b]
                        /\ ~(Shares(tx[a].op, Wants(a)) /\ Shares(tx[b].op, Wants(a)))}

\* Does the operation go on, once it has read the row it locked?
Goes(a) ==
  LET op == tx[a].op
      row == Wants(a)
      playing == db.game = "playing"
  IN /\ (row = "game" /\ op \in {"assign", "end", "schedule"}) => playing
     /\ (row = "plan" /\ op = "schedule") => (db.plan = "set" /\ db.challenge = "none")
     /\ row = "challenge" =>
          CASE op = "assign" -> db.challenge = "awaiting_assignment" /\ ~tx[a].late
            [] op = "submit" -> playing /\ db.challenge = "armed" /\ db.command = "acknowledged"
            [] op = "expire" -> db.challenge \in Active
            [] op = "ack"    -> /\ ~tx[a].late /\ db.command = "pending"
                                /\ db.challenge \in {"awaiting_device", "armed"}
            [] OTHER         -> TRUE

\* The mutant that leaves the command of an expired challenge to the Box.
ExpiredForgettingTheCommand ==
  IF db.game = "playing"
  THEN [db EXCEPT !.challenge = "expired", !.plan = "set"]
  ELSE [db EXCEPT !.challenge = "cancelled", !.plan = "null"]

Closed(status) == IF status \in Open THEN "expired" ELSE status

Expired ==
  IF db.game = "playing"
  THEN [db EXCEPT !.challenge = "expired", !.command = Closed(@), !.plan = "set"]
  ELSE [db EXCEPT !.challenge = "cancelled", !.command = Closed(@), !.plan = "null"]

\* CancelActiveReactions.
Ended ==
  LET plan == IF db.plan = "none" THEN "none" ELSE "null"
  IN IF db.challenge \in Active
     THEN [game |-> "ended", challenge |-> "cancelled", command |-> Closed(db.command),
           plan |-> plan]
     ELSE [db EXCEPT !.game = "ended", !.plan = plan]

\* What an operation that went through has written.
Written(op) ==
  CASE op = "ensure"   -> [db EXCEPT !.plan = "set"]
    [] op = "schedule" -> [db EXCEPT !.challenge = "awaiting_assignment", !.plan = "null"]
    [] op = "assign"   -> [db EXCEPT !.challenge = "awaiting_device", !.command = "pending"]
    [] op = "ack"      -> [db EXCEPT !.challenge = "armed", !.command = "acknowledged"]
    [] op = "submit"   -> [db EXCEPT !.challenge = "resolved", !.command = "completed",
                                     !.plan = "set"]
    [] op = "poll"     -> [db EXCEPT !.command = Closed(@)]
    [] op = "expire"   -> Expired
    [] op = "end"      -> Ended

Begin(a, op) ==
  /\ tx[a] = Idle /\ May(a, op)
  /\ tx' = [tx EXCEPT ![a] = [op |-> op, todo |-> Plan(op), late |-> late]]
  /\ UNCHANGED <<db, late, held>>

Proceed(a) == tx' = [tx EXCEPT ![a].todo = Tail(@)]

\* The deferred Rollback does nothing after a commit and lets go otherwise.
Release(a) ==
  /\ tx' = [tx EXCEPT ![a] = Idle]
  /\ held' = [held EXCEPT ![a] = {}]

Lock(a) ==
  /\ Waiting(a) /\ Matches(a) /\ Blockers(a) = {} /\ Goes(a)
  /\ held' = [held EXCEPT ![a] = @ \cup {Wants(a)}]
  /\ Proceed(a)
  /\ UNCHANGED <<db, late>>

Pass(a) ==
  /\ Waiting(a) /\ ~Matches(a)
  /\ Proceed(a)
  /\ UNCHANGED <<db, late, held>>

\* The mutant without the deferred rollback: a refusal keeps the transaction open.
RefuseInside(a) ==
  /\ Waiting(a) /\ Matches(a) /\ Blockers(a) = {} /\ ~Goes(a)
  /\ tx' = [tx EXCEPT ![a] = Idle]
  /\ UNCHANGED <<db, late, held>>

\* The operation returns, with an error or because nothing is left to do.
Refuse(a) ==
  /\ Waiting(a) /\ Matches(a) /\ Blockers(a) = {} /\ ~Goes(a)
  /\ Release(a)
  /\ UNCHANGED <<db, late>>

\* A poll that expired nothing and a plan that was there already write nothing.
Commit(a) ==
  /\ tx[a].op # "idle" /\ ~Waiting(a)
  /\ db' = IF tx[a].op \in {"poll", "ensure"} /\ held[a] = {}
           THEN db ELSE Written(tx[a].op)
  /\ late' = (late /\ tx[a].op # "assign")
  /\ Release(a)

Blocked == {a \in Actors : Blockers(a) # {}}

\* Everyone in S waits for one of S.
Stuck(S) == S # {} /\ \A a \in S : Blockers(a) \cap S # {}

Circles == {S \in SUBSET Blocked : Stuck(S) /\ \A R \in SUBSET S : Stuck(R) => R = S}

\* deadlock_timeout: PostgreSQL aborts one of the transactions of a cycle.
Victim(a) ==
  /\ a \in UNION Circles
  /\ Release(a)
  /\ UNCHANGED <<db, late>>

TimePasses ==
  /\ ~late /\ db.challenge \in Active
  /\ late' = TRUE
  /\ UNCHANGED <<db, tx, held>>

Init ==
  /\ db = [game |-> "playing", challenge |-> "none", command |-> "none", plan |-> "none"]
  /\ late = FALSE
  /\ tx = [a \in Actors |-> Idle]
  /\ held = [a \in Actors |-> {}]

Operations == {"ensure", "expire", "schedule", "assign", "end", "poll", "ack", "submit"}

Moves(a) == Lock(a) \/ Pass(a) \/ Refuse(a) \/ Commit(a)

Next ==
  \/ \E a \in Actors : Moves(a) \/ Victim(a) \/ \E op \in Operations : Begin(a, op)
  \/ TimePasses

Spec == Init /\ [][Next]_vars

\* PostgreSQL hands a row to its waiters in turn and breaks every cycle.
Fairness ==
  \A a \in Actors : WF_vars(Victim(a)) /\ SF_vars(Moves(a))

FairSpec == Spec /\ Fairness

-------------------------------------------------------------------------------
(* Properties.                                                             *)

(* The rows and the transactions have the values the code gives them, and  *)
(* no two transactions hold a row in modes that exclude one another.       *)
TypeOK ==
  /\ db \in [game : {"playing", "ended"},
             challenge : {"none", "resolved", "expired", "cancelled"} \cup Active,
             command : {"none", "completed", "expired"} \cup Open,
             plan : {"none", "set", "null"}]
  /\ late \in BOOLEAN
  /\ tx \in [Actors -> [op : Operations \cup {"idle"}, todo : Seq(Rows), late : BOOLEAN]]
  /\ held \in [Actors -> SUBSET Rows]

(* Whatever the order in which requests of the Box, requests of the page   *)
(* and the scheduler ask for their locks, transactions wait in a circle    *)
(* only when an acknowledgement, which takes the command first, meets one  *)
(* transaction that holds the game: all other orders are compatible.       *)
OnlyAcksCrossTheOrder ==
  \A S \in Circles :
    \E a, b \in S : /\ S = {a, b} /\ tx[a].op = "ack" /\ "command" \in held[a]
                    /\ "game" \in held[b] /\ tx[b].op # "ack"

(* A challenge and its command agree after every commit, though an         *)
(* acknowledgement never holds the game while it reads them and a poll     *)
(* holds nothing: a Box is never told to arm a challenge that is over, and *)
(* a result is never accepted for a command that was given up.             *)
CommandAgrees ==
  /\ db.command = "pending" => db.challenge = "awaiting_device"
  /\ db.command = "acknowledged" => db.challenge = "armed"
  /\ db.command = "completed" <=> db.challenge = "resolved"
  /\ db.challenge \in {"awaiting_device", "armed"} => db.command \in Open \/ late
  /\ db.game = "ended" => db.challenge \notin Active

(* Every operation returns, whoever holds what it needs: a refusal lets    *)
(* its locks go and a circle is broken.                                    *)
EverybodyReturns == \A a \in Actors : tx[a].op # "idle" ~> tx[a].op = "idle"

===============================================================================
