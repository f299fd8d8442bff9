---------------------------- MODULE ReactionPromise ----------------------------
(***************************************************************************)
(* What a reaction challenge is for its players: one at a time while the   *)
(* game is played, settled at most once, its prize added to the score of   *)
(* its winner in the same step, and nothing after the end.                 *)
(***************************************************************************)
EXTENDS Naturals

CONSTANTS
  Players,     \* the members of the game
  NoOne,       \* nobody won
  Challenges   \* challenges that may be opened

VARIABLES
  state,   \* of each challenge: "new", "open", "settled" or "dropped"
  winner,  \* of each challenge, NoOne before and without one
  prize,   \* of each challenge
  score,   \* the points won by each player
  over     \* has the game ended?

vars == <<state, winner, prize, score, over>>

Init ==
  /\ state = [c \in Challenges |-> "new"]
  /\ winner = [c \in Challenges |-> NoOne]
  /\ prize = [c \in Challenges |-> 0]
  /\ score = [p \in Players |-> 0]
  /\ over = FALSE

Open(c) ==
  /\ ~over
  /\ state[c] = "new" /\ \A d \in Challenges : state[d] # "open"
  /\ state' = [state EXCEPT ![c] = "open"]
  /\ UNCHANGED <<winner, prize, score, over>>

Drop(c) ==
  /\ state[c] = "open"
  /\ state' = [state EXCEPT ![c] = "dropped"]
  /\ UNCHANGED <<winner, prize, score, over>>

\* A prize is 100 points in a duel, 25 to 150 alone.
Settle(c) ==
  /\ ~over
  /\ state[c] = "open"
  /\ state' = [state EXCEPT ![c] = "settled"]
  /\ \/ UNCHANGED <<winner, prize, score>>
     \/ \E p \in Players, n \in {25, 50, 75, 100, 150} :
          /\ winner' = [winner EXCEPT ![c] = p]
          /\ prize' = [prize EXCEPT ![c] = n]
          /\ score' = [score EXCEPT ![p] = @ + n]
  /\ UNCHANGED over

Finish ==
  /\ ~over
  /\ over' = TRUE
  /\ state' = [c \in Challenges |-> IF state[c] = "open" THEN "dropped" ELSE state[c]]
  /\ UNCHANGED <<winner, prize, score>>

Next == Finish \/ \E c \in Challenges : Open(c) \/ Drop(c) \/ Settle(c)

Spec == Init /\ [][Next]_vars

===============================================================================
