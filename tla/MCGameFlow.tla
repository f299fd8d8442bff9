------------------------------ MODULE MCGameFlow ------------------------------
(***************************************************************************)
(* A small instance of GameFlow for TLC.                                   *)
(***************************************************************************)
EXTENDS GameFlow

CONSTANTS ann, ben, cleo, none

\* A quarter of an hour of chaos among three who trust one another.
Party ==
  [guests |-> Players, mode |-> "chaos", validation |-> "trust", vision |-> FALSE,
   minutes |-> 15]

\* Two who validate one another.
Pair == [Party EXCEPT !.guests = {ann, ben}, !.validation = "peer"]

Hunt == [Pair EXCEPT !.mode = "treasure_hunt"]

\* Chaos with and without validation by peers, a hunt without photos, and one with
\* photos and no deadline.
FourGames == {Party, Pair, Hunt, [Hunt EXCEPT !.vision = TRUE, !.minutes = 0]}

\* A quarter of an hour: thresholds of three, two and one completions.
QuarterInstants == {0, 10, 14}

===============================================================================
