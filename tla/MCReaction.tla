------------------------------ MODULE MCReaction ------------------------------
(***************************************************************************)
(* Small instances of Reaction for TLC.                                    *)
(***************************************************************************)
EXTENDS Reaction, TLC

CONSTANTS ann, ben, none

\* Two players who may be exchanged.
EitherPlayer == Permutations({ann, ben})

\* A press just in time for each of the prizes.
EveryPrize == {199, 299, 399, 599, 4999}

\* Only a press after the time limit.
LateOnly == {5000}

OneUnit == {1}

===============================================================================
