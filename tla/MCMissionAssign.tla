--------------------------- MODULE MCMissionAssign ---------------------------
(***************************************************************************)
(* Instances of MissionAssign for TLC.                                     *)
(***************************************************************************)
EXTENDS MissionAssign

\* Catalogues of one, of two, and one that the limits of the ranked query cut.
SmallCatalogues == {1..1, 1..2, 1..4}

\* The smallest catalogue AI generation accepts (5 to 50 missions).
FiveMissions == {1..5}

\* A scorer that prefers the high ids, and one that fails on the first.
SomeScorings == {[m \in 1..5 |-> m], [m \in 1..5 |-> IF m = 1 THEN NoScore ELSE 5 - m]}

\* A scorer that likes the fifth mission best.
OneScoring == {[m \in 1..5 |-> m]}
=============================================================================
