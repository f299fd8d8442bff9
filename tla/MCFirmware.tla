------------------------------ MODULE MCFirmware ------------------------------
(***************************************************************************)
(* A small instance of Firmware for TLC.                                   *)
(***************************************************************************)
EXTENDS Firmware

\* A solo on the blue button and a duel.
SoloOrDuel == {{"S2"}, {"S2", "S3"}}

\* millis wraps around after a few turns.
NearTheWrap == {Word - 6}

===============================================================================
