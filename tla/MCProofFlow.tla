------------------------------ MODULE MCProofFlow ------------------------------
(***************************************************************************)
(* Small instances of ProofFlow for TLC.                                   *)
(***************************************************************************)
EXTENDS ProofFlow

CONSTANTS u1, u2

===============================================================================
