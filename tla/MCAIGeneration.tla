---------------------------- MODULE MCAIGeneration ----------------------------
(***************************************************************************)
(* Small instances of AIGeneration for TLC.                                *)
(***************************************************************************)
EXTENDS AIGeneration

CONSTANTS g1, g2, t1, t2

===============================================================================
