------------------------------ MODULE MCLockOrder ------------------------------
(***************************************************************************)
(* Small instance of LockOrder for TLC.                                    *)
(***************************************************************************)
EXTENDS LockOrder

CONSTANTS ticker, host, box1, box2

===============================================================================
