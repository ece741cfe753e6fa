------------------------- MODULE MCWorkStealingDeque -------------------------
(***************************************************************************)
(* An owner and two thieves, with and without a store buffer, for TLC.     *)
(***************************************************************************)
EXTENDS WorkStealingDeque

CONSTANTS t1, t2
=============================================================================
