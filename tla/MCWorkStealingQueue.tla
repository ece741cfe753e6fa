------------------------- MODULE MCWorkStealingQueue -------------------------
(***************************************************************************)
(* Two thieves and an owner whose array starts with one cell, for TLC.     *)
(***************************************************************************)
EXTENDS WorkStealingQueue

CONSTANTS t1, t2
=============================================================================
