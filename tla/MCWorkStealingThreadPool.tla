---------------------- MODULE MCWorkStealingThreadPool ----------------------
(***************************************************************************)
(* Small instances of WorkStealingThreadPool for TLC.                      *)
(***************************************************************************)
EXTENDS WorkStealingThreadPool, TLC

CONSTANTS p1, p2, d, c1, t1, t2, t3, t4

(* Producers and tasks are interchangeable; workers, whose numbers order   *)
(* stealing and scanning, are not.                                         *)
Symmetry == Permutations(Producers) \cup Permutations(Tasks)
=============================================================================
