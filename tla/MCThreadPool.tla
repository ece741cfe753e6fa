---------------------------- MODULE MCThreadPool ----------------------------
(***************************************************************************)
(* Small instances of ThreadPool for TLC.                                  *)
(***************************************************************************)
EXTENDS ThreadPool, TLC

CONSTANTS p1, p2, w1, w2, d, c1, t1, t2, t3

AllPolicies == {"BLOCK", "DISCARD", "THROW"}

(* Threads and tasks of a kind are interchangeable in the safety runs.     *)
Symmetry == Permutations(Producers) \cup Permutations(Workers) \cup Permutations(Tasks)
=============================================================================
