-------------------------- MODULE CapacityRounding ---------------------------
(***************************************************************************)
(* The calls of nextPowerOfTwoSafe (include/NextPowerOfTwo.h), one after   *)
(* another: what the last one was asked and what it returned.  A call is   *)
(* evaluated by the compiler or at run time, on different paths.           *)
(***************************************************************************)
EXTENDS NextPowerOfTwo

VARIABLES asked,   \* n, or NULL before the first call
          rounded  \* what the call returned; NULL for std::nullopt

roundVars == <<asked, rounded>>

RoundInit == asked = NULL /\ rounded = NULL

RoundConstexpr(n) == asked' = n /\ rounded' = Safe(n, Smeared)

RoundAtRunTime(n) == asked' = n /\ rounded' = nextPowerOfTwoSafe(n)

RoundNext == \E n \in 0 .. wordCount - 1 : RoundConstexpr(n) \/ RoundAtRunTime(n)

RoundSpec == RoundInit /\ [][RoundNext]_roundVars

-----------------------------------------------------------------------------
(* For every word both paths of nextPowerOfTwoSafe return the least power  *)
(* of two that is not below it, and nothing if a word cannot hold that: so *)
(* the masks of the containers are right, and the rounding at most doubles *)
(* a capacity.                                                             *)
RoundsUp == asked # NULL => rounded = LeastPower(asked)
=============================================================================
