--------------------------- MODULE NextPowerOfTwo ----------------------------
(***************************************************************************)
(* include/NextPowerOfTwo.h, on words of WordBits bits (64 in the code):   *)
(* the rounding of every capacity that a container's constructor is given. *)
(* A word is the set of the positions of its one bits where the code works *)
(* on bits.                                                                *)
(***************************************************************************)
EXTENDS Common, FiniteSetsExt

CONSTANTS WordBits,  \* std::numeric_limits<size_t>::digits
          Requests   \* the capacities asked of constructors

(* size_t{1} << k, and the number of words.                                *)
pow2[k \in Nat] == IF k = 0 THEN 1 ELSE 2 * pow2[k - 1]

wordCount == pow2[WordBits]

ASSUME WordAssumption == WordBits \in Nat \ {0} /\ Requests \subseteq 0 .. wordCount - 1

max_pow2 == pow2[WordBits - 1]

Bits(n) == {i \in 0 .. WordBits - 1 : (n \div pow2[i]) % 2 = 1}

Value(m) ==
  LET upTo[k \in Nat] ==   \* the bits below k
        IF k = 0 THEN 0 ELSE upTo[k - 1] + (IF k - 1 \in m THEN pow2[k - 1] ELSE 0)
  IN  upTo[WordBits]

(* __builtin_clzll, undefined at 0.                                        *)
clz(n) == WordBits - 1 - Max(Bits(n))

(* m |= m >> k                                                             *)
OrShifted(m, k) == m \cup {i - k : i \in {j \in m : j >= k}}

(* The constexpr path: the shifts 1, 2, 4, ... up to half a word.          *)
Smeared(n) ==
  LET shifts[k \in Nat] ==   \* after the shifts by 1 .. 2^(k-1)
        IF k = 0 THEN Bits(n - 1) ELSE OrShifted(shifts[k - 1], pow2[k - 1])
      rounds == CHOOSE r \in 0 .. WordBits : pow2[r] >= WordBits /\ \A s \in 0 .. r - 1 : pow2[s] < WordBits
  IN  Value(shifts[rounds]) + 1

(* Mutant: powers of two are rounded up as well.                           *)
ShiftedPastPowers(n) == pow2[WordBits - clz(n)]

(* The run-time path: 1 << (digits - clz(n - 1)).                          *)
Shifted(n) == pow2[WordBits - clz(n - 1)]

Safe(n, path(_)) ==
  CASE n <= 1       -> 1
    [] n > max_pow2 -> NULL
    [] OTHER        -> path(n)

nextPowerOfTwoSafe(n) == Safe(n, Shifted)

(* What nextPowerOfTwoChecked lets through; for the others it throws, and  *)
(* there is no container.                                                  *)
Constructible == {n \in Requests : nextPowerOfTwoSafe(n) # NULL}

-----------------------------------------------------------------------------
(* The least power of two that is not below n, if a word can hold it.      *)
LeastPower(n) ==
  LET powers == {p \in {pow2[k] : k \in 0 .. WordBits - 1} : p >= n}
  IN  IF powers = {} THEN NULL ELSE Min(powers)
=============================================================================
