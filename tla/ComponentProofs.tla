-------------------------- MODULE ComponentProofs ---------------------------
(***************************************************************************)
(* The components that stand alone: RingBuffer and SPSCRingBuffer are      *)
(* bounded FIFOs at every capacity, with no slot in two hands; MemoryPool  *)
(* hands out a task to one holder at a time; the submits of TaskTracing go *)
(* by a sink in force and report to it once; the two roundings to a power  *)
(* of two compute the least one at every word width; and the results of    *)
(* pipeline_demo's run_pipeline add up.                                    *)
(***************************************************************************)
EXTENDS RingBuffer, SPSCRingBuffer, MemoryPool, TaskTracing, CapacityRounding,
        PipelineDemo, IndexArithmetic, FiniteSetTheorems

(* Powers of two.  pow2 is a recursive function, so that it has the values *)
(* its definition gives it has to be shown first.                          *)
LEMMA Pow2 == /\ pow2 \in [Nat -> Nat] /\ pow2[0] = 1
              /\ \A n \in Nat : pow2[n + 1] = 2 * pow2[n]
<1> DEFINE h == [n \in Nat |-> [x \in Nat |-> 2 * x]]
<1>1. h \in [Nat -> [Nat -> Nat]]
  OBVIOUS
<1>2. PICK f : Recursion(f, Nat, 1, h)
  <2> HIDE DEF h
  <2>1. 1 \in Nat
    OBVIOUS
  <2>2. QED
    BY <1>1, <2>1, PrimitiveRecursion
<1>3. \A n \in Nat : f[n + 1] = 2 * f[n]
  BY <1>2 DEF Recursion
<1>4. f = [k \in Nat |-> IF k = 0 THEN 1 ELSE 2 * f[k - 1]]
  <2>1. ASSUME NEW k \in Nat, k # 0 PROVE f[k] = 2 * f[k - 1]
    <3>1. k - 1 \in Nat /\ (k - 1) + 1 = k
      BY <2>1
    <3>2. QED
      BY <1>3, <3>1
  <2>2. QED
    BY <1>2, <2>1 DEF Recursion
<1>5. pow2 = [k \in Nat |-> IF k = 0 THEN 1 ELSE 2 * pow2[k - 1]]
  BY <1>4 DEF pow2
<1>6. pow2[0] = 1 /\ \A n \in Nat : pow2[n + 1] = 2 * pow2[n]
  <2>1. ASSUME NEW n \in Nat PROVE pow2[n + 1] = 2 * pow2[n]
    <3>1. n + 1 \in Nat /\ n + 1 # 0 /\ (n + 1) - 1 = n
      OBVIOUS
    <3>2. QED
      BY <1>5, <3>1
  <2>2. QED
    BY <1>5, <2>1
<1> DEFINE N == {n \in Nat : pow2[n] \in Nat}
<1>7. 0 \in N /\ \A n \in Nat : n \in N => n + 1 \in N
  BY <1>6
<1>8. \A n \in Nat : n \in N
  <2> HIDE DEF N
  <2>1. QED
    BY <1>7, Induction
<1>9. QED
  BY <1>5, <1>6, <1>8

LEMMA Pow2Exceeds == \A n \in Nat : pow2[n] \in Nat /\ pow2[n] > n
<1> DEFINE N == {n \in Nat : pow2[n] > n}
<1>1. 0 \in N /\ \A n \in Nat : n \in N => n + 1 \in N
  BY Pow2
<1>2. \A n \in Nat : n \in N
  <2> HIDE DEF N
  <2>1. QED
    BY <1>1, Induction
<1>3. QED
  BY <1>2, Pow2

LEMMA Pow2Plus == ASSUME NEW j \in Nat PROVE \A i \in Nat : pow2[j + i] = pow2[j] * pow2[i]
<1> DEFINE N == {i \in Nat : pow2[j + i] = pow2[j] * pow2[i]}
<1>1. 0 \in N
  BY Pow2
<1>2. ASSUME NEW i \in Nat, i \in N PROVE i + 1 \in N
  <2>1. pow2[j + (i + 1)] = 2 * pow2[j + i] /\ pow2[i + 1] = 2 * pow2[i]
    <3>1. j + i \in Nat /\ j + (i + 1) = (j + i) + 1
      OBVIOUS
    <3>2. QED
      BY <3>1, Pow2
  <2>2. pow2[j] \in Nat /\ pow2[i] \in Nat /\ pow2[j + i] = pow2[j] * pow2[i]
    BY <1>2, Pow2
  <2>3. \A x, y \in Nat : 2 * (x * y) = x * (2 * y)
    OBVIOUS
  <2>4. QED
    BY <2>1, <2>2, <2>3
<1>3. \A i \in Nat : i \in N
  <2> HIDE DEF N
  <2>1. QED
    BY <1>1, <1>2, Induction
<1>4. QED
  BY <1>3

LEMMA Pow2Divides ==
  ASSUME NEW j \in Nat, NEW k \in Nat, j <= k
  PROVE  pow2[j] \in 1 .. pow2[k] /\ pow2[k] % pow2[j] = 0
<1>1. pow2[k] = pow2[j] * pow2[k - j]
  <2>1. k - j \in Nat /\ j + (k - j) = k
    OBVIOUS
  <2>2. QED
    BY <2>1, Pow2Plus
<1>2. pow2[j] \in Nat \ {0} /\ pow2[k - j] \in Nat \ {0}
  BY Pow2Exceeds
<1>3. \A x, y \in Nat \ {0} : x * y >= x /\ x * y \in Nat /\ (x * y) % x = 0
  <2> SUFFICES ASSUME NEW x \in Nat \ {0}, NEW y \in Nat \ {0}
               PROVE  x * y >= x /\ x * y \in Nat /\ (x * y) % x = 0
    OBVIOUS
  <2>1. y \in Int /\ 0 \in 0 .. x - 1 /\ x * y + 0 = x * y
    OBVIOUS
  <2>2. (x * y + 0) % x = 0
    BY <2>1, ModUnique
  <2>3. QED
    BY <2>1, <2>2
<1>4. QED
  BY <1>1, <1>2, <1>3

LEMMA Pow2Increases ==
  ASSUME NEW j \in Nat, NEW k \in Nat, j < k
  PROVE  pow2[j] < pow2[k] /\ pow2[j + 1] <= pow2[k]
<1>1. pow2[j + 1] <= pow2[k] /\ pow2[j + 1] = 2 * pow2[j]
  <2>1. j + 1 \in Nat /\ j + 1 <= k
    OBVIOUS
  <2>2. pow2[j + 1] \in 1 .. pow2[k]
    BY <2>1, Pow2Divides
  <2>3. QED
    BY <2>2, Pow2
<1>2. QED
  BY <1>1, Pow2Exceeds

(* The top bit of a word places it between two powers.                     *)
LEMMA QuotientIs ==
  ASSUME NEW d \in Nat \ {0}, NEW m \in Nat, NEW q \in Nat, d * q <= m, m < d * q + d
  PROVE  m \div d = q
<1> DEFINE r == m - d * q
<1>1. r \in 0 .. d - 1 /\ m = d * q + r /\ q \in Int
  OBVIOUS
<1> HIDE DEF r
<1>2. (d * q + r) % d = r
  BY <1>1, ModUnique
<1>3. m = d * (m \div d) + (m % d) /\ m \div d \in Int
  BY DivMod
<1>4. \A x, y \in Int : d * x = d * y => x = y
  OBVIOUS
<1>5. QED
  BY <1>1, <1>2, <1>3, <1>4

LEMMA TopBit ==
  ASSUME NEW W \in Nat, W = WordBits, NEW m \in 1 .. wordCount - 1
  PROVE  \E k \in 0 .. W - 1 : /\ Max(Bits(m)) = k /\ k \in Bits(m)
                               /\ \A i \in Bits(m) : i <= k
                               /\ pow2[k] <= m /\ m < pow2[k + 1]
<1> DEFINE Above == {j \in Nat : m < pow2[j]}
<1>1. W \in Above /\ 0 \notin Above /\ m \in Nat /\ m # 0
  BY Pow2, Pow2Exceeds DEF wordCount
<1>2. PICK j \in Above : \A i \in Above : j <= i
  BY <1>1, LeastNatural
<1> DEFINE k == j - 1
<1>3. k \in 0 .. W - 1 /\ j = k + 1
  BY <1>1, <1>2
<1>4. pow2[k] <= m /\ m < pow2[k + 1] /\ pow2[k] \in Nat \ {0}
  BY <1>1, <1>2, <1>3, Pow2Exceeds
<1> HIDE DEF k, Above
<1>5. k \in Bits(m)
  <2>1. pow2[k + 1] = 2 * pow2[k]
    BY <1>3, Pow2
  <2>2. pow2[k] * 1 <= m /\ m < pow2[k] * 1 + pow2[k]
    BY <1>4, <2>1
  <2>3. m \div pow2[k] = 1
    BY <1>1, <1>4, <2>2, QuotientIs
  <2>4. QED
    BY <1>3, <2>3 DEF Bits
<1>6. ASSUME NEW i \in Bits(m), i > k PROVE FALSE
  <2>1. i \in 0 .. W - 1 /\ (m \div pow2[i]) % 2 = 1
    BY DEF Bits
  <2>2. pow2[k + 1] <= pow2[i] /\ pow2[i] \in Nat \ {0}
    BY <1>3, <1>6, <2>1, Pow2Increases, Pow2Exceeds
  <2>3. pow2[i] * 0 <= m /\ m < pow2[i] * 0 + pow2[i]
    BY <1>1, <1>3, <1>4, <2>2, Pow2Exceeds
  <2>4. m \div pow2[i] = 0
    BY <1>1, <2>2, <2>3, QuotientIs
  <2>5. QED
    BY <2>1, <2>4
<1>7. \A i \in Bits(m) : i \in Int /\ i <= k
  BY <1>3, <1>6 DEF Bits
<1>8. Max(Bits(m)) = k
  <2>1. \A x \in Bits(m) : (\A y \in Bits(m) : x >= y) => x = k
    BY <1>3, <1>5, <1>7
  <2>2. \A y \in Bits(m) : k >= y
    BY <1>3, <1>7
  <2>3. QED
    BY <1>5, <2>1, <2>2 DEF Max
<1>9. QED
  BY <1>3, <1>4, <1>5, <1>7, <1>8

(* Where both paths have something to compute: n is above pow2[k] and at   *)
(* most pow2[k + 1], which a word can hold.                                *)
LEMMA LeastPowerIs ==
  ASSUME NEW k \in Nat, k + 1 <= WordBits - 1, NEW n \in Nat, pow2[k] < n, n <= pow2[k + 1]
  PROVE  LeastPower(n) = pow2[k + 1]
<1> DEFINE powers == {p \in {pow2[j] : j \in 0 .. WordBits - 1} : p >= n}
<1>1. pow2[k + 1] \in powers
  BY WordAssumption
<1>2. ASSUME NEW p \in powers PROVE p \in Nat /\ pow2[k + 1] <= p
  <2>1. PICK j \in 0 .. WordBits - 1 : p = pow2[j]
    OBVIOUS
  <2>2. j \in Nat /\ pow2[j] > pow2[k] /\ pow2[j] \in Nat /\ pow2[k] \in Nat
    BY <2>1, WordAssumption, Pow2Exceeds
  <2>3. j > k
    <3>1. CASE j < k
      BY <2>2, <3>1, Pow2Increases
    <3>2. QED
      BY <2>2, <3>1
  <2>4. QED
    BY <2>1, <2>2, <2>3, Pow2Increases
<1>3. Min(powers) = pow2[k + 1]
  <2> HIDE DEF powers
  <2>1. pow2[k + 1] \in Nat
    BY Pow2Exceeds
  <2>2. QED
    BY <1>1, <1>2, <2>1 DEF Min
<1>4. QED
  BY <1>1, <1>3 DEF LeastPower

LEMMA Middle ==
  ASSUME NEW n \in 0 .. wordCount - 1, n > 1, n <= max_pow2
  PROVE  \E k \in Nat : /\ k + 1 <= WordBits - 1 /\ Max(Bits(n - 1)) = k
                        /\ k \in Bits(n - 1) /\ \A i \in Bits(n - 1) : i <= k
                        /\ LeastPower(n) = pow2[k + 1]
<1>1. WordBits \in Nat \ {0} /\ WordBits - 1 \in Nat
  BY WordAssumption
<1>2. n \in Nat /\ n - 1 \in 1 .. wordCount - 1 /\ max_pow2 \in Nat
  BY <1>1, Pow2Exceeds DEF wordCount, max_pow2
<1>3. PICK k \in 0 .. WordBits - 1 :
             /\ Max(Bits(n - 1)) = k /\ k \in Bits(n - 1)
             /\ \A i \in Bits(n - 1) : i <= k
             /\ pow2[k] <= n - 1 /\ n - 1 < pow2[k + 1]
  BY <1>1, <1>2, TopBit
<1>4. k \in Nat /\ pow2[k] < n /\ n <= pow2[k + 1] /\ k + 1 \in Nat
  BY <1>2, <1>3, Pow2Exceeds
<1>5. k # WordBits - 1
  BY <1>2, <1>4 DEF max_pow2
<1>6. k + 1 <= WordBits - 1
  BY <1>1, <1>3, <1>5
<1>7. QED
  BY <1>2, <1>3, <1>4, <1>6, LeastPowerIs

(* The run-time path.                                                      *)
LEMMA ShiftedIs ==
  ASSUME NEW n \in 0 .. wordCount - 1, n > 1, n <= max_pow2
  PROVE  Shifted(n) = LeastPower(n)
<1>1. PICK k \in Nat : Max(Bits(n - 1)) = k /\ LeastPower(n) = pow2[k + 1]
  BY Middle
<1>2. WordBits - (WordBits - 1 - k) = k + 1
  BY WordAssumption
<1>3. QED
  BY <1>1, <1>2 DEF Shifted, clz

(* The constexpr path.  After the shifts by 1 .. 2^(k-1) a bit is set if   *)
(* one of the 2^k bits from it upwards was set at first.                   *)
WordSets == SUBSET (0 .. WordBits - 1)

Smears(B) == CHOOSE f : f = [k \in Nat |-> IF k = 0 THEN B ELSE OrShifted(f[k - 1], pow2[k - 1])]

LEMMA SmearsIs ==
  ASSUME NEW B \in WordSets
  PROVE  /\ Smears(B) \in [Nat -> WordSets] /\ Smears(B)[0] = B
         /\ \A n \in Nat : Smears(B)[n + 1] = OrShifted(Smears(B)[n], pow2[n])
<1> DEFINE h == [n \in Nat |-> [x \in WordSets |-> OrShifted(x, pow2[n])]]
<1>1. \A n \in Nat : \A x \in WordSets : OrShifted(x, pow2[n]) \in WordSets
  <2>1. ASSUME NEW d \in Nat, NEW x \in WordSets, NEW i \in OrShifted(x, d)
        PROVE  i \in 0 .. WordBits - 1
    <3>1. CASE i \in x
      BY <3>1 DEF WordSets
    <3>2. CASE i \notin x
      <4>1. PICK j \in x : j >= d /\ i = j - d
        BY <3>2 DEF OrShifted
      <4>2. j \in 0 .. WordBits - 1 /\ WordBits \in Nat
        BY WordAssumption DEF WordSets
      <4>3. QED
        BY <4>1, <4>2
    <3>3. QED
      BY <3>1, <3>2
  <2>2. QED
    BY <2>1, Pow2 DEF WordSets
<1>2. h \in [Nat -> [WordSets -> WordSets]]
  <2>1. \A n \in Nat : [x \in WordSets |-> OrShifted(x, pow2[n])] \in [WordSets -> WordSets]
    BY <1>1
  <2>2. QED
    BY <2>1
<1>3. PICK f : Recursion(f, WordSets, B, h)
  <2> HIDE DEF h
  <2>1. QED
    BY <1>2, PrimitiveRecursion
<1>4. \A n \in Nat : f[n + 1] = OrShifted(f[n], pow2[n])
  <2> HIDE DEF WordSets
  <2>1. QED
    BY <1>3 DEF Recursion
<1>5. f = [k \in Nat |-> IF k = 0 THEN B ELSE OrShifted(f[k - 1], pow2[k - 1])]
  <2>1. ASSUME NEW k \in Nat, k # 0 PROVE f[k] = OrShifted(f[k - 1], pow2[k - 1])
    <3>1. k - 1 \in Nat /\ (k - 1) + 1 = k
      BY <2>1
    <3>2. f[(k - 1) + 1] = OrShifted(f[k - 1], pow2[k - 1])
      BY <1>4, <3>1
    <3>3. QED
      BY <3>1, <3>2
  <2>2. QED
    BY <1>3, <2>1 DEF Recursion
<1> DEFINE g == Smears(B)
<1>6. g = [k \in Nat |-> IF k = 0 THEN B ELSE OrShifted(g[k - 1], pow2[k - 1])]
  BY <1>5 DEF Smears
<1> HIDE DEF g
<1>7. g[0] = B /\ \A n \in Nat : g[n + 1] = OrShifted(g[n], pow2[n])
  <2>1. ASSUME NEW n \in Nat PROVE g[n + 1] = OrShifted(g[n], pow2[n])
    <3>1. n + 1 \in Nat /\ n + 1 # 0 /\ (n + 1) - 1 = n
      OBVIOUS
    <3>2. g[n + 1] = OrShifted(g[(n + 1) - 1], pow2[(n + 1) - 1])
      BY <1>6, <3>1
    <3>3. QED
      BY <3>1, <3>2
  <2>2. QED
    BY <1>6, <2>1
<1> DEFINE N == {n \in Nat : g[n] \in WordSets}
<1>8. 0 \in N /\ \A n \in Nat : n \in N => n + 1 \in N
  <2>1. 0 \in N
    BY <1>7
  <2>2. ASSUME NEW n \in Nat, n \in N PROVE n + 1 \in N
    <3>1. OrShifted(g[n], pow2[n]) \in WordSets
      BY <1>1, <2>2
    <3>2. QED
      BY <1>7, <3>1
  <2>3. QED
    BY <2>1, <2>2
<1>9. \A n \in Nat : n \in N
  <2> HIDE DEF N
  <2>1. QED
    BY <1>8, Induction
<1>10. g \in [Nat -> WordSets]
  BY <1>6, <1>9
<1>11. QED
  BY <1>7, <1>10 DEF g

Within(B, d) == {i \in 0 .. WordBits - 1 : \E b \in B : i <= b /\ b < i + d}

LEMMA SmearsWithin ==
  ASSUME NEW B \in WordSets
  PROVE  \A n \in Nat : Smears(B)[n] = Within(B, pow2[n])
<1> DEFINE N == {n \in Nat : Smears(B)[n] = Within(B, pow2[n])}
<1>1. 0 \in N
  <2>1. \A i \in B : i \in 0 .. WordBits - 1 /\ WordBits \in Nat
    BY WordAssumption DEF WordSets
  <2>2. Within(B, 1) = B
    BY <2>1 DEF Within
  <2>3. QED
    BY <2>2, SmearsIs, Pow2
<1>2. ASSUME NEW n \in Nat, n \in N PROVE n + 1 \in N
  <2> DEFINE d == pow2[n]
  <2>1. d \in Nat /\ pow2[n + 1] = 2 * d
    BY Pow2
  <2>2. Smears(B)[n + 1] = OrShifted(Within(B, d), d)
    BY <1>2, SmearsIs
  <2> HIDE DEF d
  <2>3. OrShifted(Within(B, d), d) = Within(B, 2 * d)
    <3>1. ASSUME NEW i \in OrShifted(Within(B, d), d) PROVE i \in Within(B, 2 * d)
      <4>1. PICK j \in Within(B, d) : i = j \/ (j >= d /\ i = j - d)
        BY DEF OrShifted
      <4>2. PICK b \in B : j <= b /\ b < j + d
        BY DEF Within
      <4>3. j \in 0 .. WordBits - 1 /\ b \in 0 .. WordBits - 1 /\ WordBits \in Nat
        BY WordAssumption DEF Within, WordSets
      <4>4. i \in 0 .. WordBits - 1 /\ i <= b /\ b < i + 2 * d
        BY <2>1, <4>1, <4>2, <4>3
      <4>5. QED
        BY <4>4 DEF Within
    <3>2. ASSUME NEW i \in Within(B, 2 * d) PROVE i \in OrShifted(Within(B, d), d)
      <4>1. PICK b \in B : i <= b /\ b < i + 2 * d
        BY DEF Within
      <4>2. i \in 0 .. WordBits - 1 /\ b \in 0 .. WordBits - 1
        BY <4>1 DEF Within, WordSets
      <4>3. CASE b < i + d
        BY <4>1, <4>2, <4>3 DEF OrShifted, Within
      <4>4. CASE b >= i + d
        <5>1. i + d \in Within(B, d) /\ i + d >= d /\ (i + d) - d = i
          BY <2>1, <4>1, <4>2, <4>4, WordAssumption DEF Within
        <5>2. i \in {j - d : j \in {m \in Within(B, d) : m >= d}}
          BY <5>1
        <5>3. QED
          BY <5>2 DEF OrShifted
      <4>5. QED
        BY <2>1, <4>2, <4>3, <4>4, WordAssumption
    <3>3. QED
      BY <3>1, <3>2
  <2>4. QED
    BY <2>1, <2>2, <2>3
<1>3. \A n \in Nat : n \in N
  <2> HIDE DEF N
  <2>1. QED
    BY <1>1, <1>2, Induction
<1>4. QED
  BY <1>3

(* A word whose bits are those up to the k-th is one less than a power.    *)
Below(m) == CHOOSE f : f = [k \in Nat |-> IF k = 0 THEN 0
                              ELSE f[k - 1] + (IF k - 1 \in m THEN pow2[k - 1] ELSE 0)]

LEMMA BelowIs ==
  ASSUME NEW m
  PROVE  /\ Below(m)[0] = 0
         /\ \A n \in Nat : /\ Below(m)[n] \in Nat
                           /\ Below(m)[n + 1] = Below(m)[n] + (IF n \in m THEN pow2[n] ELSE 0)
<1> DEFINE bit(n) == IF n \in m THEN pow2[n] ELSE 0
           h == [n \in Nat |-> [x \in Nat |-> x + bit(n)]]
<1>1. \A n \in Nat : bit(n) \in Nat
  BY Pow2
<1> HIDE DEF bit
<1>2. h \in [Nat -> [Nat -> Nat]]
  BY <1>1
<1>3. PICK f : Recursion(f, Nat, 0, h)
  <2> HIDE DEF h
  <2>1. 0 \in Nat
    OBVIOUS
  <2>2. QED
    BY <1>2, <2>1, PrimitiveRecursion
<1>4. \A n \in Nat : f[n + 1] = f[n] + bit(n)
  BY <1>3 DEF Recursion
<1>5. f = [k \in Nat |-> IF k = 0 THEN 0 ELSE f[k - 1] + bit(k - 1)]
  <2>1. ASSUME NEW k \in Nat, k # 0 PROVE f[k] = f[k - 1] + bit(k - 1)
    <3>1. k - 1 \in Nat /\ (k - 1) + 1 = k
      BY <2>1
    <3>2. f[(k - 1) + 1] = f[k - 1] + bit(k - 1)
      BY <1>4, <3>1
    <3>3. QED
      BY <3>1, <3>2
  <2>2. QED
    BY <1>3, <2>1 DEF Recursion
<1> DEFINE g == Below(m)
<1>6. g = [k \in Nat |-> IF k = 0 THEN 0 ELSE g[k - 1] + bit(k - 1)]
  BY <1>5 DEF Below, bit
<1> HIDE DEF g
<1>7. g[0] = 0 /\ \A n \in Nat : g[n + 1] = g[n] + bit(n)
  <2>1. ASSUME NEW n \in Nat PROVE g[n + 1] = g[n] + bit(n)
    <3>1. n + 1 \in Nat /\ n + 1 # 0 /\ (n + 1) - 1 = n
      OBVIOUS
    <3>2. g[n + 1] = g[(n + 1) - 1] + bit((n + 1) - 1)
      BY <1>6, <3>1
    <3>3. QED
      BY <3>1, <3>2
  <2>2. QED
    BY <1>6, <2>1
<1> DEFINE N == {n \in Nat : g[n] \in Nat}
<1>8. 0 \in N /\ \A n \in Nat : n \in N => n + 1 \in N
  BY <1>1, <1>7
<1>9. \A n \in Nat : n \in N
  <2> HIDE DEF N
  <2>1. QED
    BY <1>8, Induction
<1>10. QED
  BY <1>7, <1>9 DEF g, bit

LEMMA ValueOfOnes ==
  ASSUME NEW k \in Nat, k + 1 <= WordBits
  PROVE  Value(0 .. k) = pow2[k + 1] - 1
<1> DEFINE f == Below(0 .. k)
           N == {n \in Nat : f[n] = IF n <= k + 1 THEN pow2[n] - 1 ELSE pow2[k + 1] - 1}
<1>1. 0 \in N
  <2>1. f[0] = 0 /\ pow2[0] = 1
    BY BelowIs, Pow2
  <2> HIDE DEF f
  <2>2. QED
    BY <2>1
<1>2. ASSUME NEW n \in Nat, n \in N PROVE n + 1 \in N
  <2>1. f[n + 1] = f[n] + (IF n \in 0 .. k THEN pow2[n] ELSE 0)
    BY BelowIs
  <2>2. pow2[n] \in Nat /\ pow2[n + 1] = 2 * pow2[n] /\ pow2[k + 1] \in Nat
    BY Pow2
  <2> HIDE DEF f
  <2>3. CASE n <= k
    BY <1>2, <2>1, <2>2, <2>3
  <2>4. CASE n = k + 1
    BY <1>2, <2>1, <2>2, <2>4
  <2>5. CASE n > k + 1
    BY <1>2, <2>1, <2>2, <2>5
  <2>6. QED
    BY <2>3, <2>4, <2>5
<1>3. \A n \in Nat : n \in N
  <2> HIDE DEF N
  <2>1. QED
    BY <1>1, <1>2, Induction
<1>4. f[WordBits] = pow2[k + 1] - 1
  <2>1. WordBits \in Nat /\ WordBits \in N
    BY <1>3, WordAssumption
  <2>2. CASE WordBits = k + 1
    BY <2>1, <2>2
  <2>3. CASE WordBits > k + 1
    BY <2>1, <2>3
  <2>4. QED
    BY <2>1, <2>2, <2>3
<1>5. QED
  BY <1>4 DEF Value, Below

LEMMA SmearedIs ==
  ASSUME NEW n \in 0 .. wordCount - 1, n > 1, n <= max_pow2
  PROVE  Smeared(n) = LeastPower(n)
<1> DEFINE B == Bits(n - 1)
           W == WordBits
           rounds == CHOOSE r \in 0 .. W : pow2[r] >= W /\ \A s \in 0 .. r - 1 : pow2[s] < W
<1>1. PICK k \in Nat : /\ k + 1 <= W - 1 /\ k \in B /\ \A i \in B : i <= k
                       /\ LeastPower(n) = pow2[k + 1]
  BY Middle
<1>2. B \in WordSets /\ W \in Nat
  BY WordAssumption DEF Bits, WordSets
<1>3. rounds \in 0 .. W /\ pow2[rounds] >= W
  <2> DEFINE Enough == {r \in Nat : pow2[r] >= W}
  <2>1. W \in Enough
    BY <1>2, Pow2Exceeds
  <2>2. PICK r \in Enough : \A i \in Enough : r <= i
    BY <2>1, LeastNatural
  <2>3. r \in 0 .. W /\ pow2[r] >= W
    BY <1>2, <2>1, <2>2
  <2>4. \A s \in 0 .. r - 1 : pow2[s] < W
    <3> SUFFICES ASSUME NEW s \in 0 .. r - 1 PROVE pow2[s] < W
      OBVIOUS
    <3>1. s \in Nat /\ ~(r <= s) /\ pow2[s] \in Nat
      BY <2>3, Pow2
    <3>2. QED
      BY <1>2, <2>2, <3>1
  <2>5. QED
    BY <2>3, <2>4
<1> HIDE DEF rounds, B
<1>4. Smears(B)[rounds] = 0 .. k
  <2>1. rounds \in Nat /\ pow2[rounds] \in Nat
    BY <1>2, <1>3, Pow2
  <2>2. Smears(B)[rounds] = Within(B, pow2[rounds])
    BY <1>2, <2>1, SmearsWithin
  <2>3. Within(B, pow2[rounds]) = 0 .. k
    <3> DEFINE d == pow2[rounds]
    <3>1. d \in Nat /\ d >= W
      BY <1>3, <2>1
    <3> HIDE DEF d
    <3>2. ASSUME NEW i \in Within(B, d) PROVE i \in 0 .. k
      BY <1>1, <1>2, <3>1 DEF Within, WordSets
    <3>3. ASSUME NEW i \in 0 .. k PROVE i \in Within(B, d)
      BY <1>1, <1>2, <3>1 DEF Within, WordSets
    <3>4. QED
      BY <3>2, <3>3 DEF d
  <2>4. QED
    BY <2>2, <2>3
<1>5. Smeared(n) = Value(Smears(B)[rounds]) + 1
  BY DEF Smeared, Smears, rounds, B
<1>6. Value(0 .. k) = pow2[k + 1] - 1
  BY <1>1, <1>2, ValueOfOnes
<1>7. pow2[k + 1] \in Nat
  BY Pow2
<1>8. QED
  BY <1>1, <1>4, <1>5, <1>6, <1>7

(* Both paths of nextPowerOfTwoSafe compute the least power of two that is *)
(* not below the word.                                                     *)
LEMMA PathsRoundUp ==
  ASSUME NEW n \in 0 .. wordCount - 1
  PROVE  Safe(n, Shifted) = LeastPower(n) /\ Safe(n, Smeared) = LeastPower(n)
<1> DEFINE W == WordBits
           powers == {p \in {pow2[j] : j \in 0 .. W - 1} : p >= n}
<1>1. W - 1 \in Nat /\ n \in Nat /\ max_pow2 \in Nat \ {0}
  BY WordAssumption, Pow2Exceeds DEF wordCount, max_pow2
<1>2. ASSUME NEW p \in powers PROVE p \in 1 .. max_pow2
  <2>1. PICK j \in 0 .. W - 1 : p = pow2[j]
    OBVIOUS
  <2>2. QED
    BY <1>1, <2>1, Pow2Divides DEF max_pow2
<1>3. CASE n <= 1
  <2>1. 1 \in powers
    BY <1>1, <1>3, Pow2
  <2>2. Min(powers) = 1
    <3> HIDE DEF powers
    <3>1. QED
      BY <1>1, <1>2, <2>1 DEF Min
  <2>3. LeastPower(n) = 1
    BY <2>1, <2>2 DEF LeastPower
  <2>4. ~(n > max_pow2)
    BY <1>1, <1>3
  <2>5. QED
    BY <1>3, <2>3, <2>4 DEF Safe
<1>4. CASE n > max_pow2
  <2>1. powers = {}
    BY <1>1, <1>2, <1>4
  <2>2. QED
    BY <1>1, <1>4, <2>1 DEF Safe, LeastPower
<1>5. CASE n > 1 /\ n <= max_pow2
  <2>1. Shifted(n) = LeastPower(n) /\ Smeared(n) = LeastPower(n)
    BY <1>5, ShiftedIs, SmearedIs
  <2>2. ~(n <= 1) /\ ~(n > max_pow2)
    BY <1>1, <1>5
  <2>3. QED
    BY <2>1, <2>2 DEF Safe
<1>6. QED
  BY <1>1, <1>3, <1>4, <1>5

(* Every call of nextPowerOfTwoSafe rounds its word up to the least power  *)
(* of two that is not below it, on both paths and for every width of a     *)
(* word, and says so when a word cannot hold that power.                   *)
THEOREM RoundingIsLeastPower == RoundSpec => []RoundsUp
<1>1. RoundInit => RoundsUp
  BY DEF RoundInit, RoundsUp
<1>2. RoundsUp /\ [RoundNext]_roundVars => RoundsUp'
  <2>1. ASSUME NEW n \in 0 .. wordCount - 1, RoundConstexpr(n) \/ RoundAtRunTime(n)
        PROVE  RoundsUp'
    <3>1. asked' = n /\ rounded' = LeastPower(n)
      BY <2>1, PathsRoundUp DEF RoundConstexpr, RoundAtRunTime, nextPowerOfTwoSafe
    <3>2. LeastPower(asked)' = LeastPower(asked')
      BY DEF LeastPower
    <3>3. QED
      BY <3>1, <3>2 DEF RoundsUp
  <2>2. ASSUME RoundsUp, UNCHANGED roundVars PROVE RoundsUp'
    BY <2>2 DEF RoundsUp, roundVars, LeastPower
  <2>3. QED
    BY <2>1, <2>2 DEF RoundNext
<1>3. QED
  BY <1>1, <1>2, PTL DEF RoundSpec

(* What the containers use of the rounding: a capacity is positive, less   *)
(* than the number of words and divides it, so that an index that wraps    *)
(* around stays in step and a full ring never looks empty.                 *)
LEMMA CapacitiesDivideWord ==
  /\ wordCount \in Nat
  /\ \A n \in Constructible : /\ nextPowerOfTwoSafe(n) \in 1 .. wordCount - 1
                              /\ wordCount % nextPowerOfTwoSafe(n) = 0
<1>1. WordBits \in Nat /\ WordBits - 1 \in Nat /\ wordCount \in Nat \ {0}
  BY WordAssumption, Pow2Exceeds DEF wordCount
<1>2. ASSUME NEW n \in Constructible
      PROVE  \E j \in 0 .. WordBits - 1 : nextPowerOfTwoSafe(n) = pow2[j]
  <2>1. n \in 0 .. wordCount - 1 /\ Safe(n, Shifted) # NULL
    BY WordAssumption DEF Constructible, nextPowerOfTwoSafe
  <2>2. max_pow2 \in Nat \ {0}
    BY <1>1, Pow2Exceeds DEF max_pow2
  <2>3. CASE n <= 1
    <3>1. ~(n > max_pow2)
      BY <1>1, <2>1, <2>2, <2>3
    <3>2. nextPowerOfTwoSafe(n) = pow2[0]
      BY <2>3, <3>1, Pow2 DEF nextPowerOfTwoSafe, Safe
    <3>3. QED
      BY <1>1, <3>2
  <2>4. CASE n > 1
    <3>1. n <= max_pow2
      BY <1>1, <2>1, <2>2, <2>4 DEF Safe
    <3>2. nextPowerOfTwoSafe(n) = Shifted(n)
      BY <1>1, <2>1, <2>2, <2>4, <3>1 DEF nextPowerOfTwoSafe, Safe
    <3>3. PICK k \in Nat : k + 1 <= WordBits - 1 /\ LeastPower(n) = pow2[k + 1]
      BY <2>1, <2>4, <3>1, Middle
    <3>4. QED
      BY <1>1, <2>1, <2>4, <3>1, <3>2, <3>3, ShiftedIs
  <2>5. QED
    BY <1>1, <2>1, <2>3, <2>4
<1>3. ASSUME NEW j \in 0 .. WordBits - 1
      PROVE  pow2[j] \in 1 .. wordCount - 1 /\ wordCount % pow2[j] = 0
  <2>1. j \in Nat /\ j < WordBits
    BY <1>1
  <2>2. pow2[j] < pow2[WordBits] /\ pow2[j] \in 1 .. pow2[WordBits] /\ pow2[WordBits] % pow2[j] = 0
    BY <1>1, <2>1, Pow2Increases, Pow2Divides
  <2>3. QED
    BY <1>1, <2>2 DEF wordCount
<1>4. QED
  BY <1>1, <1>2, <1>3

-----------------------------------------------------------------------------
(* The part of Consistent that is inductive; what full() and empty() say   *)
(* about the slots follows from it.                                        *)
RingInv ==
  /\ RingTypeOK
  /\ tail = (head + size_) % capacity_
  /\ \A i \in RingSlots : buffer_[i] # NULL <=> i \in Occupied

(* The slots of size_ + 1 positions are those of size_ and the next one.   *)
LEMMA OccupiedIn == RingInv => Occupied \subseteq RingSlots
<1> SUFFICES ASSUME RingInv, NEW k \in 0 .. size_ - 1 PROVE (head + k) % capacity_ \in RingSlots
  BY DEF Occupied
<1>1. head + k \in Int /\ capacity_ \in Nat \ {0}
  BY DEF RingInv, RingTypeOK, RingSlots
<1>2. QED
  BY <1>1, DivMod DEF RingSlots

LEMMA InitRing == RingInit => RingInv
<1> SUFFICES ASSUME RingInit PROVE RingInv
  OBVIOUS
<1>1. capacity_ \in Nat \ {0}
  BY CapacitiesDivideWord DEF RingInit
<1>2. RingTypeOK
  BY <1>1 DEF RingInit, RingTypeOK, RingSlots
<1>3. (head + size_) % capacity_ = tail
  BY <1>1 DEF RingInit
<1>4. Occupied = {} /\ \A i \in RingSlots : buffer_[i] = NULL
  BY DEF RingInit, Occupied
<1>5. QED
  BY <1>2, <1>3, <1>4 DEF RingInv

(* While there is room tail is a free slot.                                *)
LEMMA TailFree == RingInv /\ ~full => tail \notin Occupied
<1> SUFFICES ASSUME RingInv, ~full, NEW k \in 0 .. size_ - 1,
                    (head + size_) % capacity_ = (head + k) % capacity_
             PROVE  FALSE
  BY DEF RingInv, Occupied
<1>1. /\ capacity_ \in Nat \ {0} /\ head + size_ \in Int /\ head + k \in Int
      /\ head + size_ < head + k + capacity_ /\ head + k < head + size_
  BY DEF RingInv, RingTypeOK, RingSlots, full
<1>2. head + size_ = head + k
  BY <1>1, SlotsDistinct
<1>3. QED
  BY <1>1, <1>2

LEMMA PushRing ==
  ASSUME RingInv, NEW x \in Values, Push(x)
  PROVE  RingInv'
<1>1. /\ capacity_ \in Nat \ {0} /\ capacity_' = capacity_ /\ head' = head
      /\ head \in 0 .. capacity_ - 1 /\ tail \in 0 .. capacity_ - 1
      /\ size_ \in 0 .. capacity_ - 1 /\ size_' = size_ + 1
      /\ tail' = (tail + 1) % capacity_ /\ tail = (head + size_) % capacity_
      /\ buffer_' = [buffer_ EXCEPT ![tail] = x] /\ x # NULL
  BY NullIsNoItem DEF RingInv, RingTypeOK, RingSlots, Push, full, Advance
<1>2. tail' = (head + size_') % capacity_
  <2> DEFINE p == head + size_
  <2>1. p \in Int /\ p + 1 = head + size_' /\ tail = p % capacity_
    BY <1>1
  <2> HIDE DEF p
  <2>2. capacity_ \in Nat \ {0} /\ p \in Int /\ 1 \in Int
    BY <1>1, <2>1
  <2>3. ((p % capacity_) + 1) % capacity_ = (p + 1) % capacity_
    BY <2>2, ModPlus
  <2>4. QED
    BY <1>1, <2>1, <2>3
<1>3. tail' \in 0 .. capacity_ - 1
  BY <1>1, DivMod
<1>4. RingTypeOK'
  BY <1>1, <1>3 DEF RingInv, RingTypeOK, RingSlots, Push
<1>5. Occupied' = Occupied \cup {tail}
  <2>1. Occupied' = {(head + k) % capacity_ : k \in 0 .. size_}
    BY <1>1 DEF Occupied
  <2>2. 0 .. size_ = (0 .. size_ - 1) \cup {size_}
    BY <1>1
  <2>3. QED
    BY <1>1, <2>1, <2>2 DEF Occupied
<1>6. \A i \in RingSlots : buffer_'[i] # NULL <=> i \in Occupied'
  BY <1>1, <1>5 DEF RingInv, RingTypeOK, RingSlots
<1>7. QED
  BY <1>1, <1>2, <1>4, <1>6 DEF RingInv, RingSlots

(* The slots after a pop are counted from the next head.                   *)
LEMMA PopOccupied ==
  ASSUME RingInv, NEW c \in Consumers, Pop(c)
  PROVE  /\ Occupied' = Occupied \ {head}
         /\ head \in Occupied
         /\ \A k \in Int : (head' + k) % capacity_ = (head + 1 + k) % capacity_
<1>1. /\ capacity_ \in Nat \ {0} /\ capacity_' = capacity_
      /\ head \in 0 .. capacity_ - 1 /\ head' = (head + 1) % capacity_
      /\ size_ \in 1 .. capacity_ /\ size_' = size_ - 1
  BY DEF RingInv, RingTypeOK, RingSlots, Pop, empty, Advance
<1>2. ASSUME NEW k \in Int PROVE (head' + k) % capacity_ = (head + 1 + k) % capacity_
  <2> DEFINE p == head + 1
  <2>1. p \in Int /\ head' = p % capacity_
    BY <1>1
  <2> HIDE DEF p
  <2>2. ((p % capacity_) + k) % capacity_ = (p + k) % capacity_
    BY <1>1, <2>1, ModPlus
  <2>3. QED
    BY <2>1, <2>2 DEF p
<1>3. head \in Occupied
  <2>1. (head + 0) % capacity_ = head /\ 0 \in 0 .. size_ - 1
    BY <1>1, ModSmall
  <2>2. QED
    BY <2>1 DEF Occupied
<1>4. ASSUME NEW i \in Occupied' PROVE i \in Occupied \ {head}
  <2>1. PICK k \in 0 .. size_ - 2 : i = (head' + k) % capacity_
    BY <1>1, <1>4 DEF Occupied
  <2> DEFINE p == head + 1 + k
  <2>2. i = p % capacity_
    BY <1>2, <2>1
  <2>3. i \in Occupied
    <3>1. k + 1 \in 0 .. size_ - 1 /\ p = head + (k + 1)
      BY <1>1
    <3> HIDE DEF p
    <3>2. QED
      BY <2>2, <3>1 DEF Occupied
  <2>4. ASSUME i = head PROVE FALSE
    <3>1. p \in Int /\ p > head /\ p < head + capacity_ /\ head < p + capacity_
      BY <1>1
    <3> HIDE DEF p
    <3>2. p % capacity_ = head % capacity_
      BY <1>1, <2>2, <2>4, ModSmall
    <3>3. p = head
      BY <1>1, <3>1, <3>2, SlotsDistinct
    <3>4. QED
      BY <1>1, <3>1, <3>3
  <2>5. QED
    BY <2>3, <2>4
<1>5. ASSUME NEW i \in Occupied, i # head PROVE i \in Occupied'
  <2>1. PICK k \in 0 .. size_ - 1 : i = (head + k) % capacity_
    BY <1>5 DEF Occupied
  <2>2. k # 0
    BY <1>1, <1>5, <2>1, ModSmall
  <2>3. k - 1 \in 0 .. size_' - 1 /\ head + 1 + (k - 1) = head + k
    BY <1>1, <2>2
  <2>4. i = (head' + (k - 1)) % capacity_
    BY <1>2, <2>1, <2>3
  <2>5. QED
    BY <1>1, <2>3, <2>4 DEF Occupied
<1>6. QED
  BY <1>2, <1>3, <1>4, <1>5

LEMMA PopRing ==
  ASSUME RingInv, NEW c \in Consumers, Pop(c)
  PROVE  RingInv'
<1>1. /\ capacity_ \in Nat \ {0} /\ capacity_' = capacity_ /\ tail' = tail
      /\ head \in 0 .. capacity_ - 1 /\ tail \in 0 .. capacity_ - 1
      /\ head' = (head + 1) % capacity_
      /\ size_ \in 1 .. capacity_ /\ size_' = size_ - 1
      /\ tail = (head + size_) % capacity_
      /\ buffer_' = [buffer_ EXCEPT ![head] = NULL]
      /\ out' = [out EXCEPT ![c] = buffer_[head]]
  BY DEF RingInv, RingTypeOK, RingSlots, Pop, empty, Advance
<1>2. tail' = (head' + size_') % capacity_
  <2>1. size_' \in Int /\ head + 1 + size_' = head + size_
    BY <1>1
  <2>2. (head' + size_') % capacity_ = (head + 1 + size_') % capacity_
    BY <2>1, PopOccupied
  <2>3. QED
    BY <1>1, <2>1, <2>2
<1>3. head' \in 0 .. capacity_ - 1
  BY <1>1, DivMod
<1>4. RingTypeOK'
  BY <1>1, <1>3 DEF RingInv, RingTypeOK, RingSlots
<1>5. \A i \in RingSlots : buffer_'[i] # NULL <=> i \in Occupied'
  BY <1>1, PopOccupied DEF RingInv, RingTypeOK, RingSlots
<1>6. QED
  BY <1>1, <1>2, <1>4, <1>5 DEF RingInv, RingSlots

LEMMA NextRing == RingInv /\ [RingNext]_ringVars => RingInv'
<1> SUFFICES ASSUME RingInv, [RingNext]_ringVars PROVE RingInv'
  OBVIOUS
<1>1. CASE UNCHANGED ringVars
  BY <1>1 DEF ringVars, RingInv, RingTypeOK, RingSlots, Occupied
<1>2. CASE RingNext
  BY <1>2, PushRing, PopRing DEF RingNext
<1>3. QED
  BY <1>1, <1>2

LEMMA RingInvConsistent == RingInv => Consistent
<1> SUFFICES ASSUME RingInv PROVE Consistent
  OBVIOUS
<1>1. /\ capacity_ \in Nat \ {0} /\ head \in 0 .. capacity_ - 1 /\ size_ \in 0 .. capacity_
      /\ RingSlots = 0 .. capacity_ - 1
  BY DEF RingInv, RingTypeOK, RingSlots
<1>2. ASSUME full, NEW i \in RingSlots PROVE i \in Occupied
  <2> DEFINE d == i - head
             k == d % capacity_
  <2>1. d \in Int /\ d + head = i
    BY <1>1
  <2> HIDE DEF d
  <2>2. k \in 0 .. capacity_ - 1 /\ size_ = capacity_
    BY <1>1, <1>2, <2>1, DivMod DEF full
  <2>3. (k + head) % capacity_ = i
    <3>1. capacity_ \in Nat \ {0} /\ d \in Int /\ head \in Int
      BY <1>1, <2>1
    <3>2. ((d % capacity_) + head) % capacity_ = (d + head) % capacity_
      BY <3>1, ModPlus
    <3>3. QED
      BY <1>1, <2>1, <3>2, ModSmall
  <2> HIDE DEF k
  <2>4. k + head = head + k
    BY <1>1, <2>2
  <2>5. QED
    BY <1>1, <2>2, <2>3, <2>4 DEF Occupied
<1>3. full <=> \A i \in RingSlots : buffer_[i] # NULL
  <2>1. tail \in RingSlots
    BY DEF RingInv, RingTypeOK
  <2>2. QED
    BY <1>2, <2>1, TailFree DEF RingInv
<1>4. empty <=> \A i \in RingSlots : buffer_[i] = NULL
  <2>1. CASE size_ = 0
    BY <2>1, OccupiedIn DEF RingInv, Occupied, empty
  <2>2. CASE size_ # 0
    <3>1. (head + 0) % capacity_ = head /\ 0 \in 0 .. size_ - 1
      BY <1>1, <2>2, ModSmall
    <3>2. head \in Occupied
      BY <3>1 DEF Occupied
    <3>3. QED
      BY <1>1, <2>2, <3>2 DEF RingInv, empty
  <2>3. QED
    BY <2>1, <2>2
<1>5. QED
  BY <1>3, <1>4 DEF RingInv, Consistent

(* The indices of the ring and its slots agree, and full() and empty() are *)
(* about the slots, at every capacity.                                     *)
THEOREM RingConsistent == RingSpec => []Consistent
  BY InitRing, NextRing, RingInvConsistent, PTL DEF RingSpec

-----------------------------------------------------------------------------
(* The contents, oldest first: q of the refinement.                        *)
Contents == [k \in 1 .. size_ |-> buffer_[(head + k - 1) % capacity_]]

(* Each position of the contents is a filled slot.                         *)
LEMMA ContentsFilled ==
  ASSUME RingInv, NEW k \in 1 .. size_
  PROVE  /\ (head + k - 1) % capacity_ \in Occupied
         /\ (head + k - 1) % capacity_ \in RingSlots
         /\ Contents[k] \in Values
<1> DEFINE i == (head + k - 1) % capacity_
<1>1. size_ \in Nat /\ head \in Int
  BY DEF RingInv, RingTypeOK, RingSlots
<1>2. k - 1 \in 0 .. size_ - 1 /\ head + (k - 1) = head + k - 1
  BY <1>1
<1>3. i \in Occupied
  BY <1>2 DEF Occupied
<1>4. i \in RingSlots
  BY <1>3, OccupiedIn
<1>5. buffer_[i] \in Values
  BY <1>3, <1>4 DEF RingInv, RingTypeOK
<1>6. QED
  BY <1>3, <1>4, <1>5 DEF Contents

LEMMA ContentsType == RingInv => Contents \in Seq(Values) /\ Len(Contents) = size_
<1> SUFFICES ASSUME RingInv PROVE Contents \in Seq(Values) /\ Len(Contents) = size_
  OBVIOUS
<1>1. size_ \in Nat
  BY DEF RingInv, RingTypeOK
<1>2. Contents \in [1 .. size_ -> Values]
  BY ContentsFilled DEF Contents
<1>3. QED
  BY <1>1, <1>2

LEMMA PushAppends ==
  ASSUME RingInv, NEW x \in Values, Push(x)
  PROVE  Contents' = Append(Contents, x) /\ size_ < capacity_
<1>1. /\ size_ \in Nat /\ size_ < capacity_ /\ size_' = size_ + 1
      /\ head' = head /\ capacity_' = capacity_ /\ head \in Int
      /\ tail = (head + size_) % capacity_ /\ tail \in RingSlots
      /\ buffer_' = [buffer_ EXCEPT ![tail] = x]
  BY DEF RingInv, RingTypeOK, RingSlots, Push, full
<1>2. tail \notin Occupied
  BY TailFree DEF Push
<1>3. Contents' = [k \in 1 .. size_ + 1 |-> buffer_'[(head + k - 1) % capacity_]]
  BY <1>1 DEF Contents
<1>4. ASSUME NEW k \in 1 .. size_ PROVE Contents'[k] = Contents[k]
  <2>1. buffer_'[(head + k - 1) % capacity_] = buffer_[(head + k - 1) % capacity_]
    BY <1>1, <1>2, ContentsFilled DEF RingInv, RingTypeOK
  <2>2. QED
    BY <1>1, <1>3, <2>1 DEF Contents
<1>5. Contents'[size_ + 1] = x
  <2>1. head + (size_ + 1) - 1 = head + size_ /\ size_ + 1 \in 1 .. size_ + 1
    BY <1>1
  <2>2. Contents'[size_ + 1] = buffer_'[(head + size_) % capacity_]
    BY <1>3, <2>1
  <2>3. QED
    BY <1>1, <2>2 DEF RingInv, RingTypeOK
<1>6. Contents \in Seq(Values) /\ Len(Contents) = size_
  BY ContentsType
<1>7. Contents' = [k \in 1 .. size_ + 1 |-> Contents'[k]]
  BY <1>3
<1>8. Contents' = Append(Contents, x)
  BY <1>4, <1>5, <1>6, <1>7, IsAppend
<1>9. QED
  BY <1>1, <1>8

LEMMA PopTakesHead ==
  ASSUME RingInv, NEW c \in Consumers, Pop(c)
  PROVE  /\ Contents # <<>>
         /\ out' = [out EXCEPT ![c] = Head(Contents)]
         /\ Contents' = Tail(Contents)
<1>1. /\ size_ \in Nat /\ size_ > 0 /\ size_' = size_ - 1 /\ capacity_' = capacity_
      /\ capacity_ \in Nat \ {0} /\ head \in 0 .. capacity_ - 1
      /\ buffer_' = [buffer_ EXCEPT ![head] = NULL]
      /\ out' = [out EXCEPT ![c] = buffer_[head]]
  BY DEF RingInv, RingTypeOK, RingSlots, Pop, empty
<1>2. Contents \in Seq(Values) /\ Len(Contents) = size_
  BY ContentsType
<1>3. Contents[1] = buffer_[head]
  <2>1. head + 1 - 1 = head /\ head % capacity_ = head /\ 1 \in 1 .. size_
    BY <1>1, ModSmall
  <2>2. QED
    BY <2>1 DEF Contents
<1>4. Contents' = [k \in 1 .. size_ - 1 |-> buffer_'[(head' + k - 1) % capacity_]]
  BY <1>1 DEF Contents
<1>5. ASSUME NEW k \in 1 .. size_ - 1 PROVE Contents'[k] = Contents[k + 1]
  <2> DEFINE i == (head + k) % capacity_
  <2>1. k + 1 \in 1 .. size_ /\ head + (k + 1) - 1 = head + k /\ k - 1 \in Int
    BY <1>1
  <2>2. Contents[k + 1] = buffer_[i] /\ i \in RingSlots
    BY <2>1, ContentsFilled DEF Contents
  <2>3. (head' + (k - 1)) % capacity_ = (head + 1 + (k - 1)) % capacity_
    BY <2>1, PopOccupied
  <2>4. head' \in Int
    BY <1>1, DivMod DEF Pop, Advance
  <2>5. head + 1 + (k - 1) = head + k /\ head' + (k - 1) = head' + k - 1
    BY <1>1, <2>4
  <2>6. Contents'[k] = buffer_'[i]
    BY <1>4, <2>3, <2>5
  <2>7. i # head
    <3> DEFINE p == head + k
    <3>1. p \in Int /\ p > head /\ p < head + capacity_ /\ head < p + capacity_
      BY <1>1 DEF RingInv, RingTypeOK
    <3> HIDE DEF p
    <3>2. p % capacity_ # head % capacity_
      <4>1. p # head /\ head \in Int /\ capacity_ \in Nat \ {0}
        BY <1>1, <3>1
      <4>2. QED
        BY <3>1, <4>1, SlotsDistinct
    <3>3. QED
      BY <1>1, <3>2, ModSmall DEF p
  <2>8. buffer_'[i] = buffer_[i]
    BY <1>1, <2>2, <2>7 DEF RingInv, RingTypeOK
  <2>9. QED
    BY <2>2, <2>6, <2>8
<1>6. Contents' = [k \in 1 .. size_ - 1 |-> Contents'[k]]
  BY <1>4
<1>7. Contents' = Tail(Contents) /\ Contents # <<>> /\ Head(Contents) = Contents[1]
  BY <1>1, <1>2, <1>5, <1>6, IsTail
<1>8. QED
  BY <1>1, <1>3, <1>7

(* RingBuffer is a bounded FIFO: nothing is dropped, repeated or reordered *)
(* at any capacity, however far the indices have gone round.               *)
THEOREM RingRefinesFifo == RingSpec => RingImplementsFifo
<1>1. RingInit => RingFifo!Init
  <2> SUFFICES ASSUME RingInit PROVE RingFifo!Init
    OBVIOUS
  <2>1. Contents = <<>>
    BY DEF RingInit, Contents
  <2>2. capacity_ \in Nat \ {0}
    BY CapacitiesDivideWord DEF RingInit
  <2>3. QED
    BY <2>1, <2>2 DEF RingInit, RingFifo!Init, Contents
<1>2. RingInv /\ [RingNext]_ringVars => [RingFifo!Next]_RingFifo!fifoVars
  <2> SUFFICES ASSUME RingInv, [RingNext]_ringVars
               PROVE  [RingFifo!Next]_RingFifo!fifoVars
    OBVIOUS
  <2>1. ASSUME NEW x \in Values, Push(x) PROVE RingFifo!Push(x)
    <3>1. Len(Contents) < capacity_ /\ Contents' = Append(Contents, x)
      BY <2>1, PushAppends, ContentsType
    <3>2. QED
      BY <2>1, <3>1 DEF RingFifo!Push, Push, Contents
  <2>2. ASSUME NEW c \in Consumers, Pop(c) PROVE RingFifo!Pop(c)
    BY <2>2, PopTakesHead DEF RingFifo!Pop, Pop, Contents
  <2>3. CASE UNCHANGED ringVars
    BY <2>3 DEF ringVars, RingFifo!fifoVars
  <2>4. QED
    BY <2>1, <2>2, <2>3 DEF RingNext, RingFifo!Next
<1>3. QED
  BY <1>1, <1>2, InitRing, NextRing, PTL DEF RingSpec, RingImplementsFifo, RingFifo!Spec

-----------------------------------------------------------------------------
(* SPSCRingBuffer: what is written and not moved out, and what is moved    *)
(* out and not yet released to the producer.                               *)
Unread == Minus(written, moved)
Unreleased == Minus(moved, shead_)

Words == 0 .. wordCount - 1

SpscShape ==
  /\ wordCount \in Nat
  /\ spscCapacity \in 1 .. wordCount - 1
  /\ wordCount % spscCapacity = 0
  /\ sbuffer_ \in [0 .. spscCapacity - 1 -> Values \cup {NULL}]
  /\ shead_ \in Words /\ stail_ \in Words /\ written \in Words /\ moved \in Words
  /\ toWrite \in Nat /\ toMove \in Nat

(* The batches stay inside what the indices say is free and is filled,     *)
(* whatever the other side publishes meanwhile.                            *)
Batches ==
  /\ Unreleased + toMove <= Available
  /\ Available <= Unreleased + Unread
  /\ Unreleased + Unread + toWrite <= spscCapacity

Filled ==
  \A i \in 0 .. spscCapacity - 1 :
    sbuffer_[i] # NULL <=> i \in SlotsFrom(moved, Unread, spscCapacity)

SpscInv == SpscShape /\ Batches /\ Filled

LEMMA SpscTypes ==
  ASSUME SpscShape
  PROVE  /\ wordCount \in Nat \ {0} /\ spscCapacity \in Nat \ {0}
         /\ Unread \in Words /\ Unreleased \in Words /\ Available \in Words
<1>1. wordCount \in Nat \ {0} /\ spscCapacity \in Nat \ {0}
  BY DEF SpscShape
<1> DEFINE W == wordCount
<1>2. W \in Nat \ {0} /\ Words = 0 .. W - 1
  BY <1>1 DEF Words
<1> HIDE DEF W
<1>3. ASSUME NEW x \in Words, NEW y \in Words PROVE (x - y) % W \in Words
  BY <1>2, DivMod
<1>4. QED
  BY <1>1, <1>3 DEF SpscShape, Unread, Unreleased, Available, Minus, W

LEMMA SpscSizeKept == ASSUME DOMAIN sbuffer_' = DOMAIN sbuffer_ PROVE spscCapacity' = spscCapacity
  BY DEF spscCapacity

(* The slot of the next write is the one after the last unread item's.     *)
LEMMA WriteSlot ==
  ASSUME SpscShape
  PROVE  Slot(written) = (moved + Unread) % spscCapacity
<1> DEFINE W == wordCount
           C == spscCapacity
           n == Unread
<1>1. /\ W \in Nat \ {0} /\ C \in Nat \ {0} /\ W % C = 0
      /\ written \in 0 .. W - 1 /\ moved \in 0 .. W - 1 /\ n \in 0 .. W - 1
      /\ n = (written - moved) % W
  BY SpscTypes DEF SpscShape, Words, Unread, Minus
<1> HIDE DEF W, C, n
<1>2. written - moved \in Int
  BY <1>1
<1>3. PICK k \in Int : written - moved = W * k + n
  BY <1>1, <1>2, DivMod
<1>4. PICK r \in Int : W = C * r
  <2>1. W \in Int /\ W = C * (W \div C) + (W % C) /\ W \div C \in Int
    BY <1>1, DivMod
  <2>2. QED
    BY <1>1, <2>1
<1> DEFINE z == moved + n
<1>5. written = z + C * (r * k) /\ z \in Int /\ r * k \in Int
  BY <1>1, <1>3, <1>4
<1> HIDE DEF z
<1>6. written % C = z % C
  BY <1>1, <1>5, SameSlot
<1>7. QED
  BY <1>6 DEF Slot, z, C, n

LEMMA InitSpsc == SpscInit => SpscInv
<1> SUFFICES ASSUME SpscInit PROVE SpscInv
  OBVIOUS
<1>1. PICK n \in Constructible : sbuffer_ = [i \in 0 .. nextPowerOfTwoSafe(n) - 1 |-> NULL]
  BY DEF SpscInit
<1> DEFINE C == nextPowerOfTwoSafe(n)
           W == wordCount
<1>2. W \in Nat /\ C \in 1 .. W - 1 /\ W % C = 0
  BY CapacitiesDivideWord
<1>3. sbuffer_ = [i \in 0 .. C - 1 |-> NULL]
  BY <1>1
<1> HIDE DEF C, W
<1>4. spscCapacity = C
  BY <1>2, <1>3, FS_Interval DEF spscCapacity
<1>5. Minus(0, 0) = 0
  BY <1>2, ModSmall DEF Minus, W
<1>6. SpscShape
  BY <1>2, <1>3, <1>4 DEF SpscShape, SpscInit, Words, W
<1>7. Unread = 0 /\ Unreleased = 0 /\ Available = 0
  BY <1>5 DEF Unread, Unreleased, Available, SpscInit
<1>8. Batches
  BY <1>2, <1>4, <1>7 DEF Batches, SpscInit
<1>9. Filled
  BY <1>3, <1>4, <1>7 DEF Filled, SlotsFrom
<1>10. QED
  BY <1>6, <1>8, <1>9 DEF SpscInv

(* A step that moves no index and no item.                                 *)
LEMMA SpscQuiet ==
  ASSUME SpscInv, UNCHANGED <<shead_, stail_, sbuffer_, written, moved>>
  PROVE  /\ spscCapacity' = spscCapacity /\ Unread' = Unread /\ Unreleased' = Unreleased
         /\ Available' = Available /\ Filled'
<1>1. spscCapacity' = spscCapacity /\ Unread' = Unread /\ Unreleased' = Unreleased
  BY DEF spscCapacity, Unread, Unreleased
<1>2. Available' = Available
  BY DEF Available
<1>3. QED
  BY <1>1, <1>2 DEF SpscInv, Filled

LEMMA SpscMin ==
  ASSUME NEW n \in Nat, NEW m \in Nat
  PROVE  Min({n, m}) \in Nat /\ Min({n, m}) <= m
BY DEF Min

LEMMA PushSpsc ==
  ASSUME SpscInv, NEW n \in 1 .. MaxSpscBatch, TryPush(n)
  PROVE  SpscInv'
<1>1. UNCHANGED <<shead_, stail_, sbuffer_, written, moved, toMove>> /\ written = stail_
  BY DEF TryPush
<1>2. /\ spscCapacity' = spscCapacity /\ Unread' = Unread /\ Unreleased' = Unreleased
      /\ Available' = Available /\ Filled'
  BY <1>1, SpscQuiet
<1>3. SpscShape /\ Batches
  BY DEF SpscInv
<1>4. /\ Unread \in Nat /\ Unreleased \in Nat /\ Available \in Nat
      /\ spscCapacity \in Nat /\ spscCapacity < wordCount /\ wordCount \in Nat
  BY <1>3, SpscTypes DEF Words, SpscShape
<1>5. Available = Unreleased + Unread
  <2> DEFINE W == wordCount
  <2>1. /\ W \in Nat \ {0} /\ written \in 0 .. W - 1 /\ moved \in 0 .. W - 1
        /\ shead_ \in 0 .. W - 1
    BY <1>3, SpscTypes DEF SpscShape, Words
  <2>2. ((written - moved) % W) + ((moved - shead_) % W) < W
    BY <1>3, <1>4 DEF Batches, Unread, Unreleased, Minus, SpscShape
  <2> HIDE DEF W
  <2>3. (written - shead_) % W = ((written - moved) % W) + ((moved - shead_) % W)
    BY <2>1, <2>2, DistancesAdd
  <2>4. Available = Unread + Unreleased
    BY <1>1, <2>3 DEF Unread, Unreleased, Available, Minus, W
  <2>5. QED
    BY <1>4, <2>4
<1>6. toWrite' \in Nat /\ toWrite' <= spscCapacity - Available
  <2>1. Space \in Nat /\ Space = spscCapacity - Available /\ n \in Nat
    BY <1>4, BatchNatural DEF TryPush, Space, Available
  <2>2. QED
    BY <2>1, SpscMin DEF TryPush
<1>7. Batches'
  <2>1. Unreleased + toMove' <= Available /\ Available <= Unreleased + Unread
    BY <1>1, <1>3 DEF Batches
  <2>2. Unreleased + Unread + toWrite' <= spscCapacity
    <3> DEFINE w == toWrite'
    <3>1. w \in Nat /\ w <= spscCapacity - Available
      BY <1>6
    <3> HIDE DEF w
    <3>2. Unreleased + Unread + w <= spscCapacity
      BY <1>4, <1>5, <3>1
    <3>3. QED
      BY <3>2 DEF w
  <2>3. QED
    BY <1>2, <2>1, <2>2 DEF Batches
<1>8. SpscShape'
  BY <1>1, <1>2, <1>3, <1>6 DEF SpscShape, Words
<1>9. QED
  BY <1>2, <1>7, <1>8 DEF SpscInv

LEMMA PopSpsc ==
  ASSUME SpscInv, NEW n \in 1 .. MaxSpscBatch, TryPop(n)
  PROVE  SpscInv'
<1>1. UNCHANGED <<shead_, stail_, sbuffer_, written, moved, toWrite>> /\ moved = shead_
  BY DEF TryPop
<1>2. /\ spscCapacity' = spscCapacity /\ Unread' = Unread /\ Unreleased' = Unreleased
      /\ Available' = Available /\ Filled'
  BY <1>1, SpscQuiet
<1>3. SpscShape /\ Batches
  BY DEF SpscInv
<1>4. Unread \in Nat /\ Unreleased \in Nat /\ Available \in Nat /\ n \in Nat
  BY <1>3, SpscTypes, BatchNatural DEF Words, SpscShape
<1>5. Unreleased = 0
  <2> DEFINE W == wordCount
  <2>1. W \in Nat \ {0} /\ moved \in 0 .. W - 1
    BY <1>3, SpscTypes DEF SpscShape, Words
  <2> HIDE DEF W
  <2>2. moved - moved = 0 /\ 0 % W = 0
    BY <2>1, ModSmall
  <2>3. QED
    BY <1>1, <2>2 DEF Unreleased, Minus, W
<1>6. toMove' \in Nat /\ toMove' <= Available
  BY <1>4, SpscMin DEF TryPop
<1>7. Batches'
  <2>1. Unreleased + toMove' <= Available
    <3> DEFINE m == toMove'
    <3>1. m \in Nat /\ m <= Available
      BY <1>6
    <3> HIDE DEF m
    <3>2. Unreleased + m <= Available
      BY <1>4, <1>5, <3>1
    <3>3. QED
      BY <3>2 DEF m
  <2>2. Available <= Unreleased + Unread /\ Unreleased + Unread + toWrite' <= spscCapacity
    BY <1>1, <1>3 DEF Batches
  <2>3. QED
    BY <1>2, <2>1, <2>2 DEF Batches
<1>8. SpscShape'
  BY <1>1, <1>2, <1>3, <1>6 DEF SpscShape, Words
<1>9. QED
  BY <1>2, <1>7, <1>8 DEF SpscInv

LEMMA PublishSpsc == ASSUME SpscInv, SpscPublish PROVE SpscInv'
<1>1. /\ UNCHANGED <<shead_, sbuffer_, written, moved, toMove, toWrite>>
      /\ stail_' = written /\ toWrite = 0
  BY DEF SpscPublish
<1>2. spscCapacity' = spscCapacity /\ Unread' = Unread /\ Unreleased' = Unreleased
  BY <1>1 DEF spscCapacity, Unread, Unreleased
<1>3. SpscShape /\ Batches /\ Filled
  BY DEF SpscInv
<1>4. /\ Unread \in Nat /\ Unreleased \in Nat /\ Available \in Nat
      /\ spscCapacity \in Nat /\ spscCapacity < wordCount /\ wordCount \in Nat
  BY <1>3, SpscTypes DEF Words, SpscShape
<1>5. Available' = Unreleased + Unread
  <2> DEFINE W == wordCount
  <2>1. /\ W \in Nat \ {0} /\ written \in 0 .. W - 1 /\ moved \in 0 .. W - 1
        /\ shead_ \in 0 .. W - 1
    BY <1>3, SpscTypes DEF SpscShape, Words
  <2>2. ((written - moved) % W) + ((moved - shead_) % W) < W
    BY <1>3, <1>4 DEF Batches, Unread, Unreleased, Minus, SpscShape
  <2> HIDE DEF W
  <2>3. (written - shead_) % W = ((written - moved) % W) + ((moved - shead_) % W)
    BY <2>1, <2>2, DistancesAdd
  <2>4. Available' = Unread + Unreleased
    BY <1>1, <2>3 DEF Unread, Unreleased, Available, Minus, W
  <2>5. QED
    BY <1>4, <2>4
<1>6. Batches'
  BY <1>1, <1>2, <1>3, <1>4, <1>5 DEF Batches, SpscShape
<1>7. SpscShape'
  BY <1>1, <1>2, <1>3 DEF SpscShape, Words
<1>8. Filled'
  BY <1>1, <1>2, <1>3 DEF Filled
<1>9. QED
  BY <1>6, <1>7, <1>8 DEF SpscInv

LEMMA ReleaseSpsc == ASSUME SpscInv, SpscRelease PROVE SpscInv'
<1>1. /\ UNCHANGED <<stail_, sbuffer_, written, moved, toMove, toWrite>>
      /\ shead_' = moved /\ toMove = 0
  BY DEF SpscRelease
<1>2. spscCapacity' = spscCapacity /\ Unread' = Unread
  BY <1>1 DEF spscCapacity, Unread
<1>3. SpscShape /\ Batches /\ Filled
  BY DEF SpscInv
<1>4. /\ Unread \in Nat /\ Unreleased \in Nat /\ Available \in Nat
      /\ spscCapacity \in Nat
  BY <1>3, SpscTypes DEF Words, SpscShape
<1> DEFINE W == wordCount
<1>5. /\ W \in Nat \ {0} /\ stail_ \in 0 .. W - 1 /\ moved \in 0 .. W - 1
      /\ shead_ \in 0 .. W - 1
  BY <1>3, SpscTypes DEF SpscShape, Words
<1>6. Available' = Available - Unreleased
  <2>1. (moved - shead_) % W <= (stail_ - shead_) % W
    BY <1>1, <1>3, <1>4 DEF Batches, Available, Unreleased, Minus
  <2> HIDE DEF W
  <2>2. (stail_ - moved) % W = ((stail_ - shead_) % W) - ((moved - shead_) % W)
    BY <1>5, <2>1, DistancesSubtract
  <2>3. QED
    BY <1>1, <2>2 DEF Available, Unreleased, Minus, W
<1>7. Unreleased' = 0
  <2> HIDE DEF W
  <2>1. moved - moved = 0 /\ 0 % W = 0
    BY <1>5, ModSmall
  <2>2. QED
    BY <1>1, <2>1 DEF Unreleased, Minus, W
<1>8. Batches'
  BY <1>1, <1>2, <1>3, <1>4, <1>6, <1>7 DEF Batches, SpscShape
<1>9. SpscShape'
  BY <1>1, <1>2, <1>3 DEF SpscShape, Words
<1>10. Filled'
  BY <1>1, <1>2, <1>3 DEF Filled
<1>11. QED
  BY <1>8, <1>9, <1>10 DEF SpscInv

LEMMA WriteSpsc ==
  ASSUME SpscInv, NEW x \in Values, SpscWrite(x)
  PROVE  /\ SpscInv' /\ Unread' = Unread + 1 /\ Unread < spscCapacity
         /\ Slot(written) \in 0 .. spscCapacity - 1
         /\ Slot(written) \notin SlotsFrom(moved, Unread, spscCapacity)
<1> DEFINE W == wordCount
           C == spscCapacity
           k == Slot(written)
<1>1. /\ UNCHANGED <<shead_, stail_, moved, toMove>> /\ toWrite > 0
      /\ written' = (written + 1) % W /\ toWrite' = toWrite - 1
      /\ sbuffer_' = [sbuffer_ EXCEPT ![k] = x]
  BY DEF SpscWrite, Plus
<1>2. SpscShape /\ Batches /\ Filled
  BY DEF SpscInv
<1>3. /\ W \in Nat \ {0} /\ written \in 0 .. W - 1 /\ moved \in 0 .. W - 1
      /\ C \in Nat \ {0} /\ C < W
      /\ Unread \in Nat /\ Unreleased \in Nat /\ Available \in Nat
  BY <1>2, SpscTypes DEF SpscShape, Words
<1>4. Unread < C
  BY <1>1, <1>2, <1>3 DEF Batches, SpscShape
<1>5. Unread' = Unread + 1
  <2>1. (written - moved) % W < W - 1
    BY <1>3, <1>4 DEF Unread, Minus
  <2> HIDE DEF W
  <2>2. (((written + 1) % W) - moved) % W = ((written - moved) % W) + 1
    BY <1>3, <2>1, DistanceGrows
  <2>3. QED
    BY <1>1, <2>2 DEF Unread, Minus, W
<1>6. /\ k = (moved + Unread) % C
      /\ SlotsFrom(moved, Unread + 1, C) = SlotsFrom(moved, Unread, C) \cup {k}
      /\ k \notin SlotsFrom(moved, Unread, C)
  <2>1. k = (moved + Unread) % C
    BY <1>2, WriteSlot
  <2> HIDE DEF C, k, W
  <2>2. moved \in Int /\ Unread \in 0 .. C - 1
    BY <1>3, <1>4
  <2>3. QED
    BY <1>3, <2>1, <2>2, SlotsFromGrows
<1>7. k \in 0 .. C - 1
  <2> HIDE DEF C, k, W
  <2>1. moved + Unread \in Int
    BY <1>3
  <2>2. QED
    BY <1>3, <1>6, <2>1, DivMod
<1>8. Unreleased' = Unreleased /\ Available' = Available
  BY <1>1 DEF Unreleased, Available
<1>9. DOMAIN sbuffer_' = DOMAIN sbuffer_ /\ sbuffer_' \in [0 .. C - 1 -> Values \cup {NULL}]
  BY <1>1, <1>2, <1>7 DEF SpscShape
<1>10. C' = C
  BY <1>9, SpscSizeKept
<1>11. Batches'
  BY <1>1, <1>2, <1>3, <1>5, <1>8, <1>10 DEF Batches, SpscShape
<1>12. written' \in 0 .. W - 1
  <2> HIDE DEF W
  <2>1. written + 1 \in Int
    BY <1>3
  <2>2. QED
    BY <1>1, <1>3, <2>1, DivMod
<1>13. toWrite' \in Nat
  BY <1>1, <1>2 DEF SpscShape
<1>14. SpscShape'
  BY <1>1, <1>2, <1>9, <1>10, <1>12, <1>13 DEF SpscShape, Words
<1>15. ASSUME NEW i \in 0 .. C - 1
       PROVE  sbuffer_'[i] # NULL <=> i \in SlotsFrom(moved, Unread + 1, C)
  <2>1. x # NULL
    BY NullIsNoItem
  <2> HIDE DEF k
  <2>2. CASE i = k
    BY <1>1, <1>2, <1>6, <2>1, <2>2 DEF SpscShape
  <2>3. CASE i # k
    BY <1>1, <1>2, <1>6, <2>3 DEF SpscShape, Filled
  <2>4. QED
    BY <2>2, <2>3
<1>16. Filled'
  BY <1>1, <1>5, <1>10, <1>15 DEF Filled
<1>17. QED
  BY <1>4, <1>5, <1>6, <1>7, <1>11, <1>14, <1>16 DEF SpscInv

LEMMA MoveSpsc ==
  ASSUME SpscInv, SpscMove
  PROVE  /\ SpscInv' /\ Unread' = Unread - 1 /\ Unread > 0
         /\ moved' % spscCapacity = (moved + 1) % spscCapacity
<1> DEFINE W == wordCount
           C == spscCapacity
           k == Slot(moved)
<1>1. /\ UNCHANGED <<shead_, stail_, written, toWrite>> /\ toMove > 0
      /\ moved' = (moved + 1) % W /\ toMove' = toMove - 1
      /\ sbuffer_' = [sbuffer_ EXCEPT ![k] = NULL]
  BY DEF SpscMove, Plus
<1>2. SpscShape /\ Batches /\ Filled
  BY DEF SpscInv
<1>3. /\ W \in Nat \ {0} /\ written \in 0 .. W - 1 /\ moved \in 0 .. W - 1
      /\ shead_ \in 0 .. W - 1 /\ W % C = 0
      /\ C \in Nat \ {0} /\ C < W
      /\ Unread \in Nat /\ Unreleased \in Nat /\ Available \in Nat
  BY <1>2, SpscTypes DEF SpscShape, Words
<1>4. Unread > 0 /\ Unread <= C /\ Unreleased < C
  BY <1>1, <1>2, <1>3 DEF Batches, SpscShape
<1>5. Unread' = Unread - 1
  <2>1. (written - moved) % W > 0
    BY <1>3, <1>4 DEF Unread, Minus
  <2> HIDE DEF W
  <2>2. (written - ((moved + 1) % W)) % W = ((written - moved) % W) - 1
    BY <1>3, <2>1, DistanceShrinks
  <2>3. QED
    BY <1>1, <2>2 DEF Unread, Minus, W
<1>6. Unreleased' = Unreleased + 1
  <2>1. (moved - shead_) % W < W - 1
    BY <1>3, <1>4 DEF Unreleased, Minus
  <2> HIDE DEF W
  <2>2. (((moved + 1) % W) - shead_) % W = ((moved - shead_) % W) + 1
    BY <1>3, <2>1, DistanceGrows
  <2>3. QED
    BY <1>1, <2>2 DEF Unreleased, Minus, W
<1>7. moved' % C = (moved + 1) % C
  <2> HIDE DEF C, W
  <2>1. moved + 1 \in Int
    BY <1>3
  <2>2. QED
    BY <1>1, <1>3, <2>1, SlotOfWrapped
<1>8. moved' \in 0 .. W - 1 /\ k \in 0 .. C - 1
  <2> HIDE DEF W, C
  <2>1. moved + 1 \in Int /\ moved \in Int
    BY <1>3
  <2>2. QED
    BY <1>1, <1>3, <2>1, DivMod DEF Slot, C
<1>9. SlotsFrom(moved', Unread - 1, C) = SlotsFrom(moved, Unread, C) \ {k}
  <2>1. k = moved % C
    BY DEF Slot
  <2> HIDE DEF C, W, k
  <2>2. moved \in Int /\ Unread \in 1 .. C /\ moved' \in Int
    BY <1>3, <1>4, <1>8
  <2>3. SlotsFrom(moved + 1, Unread - 1, C) = SlotsFrom(moved, Unread, C) \ {k}
    BY <1>3, <2>1, <2>2, SlotsFromShrinks
  <2> DEFINE g == moved + 1
             n == Unread - 1
  <2>4. g \in Int /\ n \in Int /\ moved' % C = g % C
    BY <1>7, <2>2
  <2> HIDE DEF g, n
  <2>5. SlotsFrom(moved', n, C) = SlotsFrom(g, n, C)
    BY <1>3, <2>2, <2>4, SlotsFromSame
  <2>6. QED
    BY <2>3, <2>5 DEF g, n
<1>10. Available' = Available
  BY <1>1 DEF Available
<1>11. DOMAIN sbuffer_' = DOMAIN sbuffer_ /\ sbuffer_' \in [0 .. C - 1 -> Values \cup {NULL}]
  BY <1>1, <1>2, <1>8 DEF SpscShape
<1>12. C' = C
  BY <1>11, SpscSizeKept
<1>13. Batches'
  BY <1>1, <1>2, <1>3, <1>5, <1>6, <1>10, <1>12 DEF Batches, SpscShape
<1>14. toMove' \in Nat
  BY <1>1, <1>2 DEF SpscShape
<1>15. SpscShape'
  BY <1>1, <1>2, <1>8, <1>11, <1>12, <1>14 DEF SpscShape, Words
<1>16. ASSUME NEW i \in 0 .. C - 1
       PROVE  sbuffer_'[i] # NULL <=> i \in SlotsFrom(moved', Unread - 1, C)
  <2> HIDE DEF k
  <2>1. CASE i = k
    BY <1>1, <1>2, <1>9, <2>1 DEF SpscShape
  <2>2. CASE i # k
    BY <1>1, <1>2, <1>9, <2>2 DEF SpscShape, Filled
  <2>3. QED
    BY <2>1, <2>2
<1>17. Filled'
  BY <1>5, <1>12, <1>16 DEF Filled
<1>18. QED
  BY <1>4, <1>5, <1>7, <1>13, <1>15, <1>17 DEF SpscInv

LEMMA NextSpsc == SpscInv /\ [SpscNext]_spscVars => SpscInv'
<1> SUFFICES ASSUME SpscInv, [SpscNext]_spscVars PROVE SpscInv'
  OBVIOUS
<1>1. CASE UNCHANGED spscVars
  <2>1. UNCHANGED <<shead_, stail_, sbuffer_, written, moved, toWrite, toMove>>
    BY <1>1 DEF spscVars
  <2>2. /\ spscCapacity' = spscCapacity /\ Unread' = Unread /\ Unreleased' = Unreleased
        /\ Available' = Available /\ Filled'
    BY <2>1, SpscQuiet
  <2>3. SpscShape'
    BY <2>1, <2>2 DEF SpscInv, SpscShape, Words
  <2>4. Batches'
    BY <2>1, <2>2 DEF SpscInv, Batches
  <2>5. QED
    BY <2>2, <2>3, <2>4 DEF SpscInv
<1>2. CASE SpscNext
  BY <1>2, PushSpsc, PopSpsc, WriteSpsc, MoveSpsc, PublishSpsc, ReleaseSpsc DEF SpscNext
<1>3. QED
  BY <1>1, <1>2

LEMMA SpscInvExclusive == SpscInv => SlotExclusive
<1> SUFFICES ASSUME SpscInv PROVE SlotExclusive
  OBVIOUS
<1> DEFINE C == spscCapacity
           k == Slot(written)
           j == Slot(moved)
<1>1. SpscShape /\ Batches /\ Filled
  BY DEF SpscInv
<1>2. /\ C \in Nat \ {0} /\ moved \in Int /\ Unread \in Nat /\ Unreleased \in Nat
      /\ Available \in Nat /\ toWrite \in Nat /\ toMove \in Nat
  BY <1>1, SpscTypes DEF SpscShape, Words
<1>3. k = (moved + Unread) % C /\ j = moved % C
  BY <1>1, WriteSlot DEF Slot
<1>4. k \in 0 .. C - 1 /\ j \in 0 .. C - 1
  <2> HIDE DEF C, k, j
  <2>1. moved + Unread \in Int
    BY <1>2
  <2>2. QED
    BY <1>2, <1>3, <2>1, DivMod
<1>5. toWrite > 0 => k \notin SlotsFrom(moved, Unread, C)
  <2> SUFFICES ASSUME toWrite > 0 PROVE k \notin SlotsFrom(moved, Unread, C)
    OBVIOUS
  <2>1. Unread \in 0 .. C - 1
    BY <1>1, <1>2 DEF Batches
  <2> HIDE DEF C, k, j
  <2>2. QED
    BY <1>2, <1>3, <2>1, SlotsFromGrows
<1>6. toMove > 0 => j \in SlotsFrom(moved, Unread, C)
  <2> SUFFICES ASSUME toMove > 0 PROVE j \in SlotsFrom(moved, Unread, C)
    OBVIOUS
  <2>1. Unread \in 1 .. C
    BY <1>1, <1>2 DEF Batches
  <2> HIDE DEF C, k, j
  <2>2. QED
    BY <1>2, <1>3, <2>1, SlotsFromShrinks
<1>7. QED
  BY <1>1, <1>4, <1>5, <1>6 DEF SlotExclusive, Filled

(* Producer and consumer are never in the same slot of the SPSC ring, each *)
(* in the middle of a batch, at any capacity and wherever the indices wrap *)
(* around.                                                                 *)
THEOREM SpscSlotExclusive == SpscSpec => []SlotExclusive
  BY InitSpsc, NextSpsc, SpscInvExclusive, PTL DEF SpscSpec

-----------------------------------------------------------------------------
(* The unread items, oldest first: q of the refinement.                    *)
SpscContents == [k \in 1 .. Unread |-> sbuffer_[Slot(moved + k - 1)]]

LEMMA SpscContentsFilled ==
  ASSUME SpscInv, NEW k \in 1 .. Unread
  PROVE  /\ Slot(moved + k - 1) \in SlotsFrom(moved, Unread, spscCapacity)
         /\ Slot(moved + k - 1) \in 0 .. spscCapacity - 1
         /\ SpscContents[k] \in Values
<1> DEFINE C == spscCapacity
           i == Slot(moved + k - 1)
<1>1. C \in Nat \ {0} /\ moved \in Int /\ Unread \in Nat
  BY SpscTypes DEF SpscInv, SpscShape, Words
<1>2. k - 1 \in 0 .. Unread - 1 /\ moved + (k - 1) = moved + k - 1
  BY <1>1
<1>3. i \in SlotsFrom(moved, Unread, C)
  BY <1>2 DEF SlotsFrom, Slot
<1>4. i \in 0 .. C - 1
  <2> HIDE DEF C, i
  <2>1. SlotsFrom(moved, Unread, C) \subseteq 0 .. C - 1
    BY <1>1, SlotsFromInside
  <2>2. QED
    BY <1>3, <2>1
<1>5. sbuffer_[i] \in Values
  <2> HIDE DEF i
  <2>1. QED
    BY <1>3, <1>4 DEF SpscInv, SpscShape, Filled
<1>6. QED
  BY <1>3, <1>4, <1>5 DEF SpscContents

LEMMA SpscContentsType ==
  SpscInv => SpscContents \in Seq(Values) /\ Len(SpscContents) = Unread
<1> SUFFICES ASSUME SpscInv PROVE SpscContents \in Seq(Values) /\ Len(SpscContents) = Unread
  OBVIOUS
<1>1. Unread \in Nat
  BY SpscTypes DEF SpscInv, SpscShape, Words
<1>2. SpscContents \in [1 .. Unread -> Values]
  BY SpscContentsFilled DEF SpscContents
<1>3. QED
  BY <1>1, <1>2

LEMMA WriteAppends ==
  ASSUME SpscInv, NEW x \in Values, SpscWrite(x)
  PROVE  /\ SpscContents' = Append(SpscContents, x) /\ Unread < spscCapacity
         /\ spscCapacity' = spscCapacity
<1> DEFINE C == spscCapacity
           n == Unread
           h == Slot(written)
<1>1. /\ n < C /\ Unread' = n + 1 /\ h \in 0 .. C - 1
      /\ h \notin SlotsFrom(moved, n, C)
  BY WriteSpsc
<1>2. /\ C \in Nat \ {0} /\ n \in Nat /\ moved \in Int /\ moved' = moved
      /\ sbuffer_' = [sbuffer_ EXCEPT ![h] = x]
      /\ sbuffer_ \in [0 .. C - 1 -> Values \cup {NULL}]
  BY SpscTypes DEF SpscInv, SpscShape, Words, SpscWrite
<1>3. C' = C
  BY <1>2, SpscSizeKept
<1>4. h = (moved + n) % C
  BY WriteSlot DEF SpscInv
<1>5. \A p \in Int : Slot(p)' = Slot(p)
  BY <1>3 DEF Slot
<1>6. SpscContents' = [k \in 1 .. n + 1 |-> sbuffer_'[Slot(moved + k - 1)]]
  BY <1>1, <1>2, <1>3 DEF SpscContents, Slot
<1>7. ASSUME NEW k \in 1 .. n PROVE SpscContents'[k] = SpscContents[k]
  <2> DEFINE i == Slot(moved + k - 1)
  <2>1. i \in SlotsFrom(moved, n, C) /\ i \in 0 .. C - 1
    BY SpscContentsFilled
  <2>2. k \in 1 .. n + 1
    BY <1>2
  <2>3. SpscContents'[k] = sbuffer_'[i]
    BY <1>6, <2>2
  <2>4. SpscContents[k] = sbuffer_[i]
    BY DEF SpscContents
  <2> HIDE DEF i, h, C, n
  <2>5. QED
    BY <1>1, <1>2, <2>1, <2>3, <2>4
<1>8. SpscContents'[n + 1] = x
  <2>1. moved + (n + 1) - 1 = moved + n /\ n + 1 \in 1 .. n + 1
    BY <1>2
  <2>2. SpscContents'[n + 1] = sbuffer_'[h]
    BY <1>4, <1>6, <2>1 DEF Slot
  <2> HIDE DEF h, C
  <2>3. QED
    BY <1>1, <1>2, <2>2
<1>9. SpscContents \in Seq(Values) /\ Len(SpscContents) = n
  BY SpscContentsType
<1>10. SpscContents' = [k \in 1 .. n + 1 |-> SpscContents'[k]]
  BY <1>6
<1>11. SpscContents' = Append(SpscContents, x)
  BY <1>7, <1>8, <1>9, <1>10, IsAppend
<1>12. QED
  BY <1>1, <1>3, <1>11

LEMMA MoveTakesHead ==
  ASSUME SpscInv, SpscMove
  PROVE  /\ SpscContents # <<>> /\ got' = Head(SpscContents)
         /\ SpscContents' = Tail(SpscContents)
         /\ spscCapacity' = spscCapacity
<1> DEFINE C == spscCapacity
           n == Unread
           h == Slot(moved)
<1>1. n > 0 /\ Unread' = n - 1 /\ moved' % C = (moved + 1) % C /\ SpscInv'
  BY MoveSpsc
<1>2. /\ C \in Nat \ {0} /\ n \in Nat /\ moved \in Int
      /\ sbuffer_' = [sbuffer_ EXCEPT ![h] = NULL] /\ got' = sbuffer_[h]
      /\ sbuffer_ \in [0 .. C - 1 -> Values \cup {NULL}]
  BY SpscTypes DEF SpscInv, SpscShape, Words, SpscMove
<1>3. C' = C
  BY <1>2, SpscSizeKept
<1>4. moved' \in Int /\ n <= C
  <2>1. moved' \in Int
    BY <1>1 DEF SpscInv, SpscShape, Words
  <2>2. Unreleased \in Nat /\ toWrite \in Nat
    BY SpscTypes DEF SpscInv, SpscShape, Words
  <2>3. n <= C
    BY <1>2, <2>2 DEF SpscInv, Batches
  <2>4. QED
    BY <2>1, <2>3
<1>5. SpscContents' = [k \in 1 .. n - 1 |-> sbuffer_'[(moved' + k - 1) % C]]
  BY <1>1, <1>3 DEF SpscContents, Slot
<1>6. ASSUME NEW k \in 1 .. n - 1 PROVE SpscContents'[k] = SpscContents[k + 1]
  <2> DEFINE p == moved + k
  <2>1. k + 1 \in 1 .. n /\ moved + (k + 1) - 1 = p
    BY <1>2
  <2>2. SpscContents[k + 1] = sbuffer_[p % C] /\ p % C \in 0 .. C - 1
    BY <2>1, SpscContentsFilled DEF SpscContents, Slot
  <2>3. (moved' + k - 1) % C = p % C
    <3> DEFINE m == moved'
               g == moved + 1
               e == k - 1
    <3>1. m \in Int /\ g \in Int /\ e \in Int /\ m % C = g % C /\ g + e = p /\ m + k - 1 = m + e
      BY <1>1, <1>2, <1>4
    <3> HIDE DEF m, g, e, C, p
    <3>2. ((m % C) + e) % C = (m + e) % C /\ ((g % C) + e) % C = (g + e) % C
      BY <1>2, <3>1, ModPlus
    <3>3. QED
      BY <3>1, <3>2 DEF m
  <2>4. SpscContents'[k] = sbuffer_'[p % C]
    BY <1>5, <2>3
  <2>5. p % C # h
    <3>1. h = moved % C /\ p \in Int /\ p < moved + C /\ moved < p + C /\ p # moved
      BY <1>2, <1>4 DEF Slot
    <3> HIDE DEF C, p, h
    <3>2. QED
      BY <1>2, <3>1, SlotsDistinct
  <2> HIDE DEF C, p, h
  <2>6. QED
    BY <1>2, <2>2, <2>4, <2>5
<1>7. SpscContents[1] = sbuffer_[h]
  <2>1. moved + 1 - 1 = moved /\ 1 \in 1 .. n
    BY <1>1, <1>2
  <2>2. QED
    BY <2>1 DEF SpscContents
<1>8. SpscContents \in Seq(Values) /\ Len(SpscContents) = n
  BY SpscContentsType
<1>9. SpscContents' = [k \in 1 .. n - 1 |-> SpscContents'[k]]
  BY <1>5
<1> DEFINE r == SpscContents'
           s == SpscContents
<1>10. /\ s \in Seq(Values) /\ Len(s) > 0 /\ r = [k \in 1 .. Len(s) - 1 |-> r[k]]
       /\ \A k \in 1 .. Len(s) - 1 : r[k] = s[k + 1]
  BY <1>1, <1>6, <1>8, <1>9
<1> HIDE DEF r, s
<1>11. r = Tail(s) /\ s # <<>> /\ Head(s) = s[1]
  BY <1>10, IsTail
<1>12. QED
  BY <1>2, <1>3, <1>7, <1>11 DEF r, s

(* Neither side's step but the write and the move changes the contents.    *)
LEMMA SpscSilent ==
  ASSUME UNCHANGED <<sbuffer_, written, moved, got>>
  PROVE  SpscContents' = SpscContents /\ spscCapacity' = spscCapacity
<1>1. spscCapacity' = spscCapacity
  BY DEF spscCapacity
<1>2. Unread' = Unread
  BY DEF Unread
<1>3. QED
  BY <1>1, <1>2 DEF SpscContents, Slot

(* SPSCRingBuffer is a bounded FIFO: batches that overlap in time neither  *)
(* drop, repeat nor reorder an item.                                       *)
THEOREM SpscRefinesFifo == SpscSpec => SpscImplementsFifo
<1> USE DEF Unread
<1>1. SpscInit => SpscFifo!Init
  <2> SUFFICES ASSUME SpscInit PROVE SpscFifo!Init
    OBVIOUS
  <2>1. SpscInv
    BY InitSpsc
  <2>2. Unread = 0
    <3> DEFINE W == wordCount
    <3>1. W \in Nat \ {0}
      BY <2>1, SpscTypes DEF SpscInv
    <3> HIDE DEF W
    <3>2. QED
      BY <3>1, ModSmall DEF Unread, Minus, W, SpscInit
  <2>3. SpscContents = <<>>
    BY <2>2 DEF SpscContents
  <2>4. spscCapacity \in Nat \ {0}
    BY <2>1, SpscTypes DEF SpscInv
  <2>5. QED
    BY <2>3, <2>4 DEF SpscInit, SpscFifo!Init, SpscContents
<1>2. SpscInv /\ [SpscNext]_spscVars => [SpscFifo!Next]_SpscFifo!fifoVars
  <2> SUFFICES ASSUME SpscInv, [SpscNext]_spscVars
               PROVE  [SpscFifo!Next]_SpscFifo!fifoVars
    OBVIOUS
  <2>1. ASSUME NEW x \in Values, SpscWrite(x) PROVE SpscFifo!Push(x)
    <3>1. /\ Len(SpscContents) < spscCapacity /\ SpscContents' = Append(SpscContents, x)
          /\ spscCapacity' = spscCapacity /\ got' = got
      BY <2>1, WriteAppends, SpscContentsType DEF SpscWrite
    <3>2. QED
      BY <3>1 DEF SpscFifo!Push, SpscContents
  <2>2. ASSUME SpscMove PROVE SpscFifo!Pop("consumer")
    <3>1. /\ SpscContents # <<>> /\ got' = Head(SpscContents)
          /\ SpscContents' = Tail(SpscContents) /\ spscCapacity' = spscCapacity
      BY <2>2, MoveTakesHead
    <3>2. QED
      BY <3>1 DEF SpscFifo!Pop, SpscContents
  <2>3. ASSUME UNCHANGED <<sbuffer_, written, moved, got>> PROVE UNCHANGED SpscFifo!fifoVars
    BY <2>3, SpscSilent DEF SpscFifo!fifoVars, SpscContents
  <2>4. ASSUME NEW n \in 1 .. MaxSpscBatch, TryPush(n) \/ TryPop(n)
        PROVE  UNCHANGED SpscFifo!fifoVars
    BY <2>3, <2>4 DEF TryPush, TryPop
  <2>5. CASE SpscPublish \/ SpscRelease
    BY <2>3, <2>5 DEF SpscPublish, SpscRelease
  <2>6. CASE UNCHANGED spscVars
    BY <2>3, <2>6 DEF spscVars
  <2>7. QED
    BY <2>1, <2>2, <2>4, <2>5, <2>6 DEF SpscNext, SpscFifo!Next
<1>3. QED
  BY <1>1, <1>2, InitSpsc, NextSpsc, PTL DEF SpscSpec, SpscImplementsFifo, SpscFifo!Spec

-----------------------------------------------------------------------------
(* MemoryPool: the elements of a list of tasks, and a list without         *)
(* repetition.                                                             *)
Listed(s) == {s[i] : i \in 1 .. Len(s)}
NoRepeat(s) == \A i, j \in 1 .. Len(s) : s[i] = s[j] => i = j

PoolShape ==
  /\ blocks_ \in Seq(Nat) /\ initial_capacity_ \in Nat
  /\ free_ \in Seq(PoolTasks)
  /\ held \in [Consumers -> SUBSET PoolTasks]
  /\ releasing \in [Consumers -> PoolTasks \cup {NULL}]

(* A task with a function is in somebody's hands: release() resets it      *)
(* before it is on its way back.                                           *)
ArmedHeld == armed \subseteq Held

PoolInv == PoolShape /\ ArmedHeld /\ OneHolder

LEMMA PoolTask ==
  ASSUME blocks_ \in Seq(Nat)
  PROVE  \A t : t \in PoolTasks <=>
           \E b \in 1 .. Len(blocks_) : \E k \in 1 .. blocks_[b] : t = <<b, k>>
  BY DEF PoolTasks

LEMMA TaskNotNull == ASSUME blocks_ \in Seq(Nat) PROVE NULL \notin PoolTasks
<1>1. Len(blocks_) \in Nat /\ \A b \in 1 .. Len(blocks_) : blocks_[b] \in Nat
  OBVIOUS
<1>2. PoolTasks \subseteq Nat \X Nat
  BY <1>1, PoolTask
<1>3. QED
  BY <1>2, NullIsNoTask

LEMMA InitPool == PoolInit => PoolInv
<1> SUFFICES ASSUME PoolInit PROVE PoolInv
  OBVIOUS
<1> DEFINE n == initial_capacity_
<1>1. n \in Nat /\ blocks_ = <<n>> /\ free_ = [k \in 1 .. n |-> <<1, k>>]
  BY PoolSizes DEF PoolInit
<1>2. blocks_ \in Seq(Nat) /\ Len(blocks_) = 1 /\ blocks_[1] = n
  BY <1>1
<1>3. \A t : t \in PoolTasks <=> \E k \in 1 .. n : t = <<1, k>>
  <2>1. 1 .. Len(blocks_) = {1}
    BY <1>2
  <2>2. QED
    BY <1>2, <2>1, PoolTask
<1>4. free_ \in Seq(PoolTasks) /\ Len(free_) = n
  <2>1. free_ \in [1 .. n -> PoolTasks]
    BY <1>1, <1>3
  <2>2. QED
    BY <1>1, <2>1
<1>5. Listed(free_) = PoolTasks
  BY <1>1, <1>3, <1>4 DEF Listed
<1>6. NoRepeat(free_)
  BY <1>1, <1>4 DEF NoRepeat
<1>7. Held = {} /\ Releasing = {}
  BY DEF Held, Releasing, PoolInit
<1>8. PoolShape
  BY <1>1, <1>2, <1>4 DEF PoolShape, PoolInit
<1>9. OneHolder
  <2>1. \A c, e \in Consumers : held[c] = {} /\ releasing[c] = NULL
    BY DEF PoolInit
  <2>2. armed = {}
    BY DEF PoolInit
  <2>3. QED
    BY <1>5, <1>6, <1>7, <2>1, <2>2 DEF OneHolder, Listed, NoRepeat
<1>10. ArmedHeld
  BY DEF ArmedHeld, PoolInit
<1>11. QED
  BY <1>8, <1>9, <1>10 DEF PoolInv

(* The hands of the consumers are disjoint.                                *)
Apart ==
  /\ \A c, e \in Consumers : c # e => /\ held[c] \cap held[e] = {}
                                      /\ releasing[c] # NULL => releasing[c] # releasing[e]
  /\ Held \cap Releasing = {}

LEMMA HolderParts ==
  OneHolder <=> /\ NoRepeat(free_) /\ Apart
                /\ Listed(free_) = PoolTasks \ (Held \cup Releasing)
                /\ \A i \in 1 .. Len(free_) : free_[i] \notin armed
  BY DEF OneHolder, NoRepeat, Apart, Listed

(* acquire() takes the last task of the list s, be it the free list or     *)
(* that of a new block.                                                    *)
LEMMA TakesLast ==
  ASSUME PoolShape, ArmedHeld, Apart, NEW c \in Consumers,
         blocks_' \in Seq(Nat), UNCHANGED <<initial_capacity_, releasing, armed>>,
         PoolTasks \subseteq PoolTasks',
         NEW s \in Seq(PoolTasks'), Len(s) > 0, NoRepeat(s),
         Listed(s) = PoolTasks' \ (Held \cup Releasing),
         TakeFrom(c, s)
  PROVE  PoolInv'
<1> DEFINE n == Len(s)
           t == s[n]
<1>1. n \in Nat \ {0} /\ t \in PoolTasks' /\ t \notin Held /\ t \notin Releasing
  BY DEF Listed
<1>2. /\ free_' = SubSeq(s, 1, n - 1)
      /\ held' = [held EXCEPT ![c] = @ \cup {t}]
  BY DEF TakeFrom, PopFree
<1>3. free_' \in Seq(PoolTasks') /\ Len(free_') = n - 1 /\ \A i \in 1 .. n - 1 : free_'[i] = s[i]
  <2>1. 1 \in Int /\ n - 1 \in Int /\ \A i \in 1 .. n - 1 : s[i] \in PoolTasks'
    BY <1>1
  <2> HIDE DEF n
  <2>2. /\ SubSeq(s, 1, n - 1) \in Seq(PoolTasks')
        /\ Len(SubSeq(s, 1, n - 1)) = n - 1
        /\ \A i \in 1 .. n - 1 : SubSeq(s, 1, n - 1)[i] = s[i]
    BY <1>1, <2>1
  <2>3. QED
    BY <1>2, <2>2
<1>4. held' \in [Consumers -> SUBSET PoolTasks']
  BY <1>1, <1>2 DEF PoolShape
<1>5. PoolShape'
  BY <1>3, <1>4 DEF PoolShape
<1>6. Held' = Held \cup {t} /\ Releasing' = Releasing
  BY <1>2 DEF Held, Releasing, PoolShape
<1>7. ArmedHeld'
  BY <1>6 DEF ArmedHeld
<1>8. Apart'
  <2>1. \A e \in Consumers : held'[e] = IF e = c THEN held[c] \cup {t} ELSE held[e]
    BY <1>2 DEF PoolShape
  <2>2. \A e \in Consumers : t \notin held[e]
    BY <1>1 DEF Held
  <2>3. ASSUME NEW d \in Consumers, NEW e \in Consumers, d # e PROVE held'[d] \cap held'[e] = {}
    BY <2>1, <2>2, <2>3 DEF Apart
  <2>4. Held' \cap Releasing' = {}
    BY <1>1, <1>6 DEF Apart
  <2>5. QED
    BY <2>3, <2>4 DEF Apart
<1>9. NoRepeat(free_')
  BY <1>1, <1>3 DEF NoRepeat
<1>10. Listed(free_') = PoolTasks' \ (Held' \cup Releasing')
  <2>1. Listed(free_') = Listed(s) \ {t}
    <3>1. ASSUME NEW i \in 1 .. n - 1 PROVE free_'[i] \in Listed(s) \ {t}
      <4>1. i \in 1 .. n /\ n \in 1 .. n /\ i # n
        BY <1>1
      <4>2. s[i] # t /\ s[i] \in Listed(s)
        BY <4>1 DEF Listed, NoRepeat
      <4>3. QED
        BY <1>3, <4>2
    <3>2. \A i \in 1 .. n : i = n \/ i \in 1 .. n - 1
      BY <1>1
    <3>3. QED
      BY <1>3, <3>1, <3>2, ZenonT(40) DEF Listed
  <2>2. QED
    BY <1>6, <2>1
<1>11. \A i \in 1 .. Len(free_') : free_'[i] \notin armed'
  <2>1. \A i \in 1 .. Len(free_') : free_'[i] \notin Held
    BY <1>6, <1>10 DEF Listed
  <2>2. QED
    BY <2>1 DEF ArmedHeld
<1>12. OneHolder'
  BY <1>8, <1>9, <1>10, <1>11 DEF OneHolder, NoRepeat, Apart, Listed
<1>13. QED
  BY <1>5, <1>7, <1>12 DEF PoolInv

LEMMA AcquirePool == ASSUME PoolInv, NEW c \in Consumers, Acquire(c) PROVE PoolInv'
<1>1. /\ PoolShape /\ ArmedHeld /\ Apart /\ NoRepeat(free_)
      /\ Listed(free_) = PoolTasks \ (Held \cup Releasing)
      /\ blocks_ \in Seq(Nat)
  BY HolderParts DEF PoolInv, PoolShape
<1>2. UNCHANGED <<initial_capacity_, releasing, armed>>
  BY DEF Acquire
<1>3. CASE ~Exhausted /\ TakeFrom(c, free_) /\ UNCHANGED blocks_
  <2>1. PoolTasks' = PoolTasks
    BY <1>3 DEF PoolTasks
  <2>2. Len(free_) > 0 /\ free_ \in Seq(PoolTasks')
    BY <1>1, <1>3, <2>1 DEF Exhausted, PoolShape
  <2>3. QED
    BY <1>1, <1>2, <1>3, <2>1, <2>2, TakesLast
<1>4. CASE /\ Exhausted /\ TakeFrom(c, Added(grow)) /\ blocks_' = Append(blocks_, grow)
  <2> DEFINE n == Len(blocks_)
             s == Added(grow)
  <2>1. grow \in Nat \ {0}
    BY <1>1, PoolSizes DEF grow, PoolShape
  <2>2. /\ n \in Nat /\ blocks_' \in Seq(Nat) /\ Len(blocks_') = n + 1
        /\ blocks_'[n + 1] = grow /\ \A b \in 1 .. n : blocks_'[b] = blocks_[b]
    BY <1>1, <1>4, <2>1
  <2>3. 1 .. n + 1 = (1 .. n) \cup {n + 1} /\ n + 1 \notin 1 .. n
    BY <2>2
  <2>4. \A t : t \in PoolTasks <=> \E b \in 1 .. n : \E k \in 1 .. blocks_[b] : t = <<b, k>>
    BY <1>1, PoolTask
  <2>5. \A t : t \in PoolTasks' <=>
             \E b \in 1 .. n + 1 : \E k \in 1 .. blocks_'[b] : t = <<b, k>>
    BY <2>2 DEF PoolTasks
  <2>6. \A t : t \in PoolTasks' <=> t \in PoolTasks \/ \E k \in 1 .. grow : t = <<n + 1, k>>
    BY <2>2, <2>3, <2>4, <2>5
  <2>7. s = [k \in 1 .. grow |-> <<n + 1, k>>]
    BY DEF Added
  <2>8. s \in [1 .. grow -> PoolTasks']
    BY <2>6, <2>7
  <2>9. s \in Seq(PoolTasks') /\ Len(s) = grow
    BY <2>1, <2>7, <2>8
  <2>10. NoRepeat(s)
    <3> SUFFICES ASSUME NEW i \in 1 .. grow, NEW j \in 1 .. grow, s[i] = s[j] PROVE i = j
      BY <2>9 DEF NoRepeat
    <3>1. <<n + 1, i>> = <<n + 1, j>>
      BY <2>7
    <3>2. QED
      BY <3>1
  <2>11. Listed(s) = PoolTasks' \ PoolTasks
    <3>1. \A k \in 1 .. grow : <<n + 1, k>> \notin PoolTasks
      BY <2>3, <2>4
    <3>2. QED
      BY <2>6, <2>7, <2>9, <3>1 DEF Listed
  <2>12. PoolTasks = Held \cup Releasing
    <3>1. Listed(free_) = {}
      BY <1>4 DEF Exhausted, Listed
    <3>2. Held \subseteq PoolTasks /\ Releasing \subseteq PoolTasks
      BY <1>1 DEF Held, Releasing, PoolShape
    <3>3. QED
      BY <1>1, <3>1, <3>2
  <2>13. PoolTasks \subseteq PoolTasks' /\ Len(s) > 0 /\ TakeFrom(c, s)
         /\ Listed(s) = PoolTasks' \ (Held \cup Releasing)
    BY <1>4, <2>1, <2>6, <2>9, <2>11, <2>12
  <2> HIDE DEF s, n
  <2>14. QED
    BY <1>1, <1>2, <2>2, <2>9, <2>10, <2>13, TakesLast
<1>5. QED
  BY <1>3, <1>4 DEF Acquire

LEMMA ResetPool ==
  ASSUME PoolInv, NEW c \in Consumers, NEW t \in held[c], ReleaseReset(c, t)
  PROVE  PoolInv'
<1>1. /\ PoolShape /\ ArmedHeld /\ Apart /\ NoRepeat(free_)
      /\ Listed(free_) = PoolTasks \ (Held \cup Releasing)
      /\ \A i \in 1 .. Len(free_) : free_[i] \notin armed
  BY HolderParts DEF PoolInv
<1>2. /\ UNCHANGED <<blocks_, initial_capacity_, free_>> /\ releasing[c] = NULL
      /\ armed' = armed \ {t}
      /\ releasing' = [releasing EXCEPT ![c] = t]
      /\ held' = [held EXCEPT ![c] = @ \ {t}]
  BY DEF ReleaseReset, TaskReset
<1>3. PoolTasks' = PoolTasks /\ NULL \notin PoolTasks
  BY <1>1, <1>2, TaskNotNull DEF PoolTasks, PoolShape
<1>4. t \in PoolTasks /\ t \in Held
  BY <1>1 DEF PoolShape, Held
<1>5. held' \in [Consumers -> SUBSET PoolTasks']
  BY <1>1, <1>2, <1>3 DEF PoolShape
<1>6. releasing' \in [Consumers -> PoolTasks' \cup {NULL}]
  BY <1>1, <1>2, <1>3, <1>4 DEF PoolShape
<1>7. PoolShape'
  BY <1>1, <1>2, <1>3, <1>5, <1>6 DEF PoolShape
<1>8. \A e \in Consumers : /\ held'[e] = IF e = c THEN held[c] \ {t} ELSE held[e]
                           /\ releasing'[e] = IF e = c THEN t ELSE releasing[e]
  BY <1>1, <1>2 DEF PoolShape
<1>9. \A e \in Consumers : e # c => t \notin held[e]
  BY <1>1 DEF Apart
<1>10. Held' = Held \ {t}
  BY <1>8, <1>9 DEF Held
<1>11. Releasing' = Releasing \cup {t}
  <2>1. t # NULL
    BY <1>3, <1>4
  <2>2. QED
    BY <1>2, <1>8, <2>1 DEF Releasing
<1>12. ArmedHeld'
  BY <1>1, <1>2, <1>10 DEF ArmedHeld
<1>13. Apart'
  <2>1. t \notin Releasing
    BY <1>1, <1>4 DEF Apart
  <2>2. \A e \in Consumers : releasing[e] # t
    BY <1>3, <1>4, <2>1 DEF Releasing
  <2>3. \A d, e \in Consumers : d # e => held'[d] \cap held'[e] = {}
    BY <1>1, <1>8 DEF Apart
  <2>4. \A d, e \in Consumers : d # e => (releasing'[d] # NULL => releasing'[d] # releasing'[e])
    BY <1>1, <1>8, <2>2 DEF Apart
  <2>5. Held' \cap Releasing' = {}
    BY <1>1, <1>10, <1>11 DEF Apart
  <2>6. QED
    BY <2>3, <2>4, <2>5 DEF Apart
<1>14. Listed(free_') = PoolTasks' \ (Held' \cup Releasing')
  BY <1>1, <1>2, <1>3, <1>4, <1>10, <1>11
<1>15. OneHolder'
  BY <1>1, <1>2, <1>13, <1>14 DEF OneHolder, NoRepeat, Apart, Listed
<1>16. QED
  BY <1>7, <1>12, <1>15 DEF PoolInv

LEMMA PushPool == ASSUME PoolInv, NEW c \in Consumers, ReleasePush(c) PROVE PoolInv'
<1> DEFINE t == releasing[c]
           n == Len(free_)
<1>1. /\ PoolShape /\ ArmedHeld /\ Apart /\ NoRepeat(free_)
      /\ Listed(free_) = PoolTasks \ (Held \cup Releasing)
      /\ \A i \in 1 .. Len(free_) : free_[i] \notin armed
  BY HolderParts DEF PoolInv
<1>2. /\ UNCHANGED <<blocks_, initial_capacity_, held, armed>> /\ t # NULL
      /\ free_' = Append(free_, t)
      /\ releasing' = [releasing EXCEPT ![c] = NULL]
  BY DEF ReleasePush
<1>3. PoolTasks' = PoolTasks /\ Held' = Held
  BY <1>2 DEF PoolTasks, Held
<1>4. t \in PoolTasks /\ t \in Releasing /\ t \notin Held
  BY <1>1, <1>2 DEF PoolShape, Releasing, Apart
<1>5. releasing' \in [Consumers -> PoolTasks' \cup {NULL}]
  BY <1>1, <1>2, <1>3 DEF PoolShape
<1>6. /\ n \in Nat /\ free_' \in Seq(PoolTasks) /\ Len(free_') = n + 1
      /\ free_'[n + 1] = t /\ \A i \in 1 .. n : free_'[i] = free_[i]
  BY <1>1, <1>2, <1>4 DEF PoolShape
<1>7. PoolShape'
  BY <1>1, <1>2, <1>3, <1>5, <1>6 DEF PoolShape
<1>8. \A e \in Consumers : releasing'[e] = IF e = c THEN NULL ELSE releasing[e]
  BY <1>1, <1>2 DEF PoolShape
<1>9. \A e \in Consumers : e # c => releasing[e] # t
  BY <1>1, <1>2 DEF Apart
<1>10. Releasing' = Releasing \ {t}
  BY <1>8, <1>9 DEF Releasing
<1>11. ArmedHeld'
  BY <1>1, <1>2, <1>3 DEF ArmedHeld
<1>12. Apart'
  BY <1>1, <1>2, <1>3, <1>8, <1>10 DEF Apart
<1>13. t \notin Listed(free_) /\ t \notin armed
  BY <1>1, <1>4 DEF ArmedHeld
<1>14. 1 .. n + 1 = (1 .. n) \cup {n + 1}
  BY <1>6
<1>15. NoRepeat(free_')
  <2>1. \A i \in 1 .. n : free_'[i] # t
    BY <1>6, <1>13 DEF Listed
  <2>2. QED
    BY <1>1, <1>6, <1>14, <2>1 DEF NoRepeat
<1>16. Listed(free_') = Listed(free_) \cup {t}
  BY <1>6, <1>14 DEF Listed
<1>17. Listed(free_') = PoolTasks' \ (Held' \cup Releasing')
  BY <1>1, <1>3, <1>4, <1>10, <1>16
<1>18. \A i \in 1 .. Len(free_') : free_'[i] \notin armed'
  BY <1>1, <1>2, <1>6, <1>13, <1>14
<1>19. OneHolder'
  BY <1>12, <1>15, <1>17, <1>18 DEF OneHolder, NoRepeat, Apart, Listed
<1>20. QED
  BY <1>7, <1>11, <1>19 DEF PoolInv

LEMMA NextPool == PoolInv /\ [PoolNext]_poolVars => PoolInv'
<1> SUFFICES ASSUME PoolInv, [PoolNext]_poolVars PROVE PoolInv'
  OBVIOUS
<1>1. CASE UNCHANGED poolVars
  <2>1. UNCHANGED <<blocks_, initial_capacity_, free_, held, releasing, armed>>
    BY <1>1 DEF poolVars
  <2>2. PoolTasks' = PoolTasks /\ Held' = Held /\ Releasing' = Releasing
    BY <2>1 DEF PoolTasks, Held, Releasing
  <2>3. QED
    BY <2>1, <2>2 DEF PoolInv, PoolShape, ArmedHeld, OneHolder
<1>2. ASSUME NEW c \in Consumers, NEW t \in held[c], SetFunction(c, t) PROVE PoolInv'
  <2>1. /\ UNCHANGED <<blocks_, initial_capacity_, free_, held, releasing>>
        /\ armed' = armed \cup {t}
    BY <1>2 DEF SetFunction
  <2>2. PoolTasks' = PoolTasks /\ Held' = Held /\ Releasing' = Releasing
    BY <2>1 DEF PoolTasks, Held, Releasing
  <2>3. t \in Held
    BY <1>2 DEF Held
  <2>4. PoolShape' /\ ArmedHeld'
    BY <2>1, <2>2, <2>3 DEF PoolInv, PoolShape, ArmedHeld
  <2>5. /\ NoRepeat(free_) /\ Apart
        /\ Listed(free_) = PoolTasks \ (Held \cup Releasing)
        /\ \A i \in 1 .. Len(free_) : free_[i] \notin armed
    BY HolderParts DEF PoolInv
  <2>6. Apart'
    BY <2>1, <2>2, <2>5 DEF Apart
  <2>7. \A i \in 1 .. Len(free_) : free_[i] # t
    BY <2>3, <2>5 DEF Listed
  <2>8. OneHolder'
    BY <2>1, <2>2, <2>5, <2>6, <2>7 DEF OneHolder, NoRepeat, Apart, Listed
  <2>9. QED
    BY <2>4, <2>8 DEF PoolInv
<1>3. CASE PoolNext
  BY <1>1, <1>2, <1>3, AcquirePool, ResetPool, PushPool DEF PoolNext, AcquireFails
<1>4. QED
  BY <1>1, <1>3

(* Whatever the sizes and however the holders' calls interleave, a task is *)
(* free or with one holder, on the free list once, and a free task has no  *)
(* function left from its last holder.                                     *)
THEOREM PoolOneHolder == PoolSpec => []OneHolder
<1>1. PoolInv => OneHolder
  BY DEF PoolInv
<1>2. QED
  BY <1>1, InitPool, NextPool, PTL DEF PoolSpec

-----------------------------------------------------------------------------
Sinks == Setters \cup {NULL}

TraceShape ==
  /\ setter \in [Setters -> [at : {"idle", "first", "second"}, sink : Sinks]]
  /\ pending \in [Producers -> [at : {"new", "flag", "sink", "id", "queued", "refused", "callback", "done"},
                                sink : Sinks, id : Nat \cup {NULL}]]
  /\ trace_sink \in Sinks
  /\ counter \in Nat
  /\ DOMAIN replaced = Setters /\ DOMAIN usable = Producers

(* A call that has made the first of its two stores.                       *)
SinkStored(s) == setter[s].at = "second" /\ setter[s].sink # NULL
FlagStored(s) == setter[s].at = "second" /\ setter[s].sink = NULL

(* The call whose store of the sink is in force has not returned, or it    *)
(* stands and no call that has stored its own sink since will replace it.  *)
SinkHasCall ==
  \/ \E s \in Setters : SinkStored(s) /\ setter[s].sink = trace_sink
  \/ \E c \in standing : /\ c[2] = trace_sink
                         /\ \A r \in Setters : SinkStored(r) => c \notin replaced[r]

(* The same of the flag, while it is down.                                 *)
FlagHasCall ==
  ~trace_enabled =>
    \/ \E s \in Setters : FlagStored(s)
    \/ \E c \in standing : /\ c[2] = NULL
                           /\ \A r \in Setters : FlagStored(r) => c \notin replaced[r]

(* A submit may see what is in force and what the calls beside it store.   *)
SubmitMaySee ==
  \A p \in Producers : InSubmit(p) =>
    /\ trace_sink \in usable[p]
    /\ ~trace_enabled => NULL \in usable[p]
    /\ \A s \in Setters : setter[s].at # "idle" => setter[s].sink \in usable[p]

SubmitHolds ==
  \A p \in Producers :
    /\ pending[p].at \in {"new", "flag", "sink"} => pending[p].sink = NULL
    /\ pending[p].at \in {"id", "queued"} => pending[p].sink \in usable[p]

SinkInv == TraceShape /\ SinkHasCall /\ FlagHasCall /\ SubmitMaySee /\ SubmitHolds

LEMMA InitSink == TraceInit => SinkInv
<1> SUFFICES ASSUME TraceInit PROVE SinkInv
  OBVIOUS
<1>1. TraceShape
  BY DEF TraceInit, TraceShape, Sinks
<1>2. <<"constructor", NULL>> \in standing /\ <<"constructor", NULL>>[2] = NULL
      /\ \A s \in Setters : setter[s].at = "idle"
  BY DEF TraceInit
<1>3. SinkHasCall /\ FlagHasCall
  BY <1>2 DEF TraceInit, SinkHasCall, FlagHasCall, SinkStored, FlagStored
<1>4. \A p \in Producers : pending[p].at = "new" /\ pending[p].sink = NULL
  BY DEF TraceInit
<1>5. SubmitMaySee /\ SubmitHolds
  BY <1>4 DEF SubmitMaySee, SubmitHolds, InSubmit
<1>6. QED
  BY <1>1, <1>3, <1>5 DEF SinkInv

(* setTraceSink: the call begins.                                          *)
LEMMA CallSink ==
  ASSUME SinkInv, NEW s \in Setters, NEW k \in {s, NULL}, SetCall(s, k)
  PROVE  SinkInv'
<1>0. TraceShape /\ SinkHasCall /\ FlagHasCall /\ SubmitMaySee /\ SubmitHolds
  BY DEF SinkInv
<1>1. /\ UNCHANGED <<trace_enabled, trace_sink, counter, pending, reports, standing>>
      /\ setter[s].at = "idle" /\ k \in Sinks
      /\ setter' = [setter EXCEPT ![s] = [at |-> "first", sink |-> k]]
      /\ replaced' = [replaced EXCEPT ![s] = standing]
      /\ usable' = [p \in Producers |-> usable[p] \cup (IF InSubmit(p) THEN {k} ELSE {})]
  BY DEF SetCall, Sinks
<1>2. \A r \in Setters : /\ setter'[r].at = IF r = s THEN "first" ELSE setter[r].at
                         /\ setter'[r].sink = IF r = s THEN k ELSE setter[r].sink
                         /\ replaced'[r] = IF r = s THEN standing ELSE replaced[r]
  BY <1>0, <1>1 DEF TraceShape
<1>3. TraceShape'
  <2>1. setter' \in [Setters -> [at : {"idle", "first", "second"}, sink : Sinks]]
    BY <1>0, <1>1 DEF TraceShape
  <2>2. DOMAIN replaced' = Setters /\ DOMAIN usable' = Producers
    BY <1>0, <1>1 DEF TraceShape
  <2>3. QED
    BY <1>0, <1>1, <2>1, <2>2 DEF TraceShape
<1>4. \A r \in Setters : /\ SinkStored(r)' <=> SinkStored(r)
                         /\ FlagStored(r)' <=> FlagStored(r)
                         /\ SinkStored(r) \/ FlagStored(r) => r # s
  BY <1>1, <1>2 DEF SinkStored, FlagStored
<1>5. SinkHasCall'
  BY <1>0, <1>1, <1>2, <1>4 DEF SinkHasCall
<1>6. FlagHasCall'
  BY <1>0, <1>1, <1>2, <1>4 DEF FlagHasCall
<1>7. \A p \in Producers : /\ InSubmit(p)' <=> InSubmit(p)
                           /\ usable[p] \subseteq usable'[p]
                           /\ InSubmit(p) => k \in usable'[p]
  BY <1>1 DEF InSubmit
<1>8. SubmitMaySee'
  BY <1>0, <1>1, <1>2, <1>7 DEF SubmitMaySee
<1>9. SubmitHolds'
  BY <1>0, <1>1, <1>7 DEF SubmitHolds
<1>10. QED
  BY <1>3, <1>5, <1>6, <1>8, <1>9 DEF SinkInv

(* A store of setter s, as the submits see it.                             *)
Stores(s) ==
  /\ setter[s].at # "idle" /\ UNCHANGED <<pending, usable>>
  /\ trace_sink' = trace_sink \/ trace_sink' = setter[s].sink
  /\ ~trace_enabled' => ~trace_enabled \/ setter[s].sink = NULL
  /\ \A r \in Setters : /\ setter'[r].sink = setter[r].sink
                        /\ setter'[r].at # "idle" => setter[r].at # "idle"

(* What a submit may see covers the setter's store.                        *)
LEMMA StoreSeen ==
  ASSUME SubmitMaySee, SubmitHolds, NEW s \in Setters, Stores(s)
  PROVE  SubmitMaySee' /\ SubmitHolds'
<1>1. \A p \in Producers : InSubmit(p)' <=> InSubmit(p)
  BY DEF InSubmit, Stores
<1>2. ASSUME NEW p \in Producers, InSubmit(p)
      PROVE  /\ trace_sink' \in usable'[p]
             /\ ~trace_enabled' => NULL \in usable'[p]
             /\ \A r \in Setters : setter'[r].at # "idle" => setter'[r].sink \in usable'[p]
  <2>1. /\ trace_sink \in usable[p]
        /\ ~trace_enabled => NULL \in usable[p]
        /\ \A r \in Setters : setter[r].at # "idle" => setter[r].sink \in usable[p]
    BY <1>2 DEF SubmitMaySee
  <2>2. usable' = usable
    BY DEF Stores
  <2>3. trace_sink' \in usable'[p]
    BY <2>1, <2>2 DEF Stores
  <2>4. ~trace_enabled' => NULL \in usable'[p]
    BY <2>1, <2>2 DEF Stores
  <2>5. ASSUME NEW r \in Setters, setter'[r].at # "idle" PROVE setter'[r].sink \in usable'[p]
    <3>0. \A q \in Setters : /\ setter'[q].sink = setter[q].sink
                             /\ setter'[q].at # "idle" => setter[q].at # "idle"
      BY Zenon DEF Stores
    <3>1. setter'[r].sink = setter[r].sink /\ setter[r].at # "idle"
      BY <2>5, <3>0
    <3>2. QED
      BY <2>1, <2>2, <3>1
  <2>6. QED
    BY <2>3, <2>4, <2>5
<1>3. SubmitHolds'
  BY DEF SubmitHolds, Stores
<1>4. QED
  BY <1>1, <1>2, <1>3 DEF SubmitMaySee

(* ... its first store ...                                                 *)
LEMMA FirstSink ==
  ASSUME SinkInv, NEW s \in Setters, SetFirst(s)
  PROVE  SinkInv'
<1> DEFINE k == setter[s].sink
<1>0. TraceShape /\ SinkHasCall /\ FlagHasCall /\ SubmitMaySee /\ SubmitHolds
  BY DEF SinkInv
<1>1. /\ UNCHANGED <<counter, pending, reports, usable, standing, replaced>>
      /\ setter[s].at = "first" /\ k \in Sinks
      /\ setter' = [setter EXCEPT ![s].at = "second"]
  BY <1>0 DEF SetFirst, SetStore, TraceShape
<1>2. \/ k # NULL /\ trace_sink' = k /\ UNCHANGED trace_enabled
      \/ k = NULL /\ (trace_enabled' <=> FALSE) /\ UNCHANGED trace_sink
  BY DEF SetFirst, SetStore, StoreFlag
<1>3. \A r \in Setters : /\ setter'[r].at = IF r = s THEN "second" ELSE setter[r].at
                         /\ setter'[r].sink = setter[r].sink
  BY <1>0, <1>1 DEF TraceShape
<1>4. TraceShape'
  <2>1. setter' \in [Setters -> [at : {"idle", "first", "second"}, sink : Sinks]]
    BY <1>0, <1>1 DEF TraceShape
  <2>2. trace_sink' \in Sinks
    BY <1>0, <1>1, <1>2 DEF TraceShape
  <2>3. QED
    BY <1>0, <1>1, <2>1, <2>2 DEF TraceShape
<1>5. \A r \in Setters : /\ SinkStored(r)' <=> (SinkStored(r) \/ (r = s /\ k # NULL))
                         /\ FlagStored(r)' <=> (FlagStored(r) \/ (r = s /\ k = NULL))
  BY <1>1, <1>3 DEF SinkStored, FlagStored
<1>6. SinkHasCall'
  BY <1>0, <1>1, <1>2, <1>3, <1>5 DEF SinkHasCall
<1>7. FlagHasCall'
  BY <1>0, <1>1, <1>2, <1>3, <1>5 DEF FlagHasCall
<1>8. SubmitMaySee' /\ SubmitHolds'
  <2>1. Stores(s)
    BY <1>1, <1>2, <1>3 DEF Stores
  <2>2. QED
    BY <1>0, <2>1, StoreSeen
<1>9. QED
  BY <1>4, <1>6, <1>7, <1>8 DEF SinkInv

(* ... and its second, with which it returns and replaces the calls that   *)
(* stood when it began.                                                    *)
LEMMA SecondSink ==
  ASSUME SinkInv, NEW s \in Setters, SetSecond(s)
  PROVE  SinkInv'
<1> DEFINE k == setter[s].sink
           call == <<s, k>>
<1>0. TraceShape /\ SinkHasCall /\ FlagHasCall /\ SubmitMaySee /\ SubmitHolds
  BY DEF SinkInv
<1>1. /\ UNCHANGED <<counter, pending, reports, usable>>
      /\ setter[s].at = "second" /\ k \in Sinks
      /\ setter' = [setter EXCEPT ![s].at = "idle"]
      /\ standing' = (standing \ replaced[s]) \cup {call}
      /\ replaced' = [r \in Setters |-> IF r = s THEN {} ELSE replaced[r] \ {call}]
  BY <1>0 DEF SetSecond, SetStore, TraceShape
<1>2. \/ k = NULL /\ trace_sink' = k /\ UNCHANGED trace_enabled
      \/ k # NULL /\ (trace_enabled' <=> TRUE) /\ UNCHANGED trace_sink
  BY DEF SetSecond, SetStore, StoreFlag
<1>3. \A r \in Setters : /\ setter'[r].at = IF r = s THEN "idle" ELSE setter[r].at
                         /\ setter'[r].sink = setter[r].sink
                         /\ replaced'[r] \subseteq replaced[r]
                         /\ call \notin replaced'[r]
  BY <1>0, <1>1 DEF TraceShape
<1>4. call[2] = k /\ call \in standing'
  BY <1>1
<1> HIDE DEF call
<1>5. TraceShape'
  <2>1. setter' \in [Setters -> [at : {"idle", "first", "second"}, sink : Sinks]]
    BY <1>0, <1>1 DEF TraceShape
  <2>2. trace_sink' \in Sinks
    BY <1>0, <1>1, <1>2 DEF TraceShape
  <2>3. DOMAIN replaced' = Setters
    BY <1>0, <1>1 DEF TraceShape
  <2>4. QED
    BY <1>0, <1>1, <2>1, <2>2, <2>3 DEF TraceShape
<1>6. \A r \in Setters : /\ SinkStored(r)' <=> (SinkStored(r) /\ r # s)
                         /\ FlagStored(r)' <=> (FlagStored(r) /\ r # s)
  BY <1>1, <1>3 DEF SinkStored, FlagStored
<1>7. SinkHasCall'
  <2>1. CASE k = NULL
    BY <1>2, <1>3, <1>4, <2>1 DEF SinkHasCall
  <2>2. CASE k # NULL
    <3>1. trace_sink' = trace_sink /\ SinkStored(s)
      BY <1>1, <1>2, <2>2 DEF SinkStored
    <3>2. CASE \E r \in Setters : SinkStored(r) /\ setter[r].sink = trace_sink
      <4>1. PICK r \in Setters : SinkStored(r) /\ setter[r].sink = trace_sink
        BY <3>2
      <4>2. CASE r = s
        BY <1>3, <1>4, <3>1, <4>1, <4>2 DEF SinkHasCall
      <4>3. CASE r # s
        BY <1>3, <1>6, <3>1, <4>1, <4>3 DEF SinkHasCall
      <4>4. QED
        BY <4>2, <4>3
    <3>3. CASE \E c \in standing : /\ c[2] = trace_sink
                                   /\ \A r \in Setters : SinkStored(r) => c \notin replaced[r]
      <4>1. PICK c \in standing : /\ c[2] = trace_sink
                                  /\ \A r \in Setters : SinkStored(r) => c \notin replaced[r]
        BY <3>3
      <4>2. c \in standing'
        BY <1>1, <3>1, <4>1
      <4>3. \A r \in Setters : SinkStored(r)' => c \notin replaced'[r]
        BY <1>3, <1>6, <4>1
      <4>4. QED
        BY <3>1, <4>1, <4>2, <4>3 DEF SinkHasCall
    <3>4. QED
      BY <1>0, <3>2, <3>3 DEF SinkHasCall
  <2>3. QED
    BY <2>1, <2>2
<1>8. FlagHasCall'
  <2>1. CASE k # NULL
    BY <1>2, <2>1 DEF FlagHasCall
  <2>2. CASE k = NULL
    <3>1. trace_enabled' = trace_enabled /\ FlagStored(s)
      BY <1>1, <1>2, <2>2 DEF FlagStored
    <3>2. QED
      BY <1>3, <1>4, <2>2 DEF FlagHasCall
  <2>3. QED
    BY <2>1, <2>2
<1>9. SubmitMaySee' /\ SubmitHolds'
  <2>1. Stores(s)
    BY <1>1, <1>2, <1>3 DEF Stores
  <2>2. QED
    BY <1>0, <2>1, StoreSeen
<1>10. QED
  BY <1>5, <1>7, <1>8, <1>9 DEF SinkInv

(* A step that only moves submits and tasks.                               *)
LEMMA ThroughSubmit ==
  ASSUME SinkInv, UNCHANGED <<trace_enabled, trace_sink, setter, standing, replaced>>,
         counter' \in Nat, DOMAIN usable' = Producers,
         pending' \in [Producers -> [at : {"new", "flag", "sink", "id", "queued", "refused",
                                           "callback", "done"},
                                     sink : Sinks, id : Nat \cup {NULL}]],
         SubmitMaySee', SubmitHolds'
  PROVE  SinkInv'
<1>1. TraceShape'
  BY DEF SinkInv, TraceShape
<1>2. SinkHasCall'
  BY DEF SinkInv, SinkHasCall, SinkStored
<1>3. FlagHasCall'
  BY DEF SinkInv, FlagHasCall, FlagStored
<1>4. QED
  BY <1>1, <1>2, <1>3 DEF SinkInv

LEMMA SubmitSink ==
  ASSUME SinkInv, NEW p \in Producers,
         \/ SubmitCall(p) \/ LoadFlag(p) \/ LoadSink(p) \/ GiveId(p)
         \/ SubmitRefused(p) \/ Body(p) \/ Callback(p)
  PROVE  SinkInv'
<1> DEFINE Ats == {"new", "flag", "sink", "id", "queued", "refused", "callback", "done"}
           Tasks == [at : Ats, sink : Sinks, id : Nat \cup {NULL}]
           mine == pending'[p]
<1>0. TraceShape /\ SinkHasCall /\ FlagHasCall /\ SubmitMaySee /\ SubmitHolds
  BY DEF SinkInv
<1>1. UNCHANGED <<trace_enabled, trace_sink, setter, standing, replaced>>
  BY DEF SubmitCall, LoadFlag, LoadSink, GiveId, SubmitRefused, Body, Callback
<1>2. counter' \in Nat /\ DOMAIN usable' = Producers
  <2>1. counter' = counter \/ counter' = counter + 1
    BY DEF SubmitCall, LoadFlag, LoadSink, GiveId, SubmitRefused, Body, Callback
  <2>2. DOMAIN usable' = DOMAIN usable
    BY DEF SubmitCall, LoadFlag, LoadSink, GiveId, SubmitRefused, Body, Callback
  <2>3. QED
    BY <1>0, <2>1, <2>2 DEF TraceShape
<1>3. \A q \in Producers : q # p => pending'[q] = pending[q]
  BY <1>0 DEF SubmitCall, LoadFlag, LoadSink, GiveId, SubmitRefused, Body, Callback, TraceShape
<1>4. \A q \in Producers : q # p => usable'[q] = usable[q]
  <2>1. usable' = usable \/ \E u : usable' = [usable EXCEPT ![p] = u]
    BY DEF SubmitCall, LoadFlag, LoadSink, GiveId, SubmitRefused, Body, Callback
  <2>2. QED
    BY <1>0, <2>1 DEF TraceShape
<1>5. ASSUME pending' \in [Producers -> Tasks],
             InSubmit(p)' =>
               /\ trace_sink \in usable'[p]
               /\ ~trace_enabled => NULL \in usable'[p]
               /\ \A s \in Setters : setter[s].at # "idle" => setter[s].sink \in usable'[p],
             mine.at \in {"new", "flag", "sink"} => mine.sink = NULL,
             mine.at \in {"id", "queued"} => mine.sink \in usable'[p]
      PROVE  SinkInv'
  <2>1. SubmitMaySee'
    BY <1>0, <1>1, <1>3, <1>4, <1>5 DEF SubmitMaySee, InSubmit
  <2>2. SubmitHolds'
    BY <1>0, <1>3, <1>4, <1>5 DEF SubmitHolds
  <2>3. QED
    BY <1>1, <1>2, <1>5, <2>1, <2>2, ThroughSubmit
<1>6. pending[p] \in Tasks /\ p \in DOMAIN usable
  BY <1>0 DEF TraceShape
<1>7. ASSUME NEW v \in Tasks, pending' = [pending EXCEPT ![p] = v]
      PROVE  pending' \in [Producers -> Tasks] /\ mine = v
  BY <1>0, <1>7 DEF TraceShape
<1>8. CASE SubmitCall(p)
  <2> DEFINE v == [pending[p] EXCEPT !.at = "flag"]
  <2>1. /\ pending' = [pending EXCEPT ![p] = v] /\ pending[p].at = "new"
        /\ usable'[p] = Standing \cup {setter[s].sink : s \in {r \in Setters : setter[r].at # "idle"}}
    BY <1>6, <1>8 DEF SubmitCall
  <2>2. v \in Tasks /\ v.at = "flag" /\ v.sink = pending[p].sink
    BY <1>6
  <2> HIDE DEF v
  <2>3. \A s \in Setters : setter[s].at # "idle" => setter[s].sink \in usable'[p]
    BY <2>1
  <2>4. \A c \in standing : c[2] \in usable'[p]
    BY <2>1 DEF Standing
  <2>5. trace_sink \in usable'[p]
    BY <1>0, <2>3, <2>4 DEF SinkHasCall, SinkStored
  <2>6. ~trace_enabled => NULL \in usable'[p]
    BY <1>0, <2>3, <2>4 DEF FlagHasCall, FlagStored
  <2>7. mine = v /\ pending' \in [Producers -> Tasks] /\ v.sink = NULL
    BY <1>0, <1>7, <2>1, <2>2 DEF SubmitHolds
  <2>8. QED
    BY <1>5, <2>2, <2>3, <2>5, <2>6, <2>7
<1>9. CASE LoadFlag(p)
  <2> DEFINE v == [pending[p] EXCEPT !.at = IF trace_enabled THEN "sink" ELSE "queued"]
  <2>1. pending' = [pending EXCEPT ![p] = v] /\ pending[p].at = "flag" /\ usable' = usable
    BY <1>6, <1>9 DEF LoadFlag
  <2>2. /\ v \in Tasks /\ v.sink = pending[p].sink
        /\ v.at = "sink" \/ (v.at = "queued" /\ ~trace_enabled)
    BY <1>6
  <2> HIDE DEF v
  <2>3. mine = v /\ pending' \in [Producers -> Tasks] /\ v.sink = NULL
    BY <1>0, <1>7, <2>1, <2>2 DEF SubmitHolds
  <2>4. /\ trace_sink \in usable[p]
        /\ ~trace_enabled => NULL \in usable[p]
        /\ \A s \in Setters : setter[s].at # "idle" => setter[s].sink \in usable[p]
    BY <1>0, <2>1 DEF SubmitMaySee, InSubmit
  <2>5. InSubmit(p)' =>
          /\ trace_sink \in usable'[p]
          /\ ~trace_enabled => NULL \in usable'[p]
          /\ \A s \in Setters : setter[s].at # "idle" => setter[s].sink \in usable'[p]
    BY <2>1, <2>4
  <2>6. mine.at \in {"new", "flag", "sink"} => mine.sink = NULL
    BY <2>2, <2>3
  <2>7. mine.at \in {"id", "queued"} => mine.sink \in usable'[p]
    BY <2>1, <2>2, <2>3, <2>4
  <2>8. QED
    BY <1>5, <2>3, <2>5, <2>6, <2>7
<1>10. CASE LoadSink(p)
  <2> DEFINE v == [at |-> IF trace_sink = NULL THEN "queued" ELSE "id", sink |-> trace_sink, id |-> NULL]
  <2>1. pending' = [pending EXCEPT ![p] = v] /\ pending[p].at = "sink" /\ usable' = usable
    BY <1>6, <1>10 DEF LoadSink
  <2>2. v \in Tasks /\ v.sink = trace_sink /\ v.at \in {"queued", "id"}
    BY <1>0 DEF TraceShape
  <2> HIDE DEF v
  <2>3. mine = v /\ pending' \in [Producers -> Tasks]
    BY <1>7, <2>1, <2>2
  <2>4. /\ trace_sink \in usable[p]
        /\ ~trace_enabled => NULL \in usable[p]
        /\ \A s \in Setters : setter[s].at # "idle" => setter[s].sink \in usable[p]
    BY <1>0, <2>1 DEF SubmitMaySee, InSubmit
  <2>5. InSubmit(p)' =>
          /\ trace_sink \in usable'[p]
          /\ ~trace_enabled => NULL \in usable'[p]
          /\ \A s \in Setters : setter[s].at # "idle" => setter[s].sink \in usable'[p]
    BY <2>1, <2>4
  <2>6. mine.at \in {"new", "flag", "sink"} => mine.sink = NULL
    BY <2>2, <2>3
  <2>7. mine.at \in {"id", "queued"} => mine.sink \in usable'[p]
    BY <2>1, <2>2, <2>3, <2>4
  <2>8. QED
    BY <1>5, <2>3, <2>5, <2>6, <2>7
<1>11. CASE GiveId(p)
  <2> DEFINE v == [pending[p] EXCEPT !.at = "queued", !.id = counter]
  <2>1. pending' = [pending EXCEPT ![p] = v] /\ pending[p].at = "id" /\ usable' = usable
    BY <1>6, <1>11 DEF GiveId
  <2>2. v \in Tasks /\ v.sink = pending[p].sink /\ v.at = "queued"
    BY <1>0, <1>6 DEF TraceShape
  <2> HIDE DEF v
  <2>3. mine = v /\ pending' \in [Producers -> Tasks] /\ v.sink \in usable'[p]
    BY <1>0, <1>7, <2>1, <2>2 DEF SubmitHolds
  <2>4. QED
    BY <1>5, <2>2, <2>3 DEF InSubmit
<1>12. CASE SubmitRefused(p) \/ Body(p) \/ Callback(p)
  <2>1. \E v \in Tasks : pending' = [pending EXCEPT ![p] = v] /\ v.at \in {"refused", "callback", "done"}
    <3>1. CASE SubmitRefused(p)
      <4> DEFINE v == [at |-> "refused", sink |-> NULL, id |-> NULL]
      <4>1. v \in Tasks /\ v.at = "refused" /\ pending' = [pending EXCEPT ![p] = v]
        BY <3>1 DEF SubmitRefused, Sinks
      <4>2. QED
        BY <4>1
    <3>2. CASE Body(p) \/ Callback(p)
      <4> DEFINE w(a) == [pending[p] EXCEPT !.at = a]
      <4>1. \E a \in {"callback", "done"} : pending' = [pending EXCEPT ![p] = w(a)]
        BY <1>6, <3>2 DEF Body, Callback
      <4>2. \A a \in {"callback", "done"} : w(a) \in Tasks /\ w(a).at = a
        BY <1>6
      <4>3. QED
        BY <4>1, <4>2
    <3>3. QED
      BY <1>12, <3>1, <3>2
  <2>2. pending' \in [Producers -> Tasks] /\ mine.at \in {"refused", "callback", "done"}
    BY <1>7, <2>1
  <2>3. QED
    BY <1>5, <2>2 DEF InSubmit
<1>13. QED
  BY <1>8, <1>9, <1>10, <1>11, <1>12

LEMMA NextSink == SinkInv /\ [TraceNext]_traceVars => SinkInv'
<1> SUFFICES ASSUME SinkInv, [TraceNext]_traceVars PROVE SinkInv'
  OBVIOUS
<1>1. CASE UNCHANGED traceVars
  <2>1. /\ UNCHANGED <<trace_enabled, trace_sink, counter, setter, pending, standing>>
        /\ UNCHANGED <<replaced, usable>>
    BY <1>1 DEF traceVars
  <2>2. TraceShape'
    BY <2>1 DEF SinkInv, TraceShape
  <2>3. SinkHasCall' /\ FlagHasCall'
    BY <2>1 DEF SinkInv, SinkHasCall, FlagHasCall, SinkStored, FlagStored
  <2>4. SubmitMaySee' /\ SubmitHolds'
    BY <2>1 DEF SinkInv, SubmitMaySee, SubmitHolds, InSubmit
  <2>5. QED
    BY <2>2, <2>3, <2>4 DEF SinkInv
<1>2. CASE TraceNext
  BY <1>2, CallSink, FirstSink, SecondSink, SubmitSink DEF TraceNext
<1>3. QED
  BY <1>1, <1>2

(* Whichever way the stores of setTraceSink and the loads of the submits   *)
(* interleave, for any number of both, a submit goes by a sink that stood  *)
(* when it began or was set beside it.                                     *)
THEOREM TraceLiveSink == TraceSpec => []SubmitSeesALiveSink
<1>1. SinkInv => SubmitSeesALiveSink
  BY DEF SinkInv, SubmitHolds, SubmitSeesALiveSink
<1>2. QED
  BY <1>1, InitSink, NextSink, PTL DEF TraceSpec

-----------------------------------------------------------------------------
(* A task that was traced at its submit and has its id.                    *)
HasId(p) == pending[p].at \in {"queued", "callback", "done"} /\ pending[p].sink # NULL

(* The one report of a task that is done and was traced, and no report     *)
(* before; the ids are those nextTaskId has given out, each to one task.   *)
Reported ==
  /\ DOMAIN reports = Producers
  /\ \A p \in Producers :
       reports[p] = IF pending[p].at = "done" /\ pending[p].sink # NULL
                    THEN <<[sink |-> pending[p].sink, id |-> pending[p].id]>> ELSE <<>>
  /\ \A p \in Producers : pending[p].at = "callback" => pending[p].sink # NULL
  /\ \A p \in Producers : HasId(p) => pending[p].id \in Nat /\ pending[p].id < counter
  /\ \A p, r \in Producers : HasId(p) /\ HasId(r) /\ p # r => pending[p].id # pending[r].id

LEMMA InitReported == TraceInit => Reported
  BY DEF TraceInit, Reported, HasId

(* A step that gives p's task no id and reports nothing.                   *)
LEMMA NoReport ==
  ASSUME TraceShape, Reported, NEW p \in Producers, UNCHANGED <<counter, reports>>,
         \A q \in Producers : q # p => pending'[q] = pending[q],
         pending'[p].at = "done" /\ pending'[p].sink # NULL => FALSE,
         pending[p].at = "done" /\ pending[p].sink # NULL => FALSE,
         pending'[p].at = "callback" => pending'[p].sink # NULL,
         HasId(p)' => HasId(p) /\ pending'[p].id = pending[p].id
  PROVE  Reported'
<1>1. \A q \in Producers : HasId(q)' => HasId(q) /\ pending'[q].id = pending[q].id
  BY DEF HasId
<1>2. \A q \in Producers :
        reports'[q] = IF pending'[q].at = "done" /\ pending'[q].sink # NULL
                      THEN <<[sink |-> pending'[q].sink, id |-> pending'[q].id]>> ELSE <<>>
  BY DEF Reported
<1>3. \A q \in Producers : pending'[q].at = "callback" => pending'[q].sink # NULL
  BY DEF Reported
<1>4. \A q \in Producers : HasId(q)' => pending'[q].id \in Nat /\ pending'[q].id < counter'
  BY <1>1 DEF Reported
<1>5. \A q, r \in Producers : HasId(q)' /\ HasId(r)' /\ q # r => pending'[q].id # pending'[r].id
  BY <1>1 DEF Reported
<1>6. QED
  BY <1>2, <1>3, <1>4, <1>5 DEF Reported

LEMMA NextReported ==
  ASSUME TraceShape, SubmitHolds, Reported, [TraceNext]_traceVars
  PROVE  Reported'
<1>1. CASE UNCHANGED <<pending, counter, reports>>
  BY <1>1 DEF Reported, HasId
<1>2. CASE UNCHANGED traceVars \/ \E s \in Setters :
             SetFirst(s) \/ SetSecond(s) \/ \E k \in {s, NULL} : SetCall(s, k)
  BY <1>1, <1>2 DEF traceVars, SetFirst, SetSecond, SetStore, SetCall
<1>3. ASSUME NEW p \in Producers,
             \/ SubmitCall(p) \/ LoadFlag(p) \/ LoadSink(p)
             \/ SubmitRefused(p) \/ Body(p)
      PROVE  Reported'
  <2>1. UNCHANGED <<counter, reports>>
    BY <1>3 DEF SubmitCall, LoadFlag, LoadSink, SubmitRefused, Body
  <2>2. \A q \in Producers : q # p => pending'[q] = pending[q]
    BY <1>3 DEF SubmitCall, LoadFlag, LoadSink, SubmitRefused, Body, TraceShape
  <2>3. pending[p].at # "done" /\ pending[p].at \in {"new", "flag", "sink", "queued"}
    BY <1>3 DEF SubmitCall, LoadFlag, LoadSink, SubmitRefused, Body
  <2>4. /\ pending'[p].at = "done" => pending'[p].sink = NULL
        /\ pending'[p].at = "callback" => pending'[p].sink # NULL
        /\ HasId(p)' => HasId(p) /\ pending'[p].id = pending[p].id
    <3>1. CASE SubmitCall(p)
      <4>1. pending'[p].at = "flag"
        BY <3>1 DEF SubmitCall, TraceShape
      <4>2. QED
        BY <4>1 DEF HasId
    <3>2. CASE LoadFlag(p)
      <4>1. pending'[p].at \in {"sink", "queued"} /\ pending'[p].sink = pending[p].sink
            /\ pending[p].at = "flag"
        BY <3>2 DEF LoadFlag, TraceShape
      <4>2. pending'[p].sink = NULL
        BY <4>1 DEF SubmitHolds
      <4>3. QED
        BY <4>1, <4>2 DEF HasId
    <3>3. CASE LoadSink(p)
      <4>1. pending'[p].at = "id" \/ (pending'[p].at = "queued" /\ pending'[p].sink = NULL)
        BY <3>3 DEF LoadSink, TraceShape
      <4>2. QED
        BY <4>1 DEF HasId
    <3>4. CASE SubmitRefused(p)
      <4>1. pending'[p].at = "refused"
        BY <3>4 DEF SubmitRefused, TraceShape
      <4>2. QED
        BY <4>1 DEF HasId
    <3>5. CASE Body(p)
      <4>1. /\ pending'[p].at = IF pending[p].sink = NULL THEN "done" ELSE "callback"
            /\ pending'[p].sink = pending[p].sink /\ pending'[p].id = pending[p].id
            /\ pending[p].at = "queued"
        BY <3>5 DEF Body, TraceShape
      <4>2. QED
        BY <4>1 DEF HasId
    <3>6. QED
      BY <1>3, <3>1, <3>2, <3>3, <3>4, <3>5
  <2>5. QED
    BY <2>1, <2>2, <2>3, <2>4, NoReport
<1>4. ASSUME NEW p \in Producers, GiveId(p) PROVE Reported'
  <2>1. /\ counter \in Nat /\ counter' = counter + 1 /\ reports' = reports
        /\ pending[p].at = "id"
        /\ pending'[p].at = "queued" /\ pending'[p].id = counter
        /\ \A q \in Producers : q # p => pending'[q] = pending[q]
    BY <1>4 DEF GiveId, TraceShape
  <2>2. \A q \in Producers : q # p => (HasId(q)' <=> HasId(q))
    BY <2>1 DEF HasId
  <2>3. ~HasId(p)
    BY <2>1 DEF HasId
  <2>4. \A q \in Producers :
          reports'[q] = IF pending'[q].at = "done" /\ pending'[q].sink # NULL
                        THEN <<[sink |-> pending'[q].sink, id |-> pending'[q].id]>> ELSE <<>>
    BY <2>1 DEF Reported
  <2>5. \A q \in Producers : pending'[q].at = "callback" => pending'[q].sink # NULL
    BY <2>1 DEF Reported
  <2>6. \A q \in Producers : HasId(q)' => pending'[q].id \in Nat /\ pending'[q].id < counter'
    <3> SUFFICES ASSUME NEW q \in Producers, HasId(q)'
                 PROVE  pending'[q].id \in Nat /\ pending'[q].id < counter + 1
      BY <2>1
    <3>1. CASE q = p
      BY <2>1, <3>1
    <3>2. CASE q # p
      <4>1. HasId(q) /\ pending'[q].id = pending[q].id
        BY <2>1, <2>2, <3>2
      <4>2. pending[q].id \in Nat /\ pending[q].id < counter
        BY <4>1 DEF Reported
      <4>3. QED
        BY <2>1, <4>1, <4>2
    <3>3. QED
      BY <3>1, <3>2
  <2>7. \A q \in Producers : q # p /\ HasId(q) => pending[q].id # counter
    BY <2>1 DEF Reported
  <2>8. \A q, r \in Producers : HasId(q)' /\ HasId(r)' /\ q # r => pending'[q].id # pending'[r].id
    BY <2>1, <2>2, <2>7 DEF Reported
  <2>9. QED
    BY <2>1, <2>4, <2>5, <2>6, <2>8 DEF Reported
<1>5. ASSUME NEW p \in Producers, Callback(p) PROVE Reported'
  <2> DEFINE e == [sink |-> pending[p].sink, id |-> pending[p].id]
  <2>1. /\ counter' = counter /\ pending[p].at = "callback" /\ pending'[p].at = "done"
        /\ pending'[p].id = pending[p].id /\ pending'[p].sink = pending[p].sink
        /\ \A q \in Producers : q # p => pending'[q] = pending[q]
    BY <1>5 DEF Callback, TraceShape
  <2>2. /\ DOMAIN reports' = Producers /\ reports'[p] = Append(reports[p], e)
        /\ \A q \in Producers : q # p => reports'[q] = reports[q]
    BY <1>5 DEF Callback, SinkHeld, Reported
  <2>3. reports[p] = <<>> /\ pending[p].sink # NULL
    BY <2>1 DEF Reported
  <2>4. reports'[p] = <<e>>
    BY <2>2, <2>3
  <2>5. \A q \in Producers : (HasId(q)' <=> HasId(q)) /\ pending'[q].id = pending[q].id
    BY <2>1 DEF HasId
  <2>6. \A q \in Producers :
          reports'[q] = IF pending'[q].at = "done" /\ pending'[q].sink # NULL
                        THEN <<[sink |-> pending'[q].sink, id |-> pending'[q].id]>> ELSE <<>>
    <3> TAKE q \in Producers
    <3>1. CASE q = p
      BY <2>1, <2>3, <2>4, <3>1
    <3>2. CASE q # p
      BY <2>1, <2>2, <3>2 DEF Reported
    <3>3. QED
      BY <3>1, <3>2
  <2>7. \A q \in Producers : pending'[q].at = "callback" => pending'[q].sink # NULL
    BY <2>1 DEF Reported
  <2>8. \A q \in Producers : HasId(q)' => pending'[q].id \in Nat /\ pending'[q].id < counter'
    BY <2>1, <2>5 DEF Reported
  <2>9. \A q, r \in Producers : HasId(q)' /\ HasId(r)' /\ q # r => pending'[q].id # pending'[r].id
    BY <2>5 DEF Reported
  <2>10. QED
    BY <2>2, <2>6, <2>7, <2>8, <2>9 DEF Reported
<1>6. QED
  BY <1>2, <1>3, <1>4, <1>5 DEF TraceNext

LEMMA ReportedGives == Reported => ReportedOnce
<1> SUFFICES ASSUME Reported PROVE ReportedOnce
  OBVIOUS
<1>1. ASSUME NEW p \in Producers
      PROVE  /\ pending[p].at = "done" /\ pending[p].sink # NULL => Len(reports[p]) = 1
             /\ pending[p].at # "done" \/ pending[p].sink = NULL => reports[p] = <<>>
             /\ \A k \in DOMAIN reports[p] : reports[p][k].sink = pending[p].sink
  <2> DEFINE e == [sink |-> pending[p].sink, id |-> pending[p].id]
  <2>1. e.sink = pending[p].sink
    OBVIOUS
  <2>2. reports[p] = IF pending[p].at = "done" /\ pending[p].sink # NULL THEN <<e>> ELSE <<>>
    BY DEF Reported
  <2> HIDE DEF e
  <2>3. QED
    BY <2>1, <2>2
<1>2. ASSUME NEW p \in Producers, reports[p] # <<>>
      PROVE  HasId(p) /\ reports[p][1].id = pending[p].id
  <2> DEFINE e == [sink |-> pending[p].sink, id |-> pending[p].id]
  <2>1. e.id = pending[p].id
    OBVIOUS
  <2>2. reports[p] = IF pending[p].at = "done" /\ pending[p].sink # NULL THEN <<e>> ELSE <<>>
    BY DEF Reported
  <2> HIDE DEF e
  <2>3. QED
    BY <1>2, <2>1, <2>2 DEF HasId
<1>3. \A p, r \in Producers : reports[p] # <<>> /\ reports[r] # <<>> /\ p # r =>
        reports[p][1].id # reports[r][1].id
  BY <1>2 DEF Reported
<1>4. QED
  BY <1>1, <1>3 DEF ReportedOnce

(* A task that was traced at its submit reports once, to the sink of that  *)
(* time, and no two callbacks have one id.                                 *)
THEOREM TraceReportedOnce == TraceSpec => []ReportedOnce
<1>1. SinkInv /\ Reported /\ [TraceNext]_traceVars => Reported'
  BY NextReported DEF SinkInv
<1>2. QED
  BY <1>1, InitSink, NextSink, InitReported, ReportedGives, PTL DEF TraceSpec

-----------------------------------------------------------------------------
(* PipelineDemo.  The tasks the producers have submitted, by their seq.    *)
Submitted == {s \in 0 .. total - 1 : submitted[s \div per] > s % per}

InHands(A) == {hand[w].seq : w \in {v \in PipeWorkers : hand[v].at \in A}}

(* The tasks that are past the steps A of the task.                        *)
Past(A) == Submitted \ (Listed(queue) \cup InHands(A))

ToCount    == {"count"}
ToSum      == {"count", "sum"}
ToPush     == {"count", "sum", "push"}
ToComplete == {"count", "sum", "push", "complete"}

PipeShape ==
  /\ submitted \in [PipeProducers -> 0 .. per]
  /\ queue \in Seq(Nat) /\ sink \in Seq(Nat) /\ lat \in Seq(Nat)
  /\ hand \in [PipeWorkers -> [at : {"idle"} \cup ToComplete, seq : Nat \cup {NULL}]]
  /\ completed_tasks \in Nat /\ processed \in Nat /\ checksum \in Nat /\ dropped \in Nat
  /\ main \in {"join", "poll", "drain", "shutdown", "returned"}

(* A submitted task is in the queue once, in one worker's hands, or done.  *)
PipePlaces ==
  /\ NoRepeat(queue) /\ Listed(queue) \subseteq Submitted
  /\ \A w \in PipeWorkers : IF hand[w].at = "idle" THEN hand[w] = Idle
                                                   ELSE hand[w].seq \in Submitted \ Listed(queue)
  /\ \A v, w \in PipeWorkers : hand[v].at # "idle" /\ hand[w].at # "idle" /\ v # w =>
                                 hand[v].seq # hand[w].seq

(* Each counter is about the tasks that are past the step that counts.     *)
PipeCounts ==
  /\ processed = Cardinality(Past(ToCount))
  /\ checksum = SumOf(Past(ToSum), total)
  /\ Len(lat) + Len(sink) + dropped = Cardinality(Past(ToPush))
  /\ completed_tasks = Cardinality(Past(ToComplete))

PipeSamples ==
  /\ NoRepeat(lat) /\ NoRepeat(sink) /\ Listed(lat) \cap Listed(sink) = {}
  /\ Listed(lat) \cup Listed(sink) \subseteq Past(ToPush)
  /\ dropped > 0 => Len(lat) + Len(sink) = SinkCapacity

PipeMain ==
  /\ main # "join" => \A p \in PipeProducers : submitted[p] = per
  /\ main \in {"join", "poll"} => lat = <<>>
  /\ main \in {"drain", "shutdown", "returned"} => queue = <<>> /\ \A w \in PipeWorkers : hand[w] = Idle
  /\ main \in {"shutdown", "returned"} => sink = <<>>

PipeInv == PipeShape /\ PipePlaces /\ PipeCounts /\ PipeSamples /\ PipeMain

LEMMA ListAppend ==
  ASSUME NEW s \in Seq(Nat), NEW x \in Nat
  PROVE  /\ Append(s, x) \in Seq(Nat) /\ Len(Append(s, x)) = Len(s) + 1 /\ Len(s) \in Nat
         /\ Listed(Append(s, x)) = Listed(s) \cup {x}
         /\ NoRepeat(s) /\ x \notin Listed(s) => NoRepeat(Append(s, x))
  BY DEF Listed, NoRepeat

LEMMA ListTail ==
  ASSUME NEW s \in Seq(Nat), s # <<>>, NoRepeat(s)
  PROVE  /\ Tail(s) \in Seq(Nat) /\ Len(Tail(s)) = Len(s) - 1 /\ Len(s) \in Nat
         /\ Head(s) \in Nat /\ Head(s) \in Listed(s)
         /\ Listed(Tail(s)) = Listed(s) \ {Head(s)} /\ NoRepeat(Tail(s))
<1> DEFINE t == Tail(s)
<1>1. /\ t \in Seq(Nat) /\ Len(t) = Len(s) - 1 /\ Len(s) \in Nat \ {0}
      /\ Head(s) = s[1] /\ \A i \in 1 .. Len(t) : t[i] = s[i + 1]
  OBVIOUS
<1> HIDE DEF t
<1>2. Head(s) \in Nat /\ Head(s) \in Listed(s)
  BY <1>1 DEF Listed
<1>3. NoRepeat(t)
  <2> SUFFICES ASSUME NEW i \in 1 .. Len(t), NEW j \in 1 .. Len(t), t[i] = t[j] PROVE i = j
    BY DEF NoRepeat
  <2>1. /\ i \in Nat /\ j \in Nat /\ i + 1 \in 1 .. Len(s) /\ j + 1 \in 1 .. Len(s)
    BY <1>1
  <2>2. t[i] = s[i + 1] /\ t[j] = s[j + 1]
    BY <1>1
  <2>3. i + 1 = j + 1
    BY <2>1, <2>2 DEF NoRepeat
  <2>4. QED
    BY <2>1, <2>3
<1>4. ASSUME NEW x \in Listed(t) PROVE x \in Listed(s) /\ x # Head(s)
  <2>1. PICK i \in 1 .. Len(t) : x = t[i]
    BY DEF Listed
  <2>2. i + 1 \in 1 .. Len(s) /\ x = s[i + 1] /\ 1 \in 1 .. Len(s) /\ i + 1 # 1
    BY <1>1, <2>1
  <2>3. QED
    BY <1>1, <2>2 DEF Listed, NoRepeat
<1>5. ASSUME NEW x \in Listed(s), x # Head(s) PROVE x \in Listed(t)
  <2>1. PICK i \in 1 .. Len(s) : x = s[i]
    BY DEF Listed
  <2>2. i - 1 \in 1 .. Len(t) /\ (i - 1) + 1 = i
    BY <1>1, <1>5, <2>1
  <2>3. x = t[i - 1]
    BY <1>1, <2>1, <2>2
  <2>4. QED
    BY <2>2, <2>3 DEF Listed
<1>6. QED
  BY <1>1, <1>2, <1>3, <1>4, <1>5 DEF t

(* The numbers p * per + i are those of a producer's tasks, and no other's. *)
LEMMA SeqOf ==
  ASSUME NEW p \in PipeProducers, NEW i \in 0 .. per - 1
  PROVE  /\ p * per + i \in 0 .. total - 1
         /\ (p * per + i) \div per = p /\ (p * per + i) % per = i
<1>1. producers \in Nat /\ per \in Nat \ {0} /\ p \in Nat /\ p + 1 <= producers /\ i \in Nat
  BY PipeAssumption DEF PipeProducers
<1>2. p * per = per * p /\ p * per \in Nat
  BY <1>1
<1>3. (per * p + i) % per = i
  BY <1>1, ModUnique
<1>4. /\ p * per + i = per * ((p * per + i) \div per) + ((p * per + i) % per)
      /\ (p * per + i) \div per \in Int
  BY <1>1, <1>2, DivMod
<1>5. \A x, y \in Int : per * x = per * y => x = y
  BY <1>1
<1>6. (p * per + i) \div per = p
  BY <1>1, <1>2, <1>3, <1>4, <1>5
<1>7. (p + 1) * per <= producers * per
  BY <1>1
<1>8. (p + 1) * per = p * per + per
  BY <1>1
<1>9. p * per + i < total /\ total \in Nat
  BY <1>1, <1>2, <1>7, <1>8 DEF total
<1>10. QED
  BY <1>1, <1>2, <1>3, <1>6, <1>9

LEMMA ProducerOf ==
  ASSUME NEW s \in 0 .. total - 1
  PROVE  s \div per \in PipeProducers /\ s % per \in 0 .. per - 1 /\ per \in Nat \ {0}
<1>1. producers \in Nat /\ per \in Nat /\ total \in Nat /\ s \in Nat /\ s < producers * per
  BY PipeAssumption DEF total
<1>2. per # 0
  BY <1>1
<1>3. /\ s = per * (s \div per) + (s % per) /\ s \div per \in Int /\ s % per \in 0 .. per - 1
  BY <1>1, <1>2, DivMod
<1>4. \A q \in Int : per * q + (s % per) >= 0 /\ s % per < per => q >= 0
  <2> SUFFICES ASSUME NEW q \in Int, per * q + (s % per) >= 0, s % per < per, q < 0 PROVE FALSE
    OBVIOUS
  <2>1. per * (q + 1) <= 0 /\ per * (q + 1) = per * q + per
    BY <1>1
  <2>2. QED
    BY <1>1, <1>2, <1>3, <2>1
<1>5. \A q \in Int : per * q < producers * per => q < producers
  <2> SUFFICES ASSUME NEW q \in Int, per * q < producers * per, q >= producers PROVE FALSE
    BY <1>1
  <2>1. per * q >= per * producers /\ per * producers = producers * per
    BY <1>1
  <2>2. QED
    BY <1>1, <2>1
<1>6. s \div per >= 0
  BY <1>1, <1>3, <1>4
<1>7. per * (s \div per) < producers * per
  <2> DEFINE q == s \div per
  <2>1. per * q \in Int /\ producers * per \in Int
    BY <1>1, <1>3
  <2>2. QED
    BY <1>1, <1>3, <2>1
<1>8. QED
  BY <1>1, <1>2, <1>3, <1>5, <1>6, <1>7 DEF PipeProducers

LEMMA TotalNat == total \in Nat /\ per \in Nat
  BY PipeAssumption DEF total

LEMMA PastFinite ==
  ASSUME NEW A
  PROVE  /\ Past(A) \subseteq 0 .. total - 1 /\ IsFiniteSet(Past(A)) /\ Cardinality(Past(A)) \in Nat
         /\ Cardinality(Past(A)) <= total
         /\ Cardinality(Past(A)) = total => Past(A) = 0 .. total - 1
<1>1. Past(A) \subseteq 0 .. total - 1
  BY DEF Past, Submitted
<1>2. IsFiniteSet(0 .. total - 1) /\ Cardinality(0 .. total - 1) = total
  BY TotalNat, FS_Interval
<1>3. QED
  BY <1>1, <1>2, FS_Subset, FS_CardinalityType

(* A worker goes on with its task.                                         *)
LEMMA PastMoves ==
  ASSUME PipeShape, PipePlaces, NEW w \in PipeWorkers, NEW from \in ToComplete,
         NEW to \in {"idle"} \cup ToComplete,
         hand[w].at = from, UNCHANGED <<submitted, queue>>,
         hand'[w].at = to, to # "idle" => hand'[w].seq = hand[w].seq,
         \A v \in PipeWorkers : v # w => hand'[v] = hand[v],
         NEW A \in SUBSET ToComplete
  PROVE  /\ from \in A /\ to \notin A => /\ Past(A)' = Past(A) \cup {hand[w].seq}
                                        /\ hand[w].seq \notin Past(A)
         /\ (from \in A <=> to \in A) => Past(A)' = Past(A)
<1> DEFINE x == hand[w].seq
<1>1. Submitted' = Submitted /\ Listed(queue)' = Listed(queue)
  BY DEF Submitted, Listed
<1>2. x \in Submitted \ Listed(queue)
  BY DEF PipePlaces, ToComplete
<1>3. \A v \in PipeWorkers : v # w /\ hand[v].at \in A => hand[v].seq # x
  BY DEF PipePlaces, ToComplete
<1>4. CASE from \in A /\ to \notin A
  <2>1. x \in InHands(A)
    BY <1>4 DEF InHands
  <2>2. InHands(A)' = InHands(A) \ {x}
    BY <1>3, <1>4 DEF InHands
  <2>3. QED
    BY <1>1, <1>2, <1>4, <2>1, <2>2 DEF Past
<1>5. CASE from \in A <=> to \in A
  <2>1. \A v \in PipeWorkers : /\ hand'[v].at \in A <=> hand[v].at \in A
                               /\ hand'[v].at \in A => hand'[v].seq = hand[v].seq
    BY <1>5 DEF ToComplete
  <2>2. InHands(A)' = InHands(A)
    BY <2>1 DEF InHands
  <2>3. QED
    BY <1>1, <1>5, <2>2 DEF Past
<1>6. QED
  BY <1>4, <1>5

LEMMA InitPipe == PipeInit => PipeInv
<1> SUFFICES ASSUME PipeInit PROVE PipeInv
  OBVIOUS
<1>1. PipeShape
  BY TotalNat DEF PipeInit, PipeShape, Idle
<1>2. Submitted = {}
  <2>1. \A s \in 0 .. total - 1 : ~(submitted[s \div per] > s % per)
    BY ProducerOf DEF PipeInit
  <2>2. QED
    BY <2>1 DEF Submitted
<1>3. Listed(queue) = {} /\ Listed(sink) = {} /\ Listed(lat) = {}
  BY DEF PipeInit, Listed
<1>4. NoRepeat(queue) /\ NoRepeat(sink) /\ NoRepeat(lat)
  BY DEF PipeInit, NoRepeat
<1>5. PipePlaces
  BY <1>3, <1>4 DEF PipeInit, PipePlaces, Idle
<1>6. Past(ToCount) = {} /\ Past(ToSum) = {} /\ Past(ToPush) = {} /\ Past(ToComplete) = {}
  BY <1>2 DEF Past
<1>7. SumOf({}, total) = 0
  <2> DEFINE N == {n \in Nat : SumOf({}, n) = 0}
  <2>1. 0 \in N /\ \A n \in Nat : n \in N => n + 1 \in N
    BY SumIs
  <2>2. \A n \in Nat : n \in N
    <3> HIDE DEF N
    <3>1. QED
      BY <2>1, Induction
  <2>3. QED
    BY <2>2, TotalNat
<1>8. PipeCounts
  BY <1>6, <1>7, FS_EmptySet DEF PipeInit, PipeCounts
<1>9. PipeSamples /\ PipeMain
  BY <1>3, <1>4 DEF PipeInit, PipeSamples, PipeMain
<1>10. QED
  BY <1>1, <1>5, <1>8, <1>9 DEF PipeInv

LEMMA SubmitPipe ==
  ASSUME PipeInv, NEW p \in PipeProducers, SubmitVoid(p)
  PROVE  PipeInv'
<1> DEFINE i == submitted[p]
           s == p * per + i
<1>1. /\ i \in 0 .. per - 1 /\ submitted' = [submitted EXCEPT ![p] = i + 1]
      /\ queue' = Append(queue, s)
      /\ UNCHANGED <<hand, completed_tasks, processed, checksum, dropped, sink, main, lat>>
  BY TotalNat DEF SubmitVoid, PipeInv, PipeShape
<1>2. s \in 0 .. total - 1 /\ s \div per = p /\ s % per = i
  BY <1>1, SeqOf
<1>3. Submitted' = Submitted \cup {s} /\ s \notin Submitted
  <2>1. s \notin Submitted
    BY <1>1, <1>2 DEF Submitted
  <2>2. s \in Submitted'
    BY <1>1, <1>2 DEF Submitted, PipeInv, PipeShape
  <2>3. ASSUME NEW r \in 0 .. total - 1, r # s
        PROVE  r \in Submitted' <=> r \in Submitted
    <3>1. r \div per \in PipeProducers /\ r % per \in 0 .. per - 1 /\ per \in Nat \ {0}
      BY ProducerOf
    <3>2. CASE r \div per # p
      BY <1>1, <3>1, <3>2 DEF Submitted, PipeInv, PipeShape
    <3>3. CASE r \div per = p
      <4>1. r = per * p + (r % per) /\ s = per * p + (s % per)
        <5>1. r \in Int /\ s \in Int
          BY <1>2, TotalNat
        <5> HIDE DEF s
        <5>2. QED
          BY <1>2, <3>1, <3>3, <5>1, DivMod
      <4>2. r % per # i
        BY <1>2, <2>3, <4>1
      <4> DEFINE m == r % per
      <4>3. m \in Int /\ i \in Int
        BY <1>1, <3>1, TotalNat
      <4>4. m < i + 1 <=> m < i
        <5> HIDE DEF m, i
        <5>1. m # i
          BY <4>2 DEF m
        <5>2. QED
          BY <4>3, <5>1
      <4>5. QED
        BY <1>1, <3>1, <3>3, <4>3, <4>4 DEF Submitted, PipeInv, PipeShape
    <3>4. QED
      BY <3>2, <3>3
  <2>4. Submitted \subseteq 0 .. total - 1 /\ Submitted' \subseteq 0 .. total - 1
    BY DEF Submitted
  <2>5. QED
    BY <1>2, <2>1, <2>2, <2>3, <2>4
<1> HIDE DEF s
<1>4. s \in Nat /\ queue \in Seq(Nat) /\ s \notin Listed(queue)
  BY <1>2, <1>3 DEF PipeInv, PipeShape, PipePlaces
<1>5. /\ queue' \in Seq(Nat) /\ Listed(queue)' = Listed(queue) \cup {s} /\ NoRepeat(queue')
  BY <1>1, <1>4, ListAppend DEF PipeInv, PipePlaces, Listed
<1>6. \A A : Past(A)' = Past(A)
  <2>1. \A A : InHands(A)' = InHands(A)
    BY <1>1 DEF InHands
  <2>2. QED
    BY <1>3, <1>5, <2>1 DEF Past
<1>7. PipeShape'
  BY <1>1, <1>5, TotalNat DEF PipeInv, PipeShape
<1>8. PipePlaces'
  <2>1. \A w \in PipeWorkers : hand[w].at # "idle" => hand[w].seq # s
    BY <1>3 DEF PipeInv, PipePlaces
  <2>2. QED
    BY <1>1, <1>3, <1>5, <2>1 DEF PipeInv, PipePlaces
<1>9. PipeCounts' /\ PipeSamples'
  BY <1>1, <1>6 DEF PipeInv, PipeCounts, PipeSamples, Listed
<1>10. main = "join"
  BY <1>1, TotalNat DEF PipeInv, PipeShape, PipeMain
<1>11. PipeMain'
  BY <1>1, <1>10 DEF PipeInv, PipeMain
<1>12. QED
  BY <1>7, <1>8, <1>9, <1>11 DEF PipeInv

LEMMA TakenPipe ==
  ASSUME PipeInv, NEW w \in PipeWorkers, TaskTaken(w)
  PROVE  PipeInv'
<1> DEFINE x == Head(queue)
<1>1. /\ hand[w] = Idle /\ queue # <<>> /\ queue' = Tail(queue)
      /\ hand' = [hand EXCEPT ![w] = [at |-> "count", seq |-> x]]
      /\ UNCHANGED <<submitted, completed_tasks, processed, checksum, dropped, sink, main, lat>>
  BY DEF TaskTaken
<1>2. /\ queue' \in Seq(Nat) /\ x \in Nat /\ x \in Listed(queue)
      /\ Listed(queue)' = Listed(queue) \ {x} /\ NoRepeat(queue')
  <2>1. queue \in Seq(Nat) /\ NoRepeat(queue)
    BY DEF PipeInv, PipeShape, PipePlaces
  <2>2. Listed(queue)' = Listed(Tail(queue))
    BY <1>1 DEF Listed
  <2>3. QED
    BY <1>1, <2>1, <2>2, ListTail
<1> HIDE DEF x
<1>3. /\ hand'[w] = [at |-> "count", seq |-> x]
      /\ \A v \in PipeWorkers : v # w => hand'[v] = hand[v]
  BY <1>1 DEF PipeInv, PipeShape
<1>4. Submitted' = Submitted
  BY <1>1 DEF Submitted
<1>5. ASSUME NEW A \in SUBSET ToComplete, "count" \in A PROVE Past(A)' = Past(A)
  <2>1. hand[w].at \notin A
    BY <1>1 DEF Idle, ToComplete
  <2>2. InHands(A)' = InHands(A) \cup {x}
    BY <1>3, <1>5, <2>1 DEF InHands
  <2>3. QED
    BY <1>2, <1>4, <2>2 DEF Past
<1>6. /\ Past(ToCount)' = Past(ToCount) /\ Past(ToSum)' = Past(ToSum)
      /\ Past(ToPush)' = Past(ToPush) /\ Past(ToComplete)' = Past(ToComplete)
  BY <1>5 DEF ToCount, ToSum, ToPush, ToComplete
<1>7. PipeShape'
  BY <1>1, <1>2 DEF PipeInv, PipeShape, ToComplete
<1>8. PipePlaces'
  <2>1. x \in Submitted \ (Listed(queue) \ {x})
    BY <1>2 DEF PipeInv, PipePlaces
  <2>2. \A v \in PipeWorkers : hand[v].at # "idle" => hand[v].seq # x
    BY <1>2 DEF PipeInv, PipePlaces
  <2>3. QED
    BY <1>2, <1>3, <1>4, <2>1, <2>2 DEF PipeInv, PipePlaces
<1>9. PipeCounts' /\ PipeSamples'
  BY <1>1, <1>6, ZenonT(40) DEF PipeInv, PipeCounts, PipeSamples, Listed
<1>10. PipeMain'
  BY <1>1, <1>3 DEF PipeInv, PipeMain
<1>11. QED
  BY <1>7, <1>8, <1>9, <1>10 DEF PipeInv

(* What the steps of a task have in common; main has not drained yet.      *)
LEMMA TaskGoesOn ==
  ASSUME PipeInv, NEW w \in PipeWorkers, NEW from \in ToComplete,
         NEW to \in {"idle"} \cup ToComplete, hand[w].at = from,
         hand' = [hand EXCEPT ![w] = IF to = "idle" THEN Idle ELSE [@ EXCEPT !.at = to]],
         UNCHANGED <<submitted, queue, main, lat>>,
         sink' \in Seq(Nat), completed_tasks' \in Nat, processed' \in Nat,
         checksum' \in Nat, dropped' \in Nat
  PROVE  /\ PipeShape' /\ PipePlaces' /\ PipeMain' /\ lat = <<>>
         /\ hand[w].seq \in 0 .. total - 1
         /\ \A A \in SUBSET ToComplete :
              /\ from \in A /\ to \notin A => /\ Past(A)' = Past(A) \cup {hand[w].seq}
                                             /\ hand[w].seq \notin Past(A)
              /\ (from \in A <=> to \in A) => Past(A)' = Past(A)
<1> DEFINE x == hand[w].seq
<1>1. hand'[w].at = to /\ (to # "idle" => hand'[w].seq = x)
  BY DEF PipeInv, PipeShape, Idle
<1>2. /\ to = "idle" => hand'[w] = Idle
      /\ \A v \in PipeWorkers : v # w => hand'[v] = hand[v]
  BY DEF PipeInv, PipeShape
<1>3. Submitted' = Submitted /\ Listed(queue)' = Listed(queue) /\ from # "idle"
  BY DEF Submitted, Listed, ToComplete
<1>4. \A A \in SUBSET ToComplete :
        /\ from \in A /\ to \notin A => Past(A)' = Past(A) \cup {x} /\ x \notin Past(A)
        /\ (from \in A <=> to \in A) => Past(A)' = Past(A)
  <2> TAKE A \in SUBSET ToComplete
  <2>1. PipeShape /\ PipePlaces /\ UNCHANGED <<submitted, queue>>
    BY DEF PipeInv
  <2>2. QED
    BY <1>1, <1>2, <2>1, PastMoves
<1>5. hand' \in [PipeWorkers -> [at : {"idle"} \cup ToComplete, seq : Nat \cup {NULL}]]
  BY DEF PipeInv, PipeShape, Idle
<1>6. PipeShape'
  BY <1>5 DEF PipeInv, PipeShape
<1>7. PipePlaces'
  <2>1. NoRepeat(queue') /\ Listed(queue)' \subseteq Submitted'
    BY <1>3 DEF PipeInv, PipePlaces
  <2>2. x \in Submitted \ Listed(queue)
    BY <1>3 DEF PipeInv, PipePlaces
  <2>3. ASSUME NEW v \in PipeWorkers
        PROVE  IF hand'[v].at = "idle" THEN hand'[v] = Idle
                                       ELSE hand'[v].seq \in Submitted' \ Listed(queue)'
    <3>1. CASE v = w
      BY <1>1, <1>2, <1>3, <2>2, <3>1
    <3>2. CASE v # w
      BY <1>2, <1>3, <3>2 DEF PipeInv, PipePlaces
    <3>3. QED
      BY <3>1, <3>2
  <2>4. ASSUME NEW v \in PipeWorkers, NEW u \in PipeWorkers, v # u,
               hand'[v].at # "idle", hand'[u].at # "idle"
        PROVE  hand'[v].seq # hand'[u].seq
    <3>1. /\ hand[v].at # "idle" /\ hand'[v].seq = hand[v].seq
          /\ hand[u].at # "idle" /\ hand'[u].seq = hand[u].seq
      BY <1>1, <1>2, <1>3, <2>4
    <3>2. QED
      BY <2>4, <3>1 DEF PipeInv, PipePlaces
  <2>5. QED
    BY <2>1, <2>3, <2>4 DEF PipePlaces, Listed
<1>8. main \in {"join", "poll"}
  BY <1>3 DEF PipeInv, PipeShape, PipeMain, Idle
<1>9. lat = <<>> /\ PipeMain'
  BY <1>8 DEF PipeInv, PipeMain
<1>10. x \in 0 .. total - 1
  BY <1>3 DEF PipeInv, PipePlaces, Submitted
<1>11. QED
  BY <1>4, <1>6, <1>7, <1>9, <1>10

LEMMA CountsPipe ==
  ASSUME PipeInv, NEW w \in PipeWorkers, TaskCounts(w)
  PROVE  PipeInv'
<1> DEFINE x == hand[w].seq
<1>1. /\ hand[w].at = "count" /\ hand' = [hand EXCEPT ![w].at = "sum"]
      /\ processed' = processed + 1
      /\ UNCHANGED <<submitted, queue, completed_tasks, checksum, dropped, sink, main, lat>>
  BY DEF TaskCounts, InTask
<1>2. /\ processed \in Nat /\ processed' \in Nat /\ sink' \in Seq(Nat) /\ completed_tasks' \in Nat
      /\ checksum' \in Nat /\ dropped' \in Nat
  BY <1>1 DEF PipeInv, PipeShape
<1>3. /\ PipeShape' /\ PipePlaces' /\ PipeMain'
      /\ Past(ToCount)' = Past(ToCount) \cup {x} /\ x \notin Past(ToCount)
      /\ Past(ToSum)' = Past(ToSum) /\ Past(ToPush)' = Past(ToPush)
      /\ Past(ToComplete)' = Past(ToComplete)
  <2>1. hand' = [hand EXCEPT ![w] = IF "sum" = "idle" THEN Idle ELSE [@ EXCEPT !.at = "sum"]]
    BY <1>1
  <2>2. "count" \in ToComplete /\ "sum" \in ToComplete
    BY DEF ToComplete
  <2>3. UNCHANGED <<submitted, queue, main, lat>>
    BY <1>1
  <2>4. /\ PipeShape' /\ PipePlaces' /\ PipeMain'
        /\ \A A \in SUBSET ToComplete :
              /\ "count" \in A /\ "sum" \notin A => Past(A)' = Past(A) \cup {x} /\ x \notin Past(A)
              /\ ("count" \in A <=> "sum" \in A) => Past(A)' = Past(A)
    BY <1>1, <1>2, <2>1, <2>2, <2>3, TaskGoesOn
  <2>5. QED
    BY <2>4 DEF ToCount, ToSum, ToPush, ToComplete
<1>4. Cardinality(Past(ToCount)') = Cardinality(Past(ToCount)) + 1
  BY <1>3, PastFinite, FS_AddElement
<1>5. PipeCounts'
  BY <1>1, <1>3, <1>4 DEF PipeInv, PipeCounts
<1>6. PipeSamples'
  BY <1>1, <1>3, SMTT(30) DEF PipeInv, PipeSamples, Listed, NoRepeat
<1>7. QED
  BY <1>3, <1>5, <1>6 DEF PipeInv

LEMMA SumsPipe ==
  ASSUME PipeInv, NEW w \in PipeWorkers, TaskSums(w)
  PROVE  PipeInv'
<1> DEFINE x == hand[w].seq
<1>1. /\ hand[w].at = "sum" /\ hand' = [hand EXCEPT ![w].at = "push"]
      /\ checksum' = checksum + x
      /\ UNCHANGED <<submitted, queue, completed_tasks, processed, dropped, sink, main, lat>>
  BY DEF TaskSums, InTask
<1>2. x \in 0 .. total - 1
  BY <1>1 DEF PipeInv, PipePlaces, Submitted
<1>3. /\ x \in Nat /\ x < total /\ checksum \in Nat /\ checksum' \in Nat /\ processed' \in Nat
      /\ sink' \in Seq(Nat) /\ completed_tasks' \in Nat /\ dropped' \in Nat
  BY <1>1, <1>2, TotalNat DEF PipeInv, PipeShape
<1>4. /\ PipeShape' /\ PipePlaces' /\ PipeMain' /\ lat = <<>>
      /\ Past(ToSum)' = Past(ToSum) \cup {x} /\ x \notin Past(ToSum)
      /\ Past(ToCount)' = Past(ToCount) /\ Past(ToPush)' = Past(ToPush)
      /\ Past(ToComplete)' = Past(ToComplete)
  <2>1. hand' = [hand EXCEPT ![w] = IF "push" = "idle" THEN Idle ELSE [@ EXCEPT !.at = "push"]]
    BY <1>1
  <2>2. "sum" \in ToComplete /\ "push" \in {"idle"} \cup ToComplete
    BY DEF ToComplete
  <2>3. UNCHANGED <<submitted, queue, main, lat>>
    BY <1>1
  <2>4. /\ PipeShape' /\ PipePlaces' /\ PipeMain' /\ lat = <<>>
        /\ \A A \in SUBSET ToComplete :
              /\ "sum" \in A /\ "push" \notin A => Past(A)' = Past(A) \cup {x} /\ x \notin Past(A)
              /\ ("sum" \in A <=> "push" \in A) => Past(A)' = Past(A)
    BY <1>1, <1>3, <2>1, <2>2, <2>3, TaskGoesOn
  <2>5. QED
    BY <2>4 DEF ToCount, ToSum, ToPush, ToComplete
<1>5. SumOf(Past(ToSum) \cup {x}, total) = SumOf(Past(ToSum), total) + x
  <2>1. SumOf(Past(ToSum) \cup {x}, total) = SumOf(Past(ToSum), total) + (IF x < total THEN x ELSE 0)
    BY <1>3, <1>4, TotalNat, SumAdd
  <2>2. QED
    BY <1>3, <2>1
<1>6. PipeCounts'
  <2>1. total' = total
    BY DEF total
  <2>2. checksum' = SumOf(Past(ToSum), total)'
    BY <1>1, <1>4, <1>5 DEF PipeInv, PipeCounts
  <2>3. QED
    BY <1>1, <1>4, <2>2 DEF PipeInv, PipeCounts
<1>7. PipeSamples'
  BY <1>1, <1>4 DEF PipeInv, PipeSamples, Listed, NoRepeat
<1>8. QED
  BY <1>4, <1>6, <1>7 DEF PipeInv

LEMMA SamplesPipe ==
  ASSUME PipeInv, NEW w \in PipeWorkers, TaskSamples(w)
  PROVE  PipeInv'
<1> DEFINE x == hand[w].seq
<1>1. /\ hand[w].at = "push" /\ hand' = [hand EXCEPT ![w].at = "complete"]
      /\ \/ Len(sink) < SinkCapacity /\ sink' = Append(sink, x) /\ dropped' = dropped
         \/ Len(sink) = SinkCapacity /\ dropped' = dropped + 1 /\ sink' = sink
      /\ UNCHANGED <<submitted, queue, completed_tasks, processed, checksum, main, lat>>
  BY DEF TaskSamples, InTask
<1>2. x \in 0 .. total - 1
  BY <1>1 DEF PipeInv, PipePlaces, Submitted
<1>3. /\ x \in Nat /\ sink \in Seq(Nat) /\ dropped \in Nat /\ Len(sink) \in Nat
      /\ processed' \in Nat /\ checksum' \in Nat /\ completed_tasks' \in Nat
  BY <1>1, <1>2, TotalNat DEF PipeInv, PipeShape
<1>4. sink' \in Seq(Nat) /\ dropped' \in Nat
  <2>1. Append(sink, x) \in Seq(Nat) /\ dropped + 1 \in Nat
    BY <1>3, ListAppend
  <2>2. QED
    BY <1>1, <1>3, <2>1
<1>5. /\ PipeShape' /\ PipePlaces' /\ PipeMain' /\ lat = <<>>
      /\ Past(ToPush)' = Past(ToPush) \cup {x} /\ x \notin Past(ToPush)
      /\ Past(ToCount)' = Past(ToCount) /\ Past(ToSum)' = Past(ToSum)
      /\ Past(ToComplete)' = Past(ToComplete)
  <2>1. hand' = [hand EXCEPT ![w] = IF "complete" = "idle" THEN Idle ELSE [@ EXCEPT !.at = "complete"]]
    BY <1>1
  <2>2. "push" \in ToComplete /\ "complete" \in {"idle"} \cup ToComplete
    BY DEF ToComplete
  <2>3. UNCHANGED <<submitted, queue, main, lat>>
    BY <1>1
  <2>4. /\ PipeShape' /\ PipePlaces' /\ PipeMain' /\ lat = <<>>
        /\ \A A \in SUBSET ToComplete :
              /\ "push" \in A /\ "complete" \notin A => Past(A)' = Past(A) \cup {x} /\ x \notin Past(A)
              /\ ("push" \in A <=> "complete" \in A) => Past(A)' = Past(A)
    BY <1>1, <1>3, <1>4, <2>1, <2>2, <2>3, TaskGoesOn
  <2>5. QED
    BY <2>4 DEF ToCount, ToSum, ToPush, ToComplete
<1>6. Cardinality(Past(ToPush)') = Cardinality(Past(ToPush)) + 1
  BY <1>5, PastFinite, FS_AddElement
<1>7. /\ Len(lat) = 0 /\ Listed(lat) = {} /\ NoRepeat(lat)
      /\ Listed(lat)' = {} /\ NoRepeat(lat)'
  BY <1>1, <1>5 DEF Listed, NoRepeat
<1>8. /\ Len(lat) + Len(sink) + dropped = Cardinality(Past(ToPush)) /\ NoRepeat(sink)
      /\ Listed(sink) \subseteq Past(ToPush)
      /\ dropped > 0 => Len(lat) + Len(sink) = SinkCapacity
  BY DEF PipeInv, PipeCounts, PipeSamples
<1>9. CASE Len(sink) < SinkCapacity /\ sink' = Append(sink, x) /\ dropped' = dropped
  <2>1. /\ Len(sink') = Len(sink) + 1 /\ Listed(sink') = Listed(sink) \cup {x}
        /\ NoRepeat(sink')
    BY <1>3, <1>5, <1>8, <1>9, ListAppend
  <2>2. Listed(sink)' = Listed(sink')
    BY DEF Listed
  <2>3. dropped = 0
    BY <1>3, <1>7, <1>8, <1>9
  <2>4. PipeCounts'
    BY <1>1, <1>3, <1>5, <1>6, <1>7, <1>8, <1>9, <2>1 DEF PipeInv, PipeCounts
  <2>5. PipeSamples'
    BY <1>1, <1>5, <1>7, <1>8, <1>9, <2>1, <2>2, <2>3 DEF PipeInv, PipeSamples
  <2>6. QED
    BY <1>5, <2>4, <2>5 DEF PipeInv
<1>10. CASE Len(sink) = SinkCapacity /\ dropped' = dropped + 1 /\ sink' = sink
  <2>1. Listed(sink)' = Listed(sink) /\ NoRepeat(sink)'
    BY <1>8, <1>10 DEF Listed
  <2>2. PipeCounts'
    BY <1>1, <1>3, <1>5, <1>6, <1>7, <1>8, <1>10 DEF PipeInv, PipeCounts
  <2>3. PipeSamples'
    BY <1>1, <1>3, <1>5, <1>7, <1>8, <1>10, <2>1 DEF PipeInv, PipeSamples
  <2>4. QED
    BY <1>5, <2>2, <2>3 DEF PipeInv
<1>11. QED
  BY <1>1, <1>9, <1>10

LEMMA CompletesPipe ==
  ASSUME PipeInv, NEW w \in PipeWorkers, TaskCompletes(w)
  PROVE  PipeInv'
<1> DEFINE x == hand[w].seq
<1>1. /\ hand[w].at = "complete" /\ hand' = [hand EXCEPT ![w] = Idle]
      /\ completed_tasks' = completed_tasks + 1
      /\ UNCHANGED <<submitted, queue, processed, checksum, dropped, sink, main, lat>>
  BY DEF TaskCompletes
<1>2. /\ completed_tasks \in Nat /\ completed_tasks' \in Nat /\ sink' \in Seq(Nat)
      /\ processed' \in Nat /\ checksum' \in Nat /\ dropped' \in Nat
  BY <1>1 DEF PipeInv, PipeShape
<1>3. /\ PipeShape' /\ PipePlaces' /\ PipeMain'
      /\ Past(ToComplete)' = Past(ToComplete) \cup {x} /\ x \notin Past(ToComplete)
      /\ Past(ToCount)' = Past(ToCount) /\ Past(ToSum)' = Past(ToSum)
      /\ Past(ToPush)' = Past(ToPush)
  <2>1. hand' = [hand EXCEPT ![w] = IF "idle" = "idle" THEN Idle ELSE [@ EXCEPT !.at = "idle"]]
    BY <1>1
  <2>2. "complete" \in ToComplete /\ "idle" \in {"idle"} \cup ToComplete
    BY DEF ToComplete
  <2>3. UNCHANGED <<submitted, queue, main, lat>>
    BY <1>1
  <2>4. /\ PipeShape' /\ PipePlaces' /\ PipeMain' /\ lat = <<>>
        /\ \A A \in SUBSET ToComplete :
              /\ "complete" \in A /\ "idle" \notin A => Past(A)' = Past(A) \cup {x} /\ x \notin Past(A)
              /\ ("complete" \in A <=> "idle" \in A) => Past(A)' = Past(A)
    BY <1>1, <1>2, <2>1, <2>2, <2>3, TaskGoesOn
  <2>5. QED
    BY <2>4 DEF ToCount, ToSum, ToPush, ToComplete
<1>4. Cardinality(Past(ToComplete)') = Cardinality(Past(ToComplete)) + 1
  BY <1>3, PastFinite, FS_AddElement
<1>5. PipeCounts'
  BY <1>1, <1>3, <1>4 DEF PipeInv, PipeCounts
<1>6. PipeSamples'
  <2>1. /\ Listed(lat)' = Listed(lat) /\ Listed(sink)' = Listed(sink)
        /\ NoRepeat(lat)' = NoRepeat(lat) /\ NoRepeat(sink)' = NoRepeat(sink)
    BY <1>1 DEF Listed, NoRepeat
  <2>2. PipeSamples
    BY DEF PipeInv
  <2>3. QED
    BY <1>1, <1>3, <2>1, <2>2 DEF PipeSamples
<1>7. QED
  BY <1>3, <1>5, <1>6 DEF PipeInv

(* When all tasks are counted as completed, none is left anywhere.         *)
LEMMA AllDone ==
  ASSUME PipeInv, completed_tasks >= total
  PROVE  /\ Past(ToComplete) = 0 .. total - 1
         /\ queue = <<>> /\ \A w \in PipeWorkers : hand[w] = Idle
<1>1. completed_tasks = Cardinality(Past(ToComplete))
  BY DEF PipeInv, PipeCounts
<1>2. Past(ToComplete) = 0 .. total - 1
  BY <1>1, PastFinite, TotalNat
<1>3. Submitted \subseteq Past(ToComplete)
  BY <1>2 DEF Submitted
<1>4. Listed(queue) = {}
  BY <1>3 DEF PipeInv, PipePlaces, Past
<1>5. queue = <<>>
  <2>1. queue \in Seq(Nat)
    BY DEF PipeInv, PipeShape
  <2>2. Len(queue) = 0
    <3>1. Len(queue) \in Nat
      BY <2>1
    <3>2. \A i \in 1 .. Len(queue) : queue[i] \in Listed(queue)
      BY DEF Listed
    <3>3. 1 \notin 1 .. Len(queue)
      BY <1>4, <3>2
    <3>4. QED
      BY <3>1, <3>3
  <2>3. QED
    BY <2>1, <2>2
<1>6. ASSUME NEW w \in PipeWorkers PROVE hand[w] = Idle
  <2>1. SUFFICES ASSUME hand[w].at # "idle" PROVE FALSE
    BY DEF PipeInv, PipePlaces
  <2>2. hand[w].at \in ToComplete /\ hand[w].seq \in Submitted
    BY <2>1 DEF PipeInv, PipeShape, PipePlaces
  <2>3. hand[w].seq \in InHands(ToComplete)
    BY <2>2 DEF InHands
  <2>4. QED
    BY <1>3, <2>2, <2>3 DEF Past
<1>7. QED
  BY <1>2, <1>5, <1>6

LEMMA MainWaitsPipe ==
  ASSUME PipeInv, MainJoins \/ MainPolls \/ MainShutsDown
  PROVE  PipeInv'
<1>1. UNCHANGED <<submitted, queue, hand, completed_tasks, processed, checksum, dropped, sink, lat>>
  BY DEF MainJoins, MainPolls, MainShutsDown
<1>2. Submitted' = Submitted /\ Listed(queue)' = Listed(queue)
  BY <1>1 DEF Submitted, Listed
<1>3. \A A : Past(A)' = Past(A)
  BY <1>1, <1>2 DEF Past, InHands
<1>4. PipeShape'
  BY <1>1 DEF PipeInv, PipeShape, MainJoins, MainPolls, MainShutsDown
<1>5. PipePlaces'
  BY <1>1, <1>2 DEF PipeInv, PipePlaces
<1>6. PipeCounts' /\ PipeSamples'
  BY <1>1, <1>3 DEF PipeInv, PipeCounts, PipeSamples, Listed
<1>7. PipeMain'
  <2>1. CASE MainJoins
    BY <1>1, <2>1 DEF MainJoins, PipeInv, PipeMain
  <2>2. CASE MainPolls
    <3>1. queue = <<>> /\ \A w \in PipeWorkers : hand[w] = Idle
      BY <2>2, AllDone DEF MainPolls, AllCompleted
    <3>2. QED
      BY <1>1, <2>2, <3>1 DEF MainPolls, PipeInv, PipeMain
  <2>3. CASE MainShutsDown
    BY <1>1, <2>3 DEF MainShutsDown, PipeInv, PipeMain
  <2>4. QED
    BY <2>1, <2>2, <2>3
<1>8. QED
  BY <1>4, <1>5, <1>6, <1>7 DEF PipeInv

LEMMA DrainsPipe ==
  ASSUME PipeInv, MainDrains
  PROVE  PipeInv'
<1>1. /\ main = "drain"
      /\ UNCHANGED <<submitted, queue, hand, completed_tasks, processed, checksum, dropped>>
  BY DEF MainDrains
<1>2. Submitted' = Submitted /\ Listed(queue)' = Listed(queue)
  BY <1>1 DEF Submitted, Listed
<1>3. \A A : Past(A)' = Past(A)
  BY <1>1, <1>2 DEF Past, InHands
<1>4. PipePlaces'
  BY <1>1, <1>2 DEF PipeInv, PipePlaces
<1>5. CASE sink # <<>> /\ lat' = Append(lat, Head(sink)) /\ sink' = Tail(sink) /\ main' = main
  <2> DEFINE x == Head(sink)
  <2>1. lat \in Seq(Nat) /\ sink \in Seq(Nat) /\ NoRepeat(lat) /\ NoRepeat(sink)
    BY DEF PipeInv, PipeShape, PipeSamples
  <2>2. /\ sink' \in Seq(Nat) /\ Len(sink') = Len(sink) - 1 /\ Len(sink) \in Nat
        /\ x \in Nat /\ x \in Listed(sink)
        /\ Listed(sink') = Listed(sink) \ {x} /\ NoRepeat(sink')
    BY <1>5, <2>1, ListTail
  <2> HIDE DEF x
  <2>3. lat' = Append(lat, x)
    BY <1>5 DEF x
  <2>4. x \notin Listed(lat)
    BY <2>2 DEF PipeInv, PipeSamples
  <2>5. /\ lat' \in Seq(Nat) /\ Len(lat') = Len(lat) + 1 /\ Len(lat) \in Nat
        /\ Listed(lat') = Listed(lat) \cup {x} /\ NoRepeat(lat')
    BY <2>1, <2>2, <2>3, <2>4, ListAppend
  <2>6. Len(lat') + Len(sink') = Len(lat) + Len(sink)
    BY <2>2, <2>5
  <2>7. Listed(lat)' = Listed(lat') /\ Listed(sink)' = Listed(sink')
    BY DEF Listed
  <2>8. PipeShape' /\ PipeMain'
    BY <1>1, <1>5, <2>2, <2>5 DEF PipeInv, PipeShape, PipeMain
  <2>9. PipeCounts'
    BY <1>1, <1>3, <2>6 DEF PipeInv, PipeCounts
  <2>10. PipeSamples'
    BY <1>1, <1>3, <2>2, <2>5, <2>6, <2>7 DEF PipeInv, PipeSamples
  <2>11. QED
    BY <1>4, <2>8, <2>9, <2>10 DEF PipeInv
<1>6. CASE sink = <<>> /\ main' = "shutdown" /\ UNCHANGED <<lat, sink>>
  <2>1. PipeShape' /\ PipeMain'
    BY <1>1, <1>6 DEF PipeInv, PipeShape, PipeMain
  <2>2. PipeCounts' /\ PipeSamples'
    BY <1>1, <1>3, <1>6 DEF PipeInv, PipeCounts, PipeSamples, Listed
  <2>3. QED
    BY <1>4, <2>1, <2>2 DEF PipeInv
<1>7. QED
  BY <1>5, <1>6 DEF MainDrains

LEMMA InitPipeNext == PipeInit' => PipeInv'
  BY InitPipe, PTL

(* A second run_pipeline starts where the first one did.                   *)
LEMMA RepeatsPipe ==
  ASSUME PipeInv, MainRepeats
  PROVE  PipeInv'
<1>1. queue = <<>> /\ sink = <<>> /\ hand = [w \in PipeWorkers |-> Idle]
  <2>1. queue = <<>> /\ sink = <<>> /\ \A w \in PipeWorkers : hand[w] = Idle
    BY DEF MainRepeats, PipeInv, PipeMain
  <2>2. QED
    BY <2>1 DEF PipeInv, PipeShape
<1>2. PipeInit'
  BY <1>1 DEF MainRepeats, PipeInit
<1>3. QED
  BY <1>2, InitPipeNext

LEMMA StepPipe == PipeInv /\ [PipeNext]_pipeVars => PipeInv'
<1> SUFFICES ASSUME PipeInv, [PipeNext]_pipeVars PROVE PipeInv'
  OBVIOUS
<1>1. ASSUME NEW p \in PipeProducers, SubmitVoid(p) PROVE PipeInv'
  BY <1>1, SubmitPipe
<1>2. ASSUME NEW w \in PipeWorkers, TaskTaken(w) PROVE PipeInv'
  BY <1>2, TakenPipe
<1>3. ASSUME NEW w \in PipeWorkers, TaskCounts(w) PROVE PipeInv'
  BY <1>3, CountsPipe
<1>4. ASSUME NEW w \in PipeWorkers, TaskSums(w) PROVE PipeInv'
  BY <1>4, SumsPipe
<1>5. ASSUME NEW w \in PipeWorkers, TaskSamples(w) PROVE PipeInv'
  BY <1>5, SamplesPipe
<1>6. ASSUME NEW w \in PipeWorkers, TaskCompletes(w) PROVE PipeInv'
  BY <1>6, CompletesPipe
<1>7. CASE MainJoins \/ MainPolls \/ MainShutsDown
  BY <1>7, MainWaitsPipe
<1>8. CASE MainDrains
  BY <1>8, DrainsPipe
<1>9. CASE MainRepeats
  BY <1>9, RepeatsPipe
<1>10. CASE UNCHANGED pipeVars
  <2>1. Submitted' = Submitted /\ Listed(queue)' = Listed(queue)
    BY <1>10 DEF pipeVars, Submitted, Listed
  <2>2. \A A : Past(A)' = Past(A)
    BY <1>10, <2>1 DEF pipeVars, Past, InHands
  <2>3. PipeShape' /\ PipePlaces' /\ PipeMain'
    BY <1>10, <2>1 DEF pipeVars, PipeInv, PipeShape, PipePlaces, PipeMain
  <2>4. PipeCounts' /\ PipeSamples'
    BY <1>10, <2>2 DEF pipeVars, PipeInv, PipeCounts, PipeSamples, Listed
  <2>5. QED
    BY <2>3, <2>4 DEF PipeInv
<1>11. QED
  BY <1>1, <1>2, <1>3, <1>4, <1>5, <1>6, <1>7, <1>8, <1>9, <1>10 DEF PipeNext

(* With all producers done and nothing on the way, every task is past      *)
(* every step.                                                             *)
LEMMA PipeInvGives == PipeInv => ResultAddsUp
<1> SUFFICES ASSUME PipeInv, main \in {"drain", "shutdown", "returned"}
             PROVE  /\ processed = total
                    /\ checksum = (total * (total - 1)) \div 2
                    /\ Len(lat) + Len(sink) + dropped = total
                    /\ dropped > 0 => Len(lat) + Len(sink) = SinkCapacity
                    /\ \A i, j \in DOMAIN lat : lat[i] = lat[j] => i = j
  BY DEF ResultAddsUp
<1>1. Submitted = 0 .. total - 1
  <2>1. \A p \in PipeProducers : submitted[p] = per
    BY DEF PipeInv, PipeMain
  <2>2. \A s \in 0 .. total - 1 : submitted[s \div per] > s % per
    BY <2>1, ProducerOf
  <2>3. QED
    BY <2>2 DEF Submitted
<1>2. Listed(queue) = {} /\ \A A \in SUBSET ToComplete : InHands(A) = {}
  <2>1. queue = <<>> /\ \A w \in PipeWorkers : hand[w].at = "idle"
    BY DEF PipeInv, PipeMain, Idle
  <2>2. QED
    BY <2>1 DEF Listed, InHands, ToComplete
<1>3. \A A \in SUBSET ToComplete : Past(A) = 0 .. total - 1
  BY <1>1, <1>2 DEF Past
<1>4. /\ Past(ToCount) = 0 .. total - 1 /\ Past(ToSum) = 0 .. total - 1
      /\ Past(ToPush) = 0 .. total - 1
  BY <1>3 DEF ToCount, ToSum, ToPush, ToComplete
<1>5. Cardinality(0 .. total - 1) = total
  BY TotalNat, FS_Interval
<1>6. SumOf(0 .. total - 1, total) = (total * (total - 1)) \div 2
  BY TotalNat, SumAll
<1>7. \A i, j \in DOMAIN lat : lat[i] = lat[j] => i = j
  <2>1. DOMAIN lat = 1 .. Len(lat)
    BY DEF PipeInv, PipeShape
  <2>2. QED
    BY <2>1 DEF PipeInv, PipeSamples, NoRepeat
<1>8. QED
  BY <1>4, <1>5, <1>6, <1>7 DEF PipeInv, PipeCounts, PipeSamples

(* app/pipeline_demo.cpp: whatever the number of workers, producers and    *)
(* tasks and however small the queues, what run_pipeline returns adds up.  *)
THEOREM PipeResultAddsUp == PipeSpec => []ResultAddsUp
<1>1. PipeSpec => []PipeInv
  BY InitPipe, StepPipe, PTL DEF PipeSpec
<1>2. QED
  BY <1>1, PipeInvGives, PTL
=============================================================================
