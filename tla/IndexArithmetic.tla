--------------------------- MODULE IndexArithmetic ---------------------------
(***************************************************************************)
(* What the ring buffers and queues of this repository rely on when they   *)
(* map growing positions to the C slots of an array by p mod C; and        *)
(* induction over the naturals, with the recursive functions and the sums  *)
(* that rest on it.                                                        *)
(***************************************************************************)
EXTENDS Integers, Sequences, SequenceTheorems, WellFoundedInduction, TLAPS

LEMMA DivMod ==
  ASSUME NEW C \in Nat \ {0}, NEW a \in Int
  PROVE  /\ a = C * (a \div C) + (a % C)
         /\ a \div C \in Int /\ a % C \in 0 .. C - 1
  OBVIOUS

LEMMA ModUnique ==
  ASSUME NEW C \in Nat \ {0}, NEW q \in Int, NEW r \in 0 .. C - 1
  PROVE  (C * q + r) % C = r
  OBVIOUS

(* Two positions less than a round apart share a slot only if equal.       *)
LEMMA SlotsDistinct ==
  ASSUME NEW C \in Nat \ {0}, NEW a \in Int, NEW b \in Int,
         a % C = b % C, a < b + C, b < a + C
  PROVE  a = b
<1> DEFINE qa == a \div C
           qb == b \div C
<1>1. /\ a = C * qa + (a % C) /\ b = C * qb + (b % C)
      /\ qa \in Int /\ qb \in Int /\ a % C \in Int
  BY DivMod
<1> HIDE DEF qa, qb
<1>2. b - a = C * (qb - qa)
  BY <1>1
<1>3. ASSUME NEW d \in Int, C * d < C PROVE d <= 0
  BY <1>3
<1>4. ASSUME NEW d \in Int, C * d > -C PROVE d >= 0
  <2>1. C * (-d) < C
    BY <1>4
  <2>2. QED
    BY <1>3, <2>1
<1>5. qb - qa = 0
  BY <1>1, <1>2, <1>3, <1>4
<1>6. QED
  BY <1>1, <1>5

(* A whole number of rounds further on is the same slot.                   *)
LEMMA SameSlot ==
  ASSUME NEW C \in Nat \ {0}, NEW a \in Int, NEW k \in Int
  PROVE  (a + C * k) % C = a % C
<1> DEFINE q == a \div C
           r == a % C
<1>1. a = C * q + r /\ q \in Int /\ r \in 0 .. C - 1
  BY DivMod
<1> HIDE DEF q, r
<1>2. a + C * k = C * (q + k) + r
  BY <1>1
<1>3. (C * (q + k) + r) % C = r
  BY <1>1, ModUnique
<1>4. QED
  BY <1>2, <1>3 DEF r

(* Reducing a position first makes no difference.                          *)
LEMMA ModPlus ==
  ASSUME NEW C \in Nat \ {0}, NEW a \in Int, NEW b \in Int
  PROVE  ((a % C) + b) % C = (a + b) % C
<1> DEFINE q == a \div C
           r == a % C
<1>1. a = C * q + r /\ q \in Int /\ r \in 0 .. C - 1
  BY DivMod
<1> HIDE DEF q, r
<1> DEFINE s == r + b
<1>2. a + b = s + C * q /\ s \in Int
  BY <1>1
<1> HIDE DEF s
<1>3. (s + C * q) % C = s % C
  BY <1>1, <1>2, SameSlot
<1>4. QED
  BY <1>2, <1>3 DEF r, s

(* An index is its own slot.                                               *)
LEMMA ModSmall ==
  ASSUME NEW C \in Nat \ {0}, NEW a \in 0 .. C - 1
  PROVE  a % C = a
  OBVIOUS

-----------------------------------------------------------------------------
(* Indices that wrap around at W: what the distance (x - y) % W between two*)
(* of them is after one of them has moved.                                 *)
LEMMA DistanceIs ==
  ASSUME NEW W \in Nat \ {0}, NEW x \in Int, NEW y \in Int,
         NEW k \in Int, NEW m \in 0 .. W - 1, x - y = W * k + m
  PROVE  (x - y) % W = m
  BY ModUnique

(* The further index takes one step.                                       *)
LEMMA DistanceGrows ==
  ASSUME NEW W \in Nat \ {0}, NEW x \in 0 .. W - 1, NEW y \in 0 .. W - 1, (x - y) % W < W - 1
  PROVE  (((x + 1) % W) - y) % W = ((x - y) % W) + 1
<1> DEFINE m == (x - y) % W
           z == (x + 1) % W
<1>1. x - y \in Int /\ x + 1 \in Int
  OBVIOUS
<1>2. m \in 0 .. W - 1 /\ z \in 0 .. W - 1 /\ m < W - 1
  BY <1>1, DivMod
<1>3. PICK k \in Int : x - y = W * k + m
  BY <1>1, DivMod
<1>4. PICK j \in Int : x + 1 = W * j + z
  BY <1>1, DivMod
<1> HIDE DEF m, z
<1>5. z - y = W * (k - j) + (m + 1)
  BY <1>2, <1>3, <1>4
<1> DEFINE n == m + 1
           i == k - j
<1>6. n \in 0 .. W - 1 /\ i \in Int /\ z \in Int /\ z - y = W * i + n
  BY <1>2, <1>5
<1> HIDE DEF n, i
<1>7. (z - y) % W = n
  BY <1>6, DistanceIs
<1>8. QED
  BY <1>7 DEF m, n, z

(* The nearer one takes one.                                               *)
LEMMA DistanceShrinks ==
  ASSUME NEW W \in Nat \ {0}, NEW x \in 0 .. W - 1, NEW y \in 0 .. W - 1, (x - y) % W > 0
  PROVE  (x - ((y + 1) % W)) % W = ((x - y) % W) - 1
<1> DEFINE m == (x - y) % W
           z == (y + 1) % W
<1>1. x - y \in Int /\ y + 1 \in Int
  OBVIOUS
<1>2. m \in 0 .. W - 1 /\ z \in 0 .. W - 1 /\ m > 0
  BY <1>1, DivMod
<1>3. PICK k \in Int : x - y = W * k + m
  BY <1>1, DivMod
<1>4. PICK j \in Int : y + 1 = W * j + z
  BY <1>1, DivMod
<1> HIDE DEF m, z
<1>5. x - z = W * (k + j) + (m - 1)
  BY <1>2, <1>3, <1>4
<1> DEFINE n == m - 1
           i == k + j
<1>6. n \in 0 .. W - 1 /\ i \in Int /\ z \in Int /\ x - z = W * i + n
  BY <1>2, <1>5
<1> HIDE DEF n, i
<1>7. (x - z) % W = n
  BY <1>6, DistanceIs
<1>8. QED
  BY <1>7 DEF m, n, z

(* Distances add up as long as the sum is less than a round.               *)
LEMMA DistancesAdd ==
  ASSUME NEW W \in Nat \ {0}, NEW x \in 0 .. W - 1, NEW y \in 0 .. W - 1, NEW z \in 0 .. W - 1,
         ((x - y) % W) + ((y - z) % W) < W
  PROVE  (x - z) % W = ((x - y) % W) + ((y - z) % W)
<1> DEFINE m == (x - y) % W
           n == (y - z) % W
<1>1. x - y \in Int /\ y - z \in Int
  OBVIOUS
<1>2. m \in 0 .. W - 1 /\ n \in 0 .. W - 1 /\ m + n < W
  BY <1>1, DivMod
<1>3. PICK k \in Int : x - y = W * k + m
  BY <1>1, DivMod
<1>4. PICK j \in Int : y - z = W * j + n
  BY <1>1, DivMod
<1> HIDE DEF m, n
<1>5. x - z = W * (k + j) + (m + n)
  BY <1>2, <1>3, <1>4
<1>6. m + n \in 0 .. W - 1 /\ k + j \in Int
  BY <1>2
<1>7. (x - z) % W = m + n
  BY <1>5, <1>6, DistanceIs
<1>8. QED
  BY <1>7 DEF m, n

(* The distance from an index that has caught up.                          *)
LEMMA DistancesSubtract ==
  ASSUME NEW W \in Nat \ {0}, NEW x \in 0 .. W - 1, NEW y \in 0 .. W - 1, NEW z \in 0 .. W - 1,
         (y - z) % W <= (x - z) % W
  PROVE  (x - y) % W = ((x - z) % W) - ((y - z) % W)
<1> DEFINE m == (x - z) % W
           n == (y - z) % W
<1>1. x - z \in Int /\ y - z \in Int
  OBVIOUS
<1>2. m \in 0 .. W - 1 /\ n \in 0 .. W - 1 /\ n <= m
  BY <1>1, DivMod
<1>3. PICK k \in Int : x - z = W * k + m
  BY <1>1, DivMod
<1>4. PICK j \in Int : y - z = W * j + n
  BY <1>1, DivMod
<1> HIDE DEF m, n
<1>5. x - y = W * (k - j) + (m - n)
  BY <1>2, <1>3, <1>4
<1>6. m - n \in 0 .. W - 1 /\ k - j \in Int
  BY <1>2
<1>7. (x - y) % W = m - n
  BY <1>5, <1>6, DistanceIs
<1>8. QED
  BY <1>7 DEF m, n

(* If C divides W, wrapping around at W leaves the slot alone.             *)
LEMMA SlotOfWrapped ==
  ASSUME NEW C \in Nat \ {0}, NEW W \in Nat \ {0}, W % C = 0, NEW a \in Int
  PROVE  (a % W) % C = a % C
<1> DEFINE z == a % W
<1>1. z \in 0 .. W - 1
  BY DivMod
<1>2. PICK k \in Int : a = W * k + z
  BY DivMod
<1>3. PICK r \in Int : W = C * r
  BY DivMod
<1> HIDE DEF z
<1>4. r * k \in Int /\ W * k = C * (r * k)
  BY <1>3
<1>5. a = z + C * (r * k) /\ z \in Int
  BY <1>1, <1>2, <1>4
<1>6. (z + C * (r * k)) % C = z % C
  BY <1>4, <1>5, SameSlot
<1>7. QED
  BY <1>5, <1>6 DEF z

-----------------------------------------------------------------------------
(* The slots of the n positions from h on.                                 *)
SlotsFrom(h, n, C) == {(h + k) % C : k \in 0 .. n - 1}

LEMMA SlotsFromInside ==
  ASSUME NEW C \in Nat \ {0}, NEW h \in Int, NEW n \in Int
  PROVE  SlotsFrom(h, n, C) \subseteq 0 .. C - 1
<1> SUFFICES ASSUME NEW k \in 0 .. n - 1 PROVE (h + k) % C \in 0 .. C - 1
  BY DEF SlotsFrom
<1>1. h + k \in Int
  OBVIOUS
<1>2. QED
  BY <1>1, DivMod

(* One more position at the end, while there is room, is one more slot.    *)
LEMMA SlotsFromGrows ==
  ASSUME NEW C \in Nat \ {0}, NEW h \in Int, NEW n \in 0 .. C - 1
  PROVE  /\ SlotsFrom(h, n + 1, C) = SlotsFrom(h, n, C) \cup {(h + n) % C}
         /\ (h + n) % C \notin SlotsFrom(h, n, C)
<1>1. 0 .. (n + 1) - 1 = (0 .. n - 1) \cup {n}
  OBVIOUS
<1>2. SlotsFrom(h, n + 1, C) = SlotsFrom(h, n, C) \cup {(h + n) % C}
  BY <1>1 DEF SlotsFrom
<1>3. ASSUME NEW k \in 0 .. n - 1, (h + n) % C = (h + k) % C PROVE FALSE
  <2> DEFINE p == h + n
             r == h + k
  <2>1. p \in Int /\ r \in Int /\ p < r + C /\ r < p + C /\ p # r /\ p % C = r % C
    BY <1>3
  <2> HIDE DEF p, r
  <2>2. QED
    BY <2>1, SlotsDistinct
<1>4. QED
  BY <1>2, <1>3 DEF SlotsFrom

(* One position less at the front is one slot less.                        *)
LEMMA SlotsFromShrinks ==
  ASSUME NEW C \in Nat \ {0}, NEW h \in Int, NEW n \in 1 .. C
  PROVE  /\ SlotsFrom(h + 1, n - 1, C) = SlotsFrom(h, n, C) \ {h % C}
         /\ h % C \in SlotsFrom(h, n, C)
<1>1. h % C \in SlotsFrom(h, n, C)
  <2>1. 0 \in 0 .. n - 1 /\ h + 0 = h
    OBVIOUS
  <2>2. QED
    BY <2>1 DEF SlotsFrom
<1>2. ASSUME NEW k \in 0 .. n - 2
      PROVE  (h + 1 + k) % C \in SlotsFrom(h, n, C) /\ (h + 1 + k) % C # h % C
  <2> DEFINE p == h + 1 + k
  <2>1. p = h + (k + 1) /\ k + 1 \in 0 .. n - 1
    OBVIOUS
  <2>2. p \in Int /\ p < h + C /\ h < p + C /\ p # h
    OBVIOUS
  <2> HIDE DEF p
  <2>3. p % C # h % C
    BY <2>2, SlotsDistinct
  <2>4. p % C \in SlotsFrom(h, n, C)
    BY <2>1 DEF SlotsFrom
  <2>5. QED
    BY <2>3, <2>4 DEF p
<1>3. ASSUME NEW k \in 0 .. n - 1, (h + k) % C # h % C
      PROVE  (h + k) % C \in SlotsFrom(h + 1, n - 1, C)
  <2>1. k # 0
    BY <1>3
  <2>2. k - 1 \in 0 .. (n - 1) - 1 /\ h + 1 + (k - 1) = h + k
    BY <2>1
  <2>3. QED
    BY <2>2 DEF SlotsFrom
<1>4. (n - 1) - 1 = n - 2
  OBVIOUS
<1>5. QED
  BY <1>1, <1>2, <1>3, <1>4 DEF SlotsFrom

(* The first position matters only up to its slot.                         *)
LEMMA SlotsFromSame ==
  ASSUME NEW C \in Nat \ {0}, NEW h \in Int, NEW g \in Int, h % C = g % C, NEW n \in Int
  PROVE  SlotsFrom(h, n, C) = SlotsFrom(g, n, C)
<1>1. \A k \in 0 .. n - 1 : (h + k) % C = (g + k) % C
  <2> TAKE k \in 0 .. n - 1
  <2>1. k \in Int
    OBVIOUS
  <2>2. ((h % C) + k) % C = (h + k) % C /\ ((g % C) + k) % C = (g + k) % C
    BY <2>1, ModPlus
  <2>3. QED
    BY <2>2
<1>2. QED
  BY <1>1 DEF SlotsFrom

-----------------------------------------------------------------------------
(* The contents of a ring as a sequence r of slots, after a push ...       *)
LEMMA IsAppend ==
  ASSUME NEW S, NEW s \in Seq(S), NEW x \in S,
         NEW r, r = [k \in 1 .. Len(s) + 1 |-> r[k]],
         \A k \in 1 .. Len(s) : r[k] = s[k], r[Len(s) + 1] = x
  PROVE  r = Append(s, x)
<1> DEFINE a == Append(s, x)
<1>1. Len(s) \in Nat /\ a \in Seq(S) /\ Len(a) = Len(s) + 1
  OBVIOUS
<1>2. (\A k \in 1 .. Len(s) : a[k] = s[k]) /\ a[Len(s) + 1] = x
  OBVIOUS
<1> HIDE DEF a
<1>3. a \in [1 .. Len(s) + 1 -> S]
  BY <1>1, LenProperties
<1>4. ASSUME NEW k \in 1 .. Len(s) + 1 PROVE r[k] = a[k]
  <2>1. k \in 1 .. Len(s) \/ k = Len(s) + 1
    BY <1>1
  <2>2. QED
    BY <1>2, <2>1
<1>5. QED
  BY <1>3, <1>4 DEF a

(* ... and after a pop.                                                    *)
LEMMA IsTail ==
  ASSUME NEW S, NEW s \in Seq(S), Len(s) > 0,
         NEW r, r = [k \in 1 .. Len(s) - 1 |-> r[k]],
         \A k \in 1 .. Len(s) - 1 : r[k] = s[k + 1]
  PROVE  r = Tail(s) /\ s # <<>> /\ Head(s) = s[1]
<1> DEFINE a == Tail(s)
<1>1. Len(s) \in Nat /\ s # <<>> /\ Head(s) = s[1]
  OBVIOUS
<1>2. a \in Seq(S) /\ Len(a) = Len(s) - 1
  BY <1>1
<1>3. \A k \in 1 .. Len(s) - 1 : a[k] = s[k + 1]
  BY <1>1
<1> HIDE DEF a
<1>4. a \in [1 .. Len(s) - 1 -> S]
  BY <1>2, LenProperties
<1>5. QED
  BY <1>1, <1>3, <1>4 DEF a

-----------------------------------------------------------------------------
(* Every nonempty set of naturals has a least element.                     *)
LEMMA LeastNatural ==
  ASSUME NEW T \in SUBSET Nat, T # {}
  PROVE  \E x \in T : \A y \in T : x <= y
<1>1. PICK x \in T : \A y \in T : ~ (<<y, x>> \in OpToRel(<, Nat))
  BY NatLessThanWellFounded, WFMin, Zenon
<1>2. \A y \in T : ~(y < x)
  BY <1>1 DEF OpToRel
<1>3. QED
  BY <1>2

(* Induction over the naturals, for a set instead of a predicate.          *)
LEMMA Induction ==
  ASSUME NEW S, 0 \in S, \A n \in Nat : n \in S => n + 1 \in S
  PROVE  \A n \in Nat : n \in S
<1> DEFINE T == Nat \ S
<1>1. SUFFICES ASSUME T # {} PROVE FALSE
  OBVIOUS
<1>2. PICK x \in T : \A y \in T : x <= y
  BY <1>1, LeastNatural
<1>3. x # 0 /\ x - 1 \in Nat /\ x - 1 \notin T
  BY <1>2
<1>4. x \in S
  BY <1>3
<1>5. QED
  BY <1>4

(* Primitive recursion: f starts at a and goes from f[n] to h[n][f[n]].    *)
Recursion(f, S, a, h) ==
  f \in [Nat -> S] /\ f[0] = a /\ \A n \in Nat : f[n + 1] = h[n][f[n]]

LEMMA PrimitiveRecursion ==
  ASSUME NEW S, NEW a \in S, NEW h \in [Nat -> [S -> S]]
  PROVE  \E f : Recursion(f, S, a, h)
<1> DEFINE Upto(n) == {g \in [0 .. n -> S] :
                         g[0] = a /\ \A k \in 0 .. n - 1 : g[k + 1] = h[k][g[k]]}
           Exist == {n \in Nat : Upto(n) # {}}
<1>1. 0 \in Exist
  <2>1. [k \in 0 .. 0 |-> a] \in Upto(0)
    OBVIOUS
  <2>2. QED
    BY <2>1
<1>2. ASSUME NEW n \in Nat, n \in Exist PROVE n + 1 \in Exist
  <2>1. PICK g \in Upto(n) : TRUE
    BY <1>2
  <2> DEFINE e == [k \in 0 .. n + 1 |-> IF k = n + 1 THEN h[n][g[n]] ELSE g[k]]
  <2>2. g[n] \in S /\ h[n] \in [S -> S]
    BY <2>1
  <2>3. e \in [0 .. n + 1 -> S] /\ e[0] = a
    BY <2>1, <2>2
  <2>4. \A k \in 0 .. (n + 1) - 1 : e[k + 1] = h[k][e[k]]
    BY <2>1, <2>2
  <2>5. e \in Upto(n + 1)
    BY <2>3, <2>4
  <2> HIDE DEF e, Upto
  <2>6. QED
    BY <2>5
<1>3. \A n \in Nat : n \in Exist
  <2> HIDE DEF Exist
  <2>1. QED
    BY <1>1, <1>2, Induction
<1> DEFINE Agree == {n \in Nat : \A i, j \in Nat : n <= i /\ n <= j =>
                       \A g \in Upto(i), e \in Upto(j) : g[n] = e[n]}
<1>4. 0 \in Agree
  OBVIOUS
<1>5. ASSUME NEW n \in Nat, n \in Agree PROVE n + 1 \in Agree
  <2>1. ASSUME NEW i \in Nat, n + 1 <= i, NEW g \in Upto(i)
        PROVE  g[n + 1] = h[n][g[n]]
    BY <2>1
  <2> HIDE DEF Upto
  <2>2. ASSUME NEW i \in Nat, NEW j \in Nat, n + 1 <= i, n + 1 <= j,
               NEW g \in Upto(i), NEW e \in Upto(j)
        PROVE  g[n + 1] = e[n + 1]
    <3>1. n <= i /\ n <= j
      BY <2>2
    <3>2. g[n] = e[n]
      BY <1>5, <3>1
    <3>3. QED
      BY <2>1, <2>2, <3>2
  <2>3. QED
    BY <2>2
<1>6. \A n \in Nat : n \in Agree
  <2> HIDE DEF Agree
  <2>1. QED
    BY <1>4, <1>5, Induction
<1> DEFINE pick(n) == CHOOSE g \in Upto(n) : TRUE
           f == [n \in Nat |-> pick(n)[n]]
<1>7. \A n \in Nat : pick(n) \in Upto(n)
  BY <1>3
<1>8. ASSUME NEW n \in Nat PROVE f[n] \in S /\ f[n + 1] = h[n][f[n]]
  <2> HIDE DEF pick
  <2>1. /\ pick(n) \in Upto(n) /\ pick(n + 1) \in Upto(n + 1)
        /\ f[n] = pick(n)[n] /\ f[n + 1] = pick(n + 1)[n + 1]
    BY <1>7
  <2>2. pick(n)[n] = pick(n + 1)[n]
    <3> HIDE DEF Upto
    <3>1. n <= n /\ n <= n + 1 /\ n + 1 \in Nat
      OBVIOUS
    <3>2. QED
      BY <1>6, <2>1, <3>1
  <2>3. pick(n + 1)[n + 1] = h[n][pick(n + 1)[n]] /\ pick(n)[n] \in S
    BY <2>1
  <2>4. QED
    BY <2>1, <2>2, <2>3
<1>9. f \in [Nat -> S] /\ f[0] = a
  <2> HIDE DEF pick
  <2>1. pick(0) \in Upto(0)
    BY <1>7
  <2>2. \A n \in Nat : f[n] \in S
    BY <1>8
  <2>3. QED
    BY <2>1, <2>2
<1>10. QED
  <2> HIDE DEF f
  <2>1. QED
    BY <1>8, <1>9 DEF Recursion

(* The sum of the elements of S below n.                                   *)
SumOf(S, n) ==
  LET upTo[k \in Nat] == IF k = 0 THEN 0 ELSE upTo[k - 1] + (IF k - 1 \in S THEN k - 1 ELSE 0)
  IN  upTo[n]

LEMMA SumIs ==
  ASSUME NEW S
  PROVE  /\ SumOf(S, 0) = 0
         /\ \A n \in Nat : /\ SumOf(S, n) \in Nat
                           /\ SumOf(S, n + 1) = SumOf(S, n) + (IF n \in S THEN n ELSE 0)
<1> DEFINE term(n) == IF n \in S THEN n ELSE 0
           h == [n \in Nat |-> [x \in Nat |-> x + term(n)]]
           g == CHOOSE f : f = [k \in Nat |-> IF k = 0 THEN 0 ELSE f[k - 1] + term(k - 1)]
<1>1. \A n \in Nat : term(n) \in Nat
  OBVIOUS
<1>2. \A n : SumOf(S, n) = g[n]
  BY DEF SumOf
<1> HIDE DEF term
<1>3. h \in [Nat -> [Nat -> Nat]]
  BY <1>1
<1>4. PICK f : Recursion(f, Nat, 0, h)
  <2> HIDE DEF h
  <2>1. 0 \in Nat
    OBVIOUS
  <2>2. QED
    BY <1>3, <2>1, PrimitiveRecursion
<1>5. \A n \in Nat : f[n + 1] = f[n] + term(n)
  BY <1>4 DEF Recursion
<1>6. f = [k \in Nat |-> IF k = 0 THEN 0 ELSE f[k - 1] + term(k - 1)]
  <2>1. ASSUME NEW k \in Nat, k # 0 PROVE f[k] = f[k - 1] + term(k - 1)
    <3>1. k - 1 \in Nat /\ (k - 1) + 1 = k
      BY <2>1
    <3>2. f[(k - 1) + 1] = f[k - 1] + term(k - 1)
      BY <1>5, <3>1
    <3>3. QED
      BY <3>1, <3>2
  <2>2. QED
    BY <1>4, <2>1 DEF Recursion
<1>7. g = [k \in Nat |-> IF k = 0 THEN 0 ELSE g[k - 1] + term(k - 1)]
  BY <1>6
<1> HIDE DEF g
<1>8. g[0] = 0 /\ \A n \in Nat : g[n + 1] = g[n] + term(n)
  <2>1. ASSUME NEW n \in Nat PROVE g[n + 1] = g[n] + term(n)
    <3>1. n + 1 \in Nat /\ n + 1 # 0 /\ (n + 1) - 1 = n
      OBVIOUS
    <3>2. g[n + 1] = g[(n + 1) - 1] + term((n + 1) - 1)
      BY <1>7, <3>1
    <3>3. QED
      BY <3>1, <3>2
  <2>2. QED
    BY <1>7, <2>1
<1> DEFINE N == {n \in Nat : g[n] \in Nat}
<1>9. 0 \in N /\ \A n \in Nat : n \in N => n + 1 \in N
  BY <1>1, <1>8
<1>10. \A n \in Nat : n \in N
  <2> HIDE DEF N
  <2>1. QED
    BY <1>9, Induction
<1>11. QED
  BY <1>2, <1>8, <1>10 DEF term

(* One more element adds itself to the sum.                                *)
LEMMA SumAdd ==
  ASSUME NEW S, NEW x \in Nat, x \notin S
  PROVE  \A n \in Nat : SumOf(S \cup {x}, n) = SumOf(S, n) + (IF x < n THEN x ELSE 0)
<1> DEFINE T == S \cup {x}
           N == {n \in Nat : SumOf(T, n) = SumOf(S, n) + (IF x < n THEN x ELSE 0)}
<1>1. 0 \in N
  BY SumIs
<1>2. ASSUME NEW n \in Nat, n \in N PROVE n + 1 \in N
  <2>1. /\ SumOf(T, n + 1) = SumOf(T, n) + (IF n \in T THEN n ELSE 0)
        /\ SumOf(S, n + 1) = SumOf(S, n) + (IF n \in S THEN n ELSE 0)
        /\ SumOf(S, n) \in Nat
    BY SumIs, ZenonT(40)
  <2>2. CASE n = x
    BY <1>2, <2>1, <2>2
  <2>3. CASE n # x
    BY <1>2, <2>1, <2>3
  <2>4. QED
    BY <2>2, <2>3
<1>3. \A n \in Nat : n \in N
  <2> HIDE DEF N
  <2>1. QED
    BY <1>1, <1>2, Induction
<1>4. QED
  BY <1>3

(* The sum of the first n naturals.                                        *)
LEMMA SumAll ==
  ASSUME NEW n \in Nat
  PROVE  SumOf(0 .. n - 1, n) = (n * (n - 1)) \div 2
<1> DEFINE S == 0 .. n - 1
           N == {k \in Nat : k <= n => 2 * SumOf(S, k) = k * (k - 1)}
<1>1. 0 \in N
  BY SumIs
<1>2. ASSUME NEW k \in Nat, k \in N PROVE k + 1 \in N
  <2> SUFFICES ASSUME k + 1 <= n PROVE 2 * SumOf(S, k + 1) = (k + 1) * ((k + 1) - 1)
    OBVIOUS
  <2>1. SumOf(S, k + 1) = SumOf(S, k) + k /\ SumOf(S, k) \in Nat
    BY SumIs
  <2>2. 2 * SumOf(S, k) = k * (k - 1)
    BY <1>2
  <2>3. k * (k - 1) + 2 * k = (k + 1) * ((k + 1) - 1)
    OBVIOUS
  <2>4. QED
    BY <2>1, <2>2, <2>3
<1>3. \A k \in Nat : k \in N
  <2> HIDE DEF N
  <2>1. QED
    BY <1>1, <1>2, Induction
<1>4. 2 * SumOf(S, n) = n * (n - 1) /\ SumOf(S, n) \in Nat
  BY <1>3, SumIs
<1>5. \A a \in Nat, b \in Int : 2 * a = b => b \div 2 = a
  OBVIOUS
<1>6. n * (n - 1) \in Int
  OBVIOUS
<1>7. QED
  BY <1>4, <1>5, <1>6
=============================================================================
