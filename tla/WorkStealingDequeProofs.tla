----------------------- MODULE WorkStealingDequeProofs -----------------------
(***************************************************************************)
(* Theorems about WorkStealingDeque for any number of thieves, cells and   *)
(* pushes and any depth of the owner's store buffer.                       *)
(***************************************************************************)
EXTENDS WorkStealingDeque, WellFoundedInduction, NaturalsInduction, TLAPS

Cells == 0 .. Capacity - 1

Writes == [field : {"bottom_"}, at : {0}, val : Nat]
          \cup [field : {"data"}, at : Cells, val : Items]
          \cup [field : {"round"}, at : Cells, val : Nat]

(***************************************************************************)
(* The store buffer as a sequence.                                         *)
(***************************************************************************)
PendingIn(buf, f, i) == {k \in 1 .. Len(buf) : buf[k].field = f /\ buf[k].at = i}

LoadIn(buf, f, i, stored) ==
  IF PendingIn(buf, f, i) = {} THEN stored ELSE buf[Last(PendingIn(buf, f, i))].val

Hits(w, f, i) == w.field = f /\ w.at = i

LEMMA LastIs ==
  ASSUME NEW n \in Nat, NEW S \in SUBSET (1 .. n), S # {}
  PROVE  Last(S) \in S /\ \A j \in S : j <= Last(S)
<1> DEFINE T == {n - k : k \in S}
           R == OpToRel(<, Nat)
<1>1. IsWellFoundedOn(R, Nat)
  BY NatLessThanWellFounded
<1>2. T \subseteq Nat /\ T # {}
  <2>1. PICK k \in S : TRUE
    OBVIOUS
  <2>2. n - k \in T
    BY <2>1
  <2>3. \A j \in S : n - j \in Nat
    OBVIOUS
  <2> QED  BY <2>2, <2>3
<1>3. PICK x \in T : \A y \in T : <<y, x>> \notin R
  <2> HIDE DEF T, R
  <2> QED  BY <1>1, <1>2, WFMin
<1>4. PICK k \in S : x = n - k
  BY <1>3
<1>5. \A j \in S : j <= k
  <2> SUFFICES ASSUME NEW j \in S, j > k PROVE FALSE
    OBVIOUS
  <2>1. n - j \in T /\ n - j < x /\ n - j \in Nat /\ x \in Nat
    BY <1>4
  <2>2. <<n - j, x>> \in R
    BY <2>1 DEF OpToRel
  <2> QED  BY <1>3, <2>1, <2>2
<1> QED  BY <1>5 DEF Last

LEMMA LastUnique ==
  ASSUME NEW S \in SUBSET Nat, NEW k \in S, \A j \in S : j <= k
  PROVE  Last(S) = k
<1>1. Last(S) \in S /\ \A j \in S : j <= Last(S)
  BY DEF Last
<1> DEFINE l == Last(S)
<1>2. l \in Nat /\ k \in Nat /\ k <= l /\ l <= k
  BY <1>1
<1> QED  BY <1>2

LEMMA LoadFinds ==
  ASSUME NEW W, NEW buf \in Seq(W), NEW f, NEW i, NEW m, PendingIn(buf, f, i) # {}
  PROVE  \E k \in 1 .. Len(buf) : Hits(buf[k], f, i) /\ LoadIn(buf, f, i, m) = buf[k].val
<1> DEFINE P == PendingIn(buf, f, i)
           n == Len(buf)
<1>1. n \in Nat /\ P \in SUBSET (1 .. n) /\ P # {}
  BY DEF PendingIn
<1>2. Last(P) \in P
  <2> HIDE DEF P, n
  <2> QED  BY <1>1, LastIs
<1>3. LoadIn(buf, f, i, m) = buf[Last(P)].val
  BY DEF LoadIn
<1> QED  BY <1>2, <1>3 DEF PendingIn, Hits

(* A store that enters the buffer is the last one to its place.            *)
LEMMA LoadAppended ==
  ASSUME NEW W, NEW buf \in Seq(W), NEW w \in W, NEW f, NEW i, NEW m
  PROVE  /\ PendingIn(Append(buf, w), f, i) =
              PendingIn(buf, f, i) \cup (IF Hits(w, f, i) THEN {Len(buf) + 1} ELSE {})
         /\ LoadIn(Append(buf, w), f, i, m) =
              IF Hits(w, f, i) THEN w.val ELSE LoadIn(buf, f, i, m)
<1> DEFINE b == Append(buf, w)
           n == Len(buf)
           P == PendingIn(buf, f, i)
           Q == PendingIn(b, f, i)
<1>1. n \in Nat /\ Len(b) = n + 1 /\ b[n + 1] = w /\ \A k \in 1 .. n : b[k] = buf[k]
  OBVIOUS
<1>2. P \in SUBSET (1 .. n)
  BY DEF PendingIn
<1>3. Q = P \cup (IF Hits(w, f, i) THEN {n + 1} ELSE {})
  <2> HIDE DEF b
  <2> QED  BY <1>1 DEF PendingIn, Hits
<1>4. CASE Hits(w, f, i)
  <2>1. Q \in SUBSET Nat /\ n + 1 \in Q /\ \A j \in Q : j <= n + 1
    BY <1>1, <1>2, <1>3, <1>4
  <2>2. Last(Q) = n + 1
    <3> DEFINE k == n + 1
    <3> HIDE DEF Q, k
    <3> SUFFICES Last(Q) = k  BY DEF k
    <3> QED  BY <2>1, LastUnique DEF k
  <2> QED  BY <1>1, <1>3, <1>4, <2>1, <2>2 DEF LoadIn
<1>5. CASE ~Hits(w, f, i)
  <2>1. Q = P
    BY <1>3, <1>5
  <2>2. P # {} => Last(P) \in P
    <3> HIDE DEF P, n
    <3> QED  BY <1>1, <1>2, LastIs
  <2>3. P # {} => b[Last(P)] = buf[Last(P)]
    BY <1>1, <1>2, <2>2
  <2> QED  BY <1>3, <1>5, <2>1, <2>3 DEF LoadIn
<1> QED  BY <1>4, <1>5

(* A store that leaves the buffer for memory is where it was for the owner. *)
LEMMA LoadDrained ==
  ASSUME NEW W, NEW buf \in Seq(W), buf # <<>>, NEW f, NEW i, NEW m, NEW m2,
         m2 = IF Hits(Head(buf), f, i) THEN Head(buf).val ELSE m
  PROVE  /\ PendingIn(buf, f, i) = {} => PendingIn(Tail(buf), f, i) = {}
         /\ LoadIn(Tail(buf), f, i, m2) = LoadIn(buf, f, i, m)
<1> DEFINE b == Tail(buf)
           n == Len(buf)
           P == PendingIn(buf, f, i)
           Q == PendingIn(b, f, i)
<1>1. n \in Nat \ {0} /\ Len(b) = n - 1 /\ Head(buf) = buf[1] /\ \A k \in 1 .. n - 1 : b[k] = buf[k + 1]
  OBVIOUS
<1>2. P \in SUBSET (1 .. n) /\ Q \in SUBSET (1 .. n - 1)
  BY <1>1 DEF PendingIn
<1>3. \A k \in 1 .. n - 1 : k \in Q <=> k + 1 \in P
  <2> HIDE DEF b
  <2> QED  BY <1>1 DEF PendingIn
<1>4. 1 \in P <=> Hits(Head(buf), f, i)
  BY <1>1 DEF PendingIn, Hits
<1>5. CASE Q = {}
  <2>1. P \subseteq {1}
    <3> SUFFICES ASSUME NEW q \in P, q # 1 PROVE FALSE
      OBVIOUS
    <3>1. q - 1 \in 1 .. n - 1 /\ q = (q - 1) + 1
      BY <1>1, <1>2
    <3> QED  BY <1>3, <1>5, <3>1
  <2>2. CASE 1 \in P
    <3>1. P = {1} /\ Last(P) = 1
      BY <2>1, <2>2 DEF Last
    <3> QED  BY <1>1, <1>4, <1>5, <2>2, <3>1 DEF LoadIn
  <2>3. CASE 1 \notin P
    <3>1. P = {}
      BY <2>1, <2>3
    <3> QED  BY <1>4, <1>5, <2>3, <3>1 DEF LoadIn
  <2> QED  BY <2>2, <2>3
<1>6. CASE Q # {}
  <2> DEFINE k == Last(Q)
             j == k + 1
             l == n - 1
  <2>1. k \in Q /\ \A q \in Q : q <= k
    <3>1. l \in Nat /\ Q \in SUBSET (1 .. l)
      BY <1>1, <1>2
    <3> HIDE DEF Q, l
    <3> QED  BY <1>6, <3>1, LastIs
  <2>2. k \in 1 .. n - 1 /\ j \in P /\ P \in SUBSET Nat
    BY <1>1, <1>2, <1>3, <2>1
  <2>3. \A q \in P : q <= j
    <3> SUFFICES ASSUME NEW q \in P, q > j PROVE FALSE
      BY <1>2, <2>2
    <3>1. q - 1 \in 1 .. n - 1 /\ q = (q - 1) + 1
      BY <1>2, <2>2
    <3>2. q - 1 \in Q
      BY <1>3, <3>1
    <3> QED  BY <1>2, <2>1, <2>2, <3>2
  <2>4. Last(P) = j
    <3> HIDE DEF P, j
    <3> QED  BY <2>2, <2>3, LastUnique
  <2>5. b[k] = buf[j]
    BY <1>1, <2>2
  <2> QED  BY <1>6, <2>2, <2>4, <2>5 DEF LoadIn
<1> QED  BY <1>5, <1>6

-----------------------------------------------------------------------------
OwnerPlaces == {"idle", "write", "round", "publish", "look", "restore", "take", "clear",
                "cas", "lost", "catchUp", "lastTake", "gone"}
ThiefPlaces == {"idle", "bottom", "round", "cas", "take", "clear", "done"}

Memories == [bottom_ : Nat, data : [Cells -> Items \cup {NULL}], round : [Cells -> Nat]]

Shape ==
  /\ top_ \in Nat /\ wb \in Nat /\ wt \in Nat /\ item \in 0 .. MaxPush
  /\ mem \in Memories /\ buffer \in Seq(Writes)
  /\ depth \in Nat /\ (depth = 0 => buffer = <<>>)
  /\ wpc \in OwnerPlaces
  /\ spc \in [Thieves -> ThiefPlaces] /\ st \in [Thieves -> Nat]
  /\ handed \in [Items -> Nat]
  /\ wpc \in {"write", "round", "publish"} => item # 0

-----------------------------------------------------------------------------
(* The owner's view of memory, and how stores, the drain of the buffer and *)
(* a consumer's exchange and compare_exchange change it.                   *)
ViewTyped == /\ ownBottom \in Nat
             /\ \A i \in Cells : ownData(i) \in Items \cup {NULL} /\ ownRound(i) \in Nat

LEMMA OwnIs ==
  /\ ownBottom = LoadIn(buffer, "bottom_", 0, mem.bottom_)
  /\ \A i : ownData(i) = LoadIn(buffer, "data", i, mem.data[i])
  /\ \A i : ownRound(i) = LoadIn(buffer, "round", i, mem.round[i])
  /\ \A f, i : Pending(f, i) = PendingIn(buffer, f, i)
BY DEF ownBottom, ownData, ownRound, Load, LoadIn, Pending, PendingIn

LEMMA OwnIsNext ==
  /\ ownBottom' = LoadIn(buffer', "bottom_", 0, mem.bottom_')
  /\ \A i : ownData(i)' = LoadIn(buffer', "data", i, mem.data[i]')
  /\ \A i : ownRound(i)' = LoadIn(buffer', "round", i, mem.round[i]')
  /\ \A f, i : Pending(f, i)' = PendingIn(buffer', f, i)
BY DEF ownBottom, ownData, ownRound, Load, LoadIn, Pending, PendingIn

LEMMA StoresTyped ==
  ASSUME NEW w \in Writes
  PROVE  /\ w.field \in {"bottom_", "data", "round"}
         /\ w.field = "bottom_" => w.at = 0 /\ w.val \in Nat
         /\ w.field = "data" => w.at \in Cells /\ w.val \in Items
         /\ w.field = "round" => w.at \in Cells /\ w.val \in Nat
BY DEF Writes

LEMMA ViewTypes == Shape => ViewTyped
<1> SUFFICES ASSUME Shape PROVE ViewTyped
  OBVIOUS
<1> DEFINE buf == buffer
<1>1. buf \in Seq(Writes) /\ Len(buf) \in Nat /\ \A k \in 1 .. Len(buf) : buf[k] \in Writes
  BY DEF Shape
<1>2. ASSUME NEW f, NEW i, NEW m PROVE \/ LoadIn(buf, f, i, m) = m
                                       \/ \E w \in Writes : Hits(w, f, i) /\ LoadIn(buf, f, i, m) = w.val
  <2>1. CASE PendingIn(buf, f, i) = {}
    BY <2>1 DEF LoadIn
  <2>2. CASE PendingIn(buf, f, i) # {}
    <3> HIDE DEF buf
    <3>1. \E k \in 1 .. Len(buf) : Hits(buf[k], f, i) /\ LoadIn(buf, f, i, m) = buf[k].val
      BY <1>1, <2>2, LoadFinds
    <3> QED  BY <1>1, <3>1
  <2> QED  BY <2>1, <2>2
<1>3. mem.bottom_ \in Nat /\ \A i \in Cells : mem.data[i] \in Items \cup {NULL} /\ mem.round[i] \in Nat
  BY DEF Shape, Memories
<1>4. ownBottom \in Nat
  BY <1>2, <1>3, OwnIs, StoresTyped DEF Hits
<1>5. ASSUME NEW i \in Cells PROVE ownData(i) \in Items \cup {NULL} /\ ownRound(i) \in Nat
  <2>1. ownData(i) = LoadIn(buf, "data", i, mem.data[i]) /\ ownRound(i) = LoadIn(buf, "round", i, mem.round[i])
    BY OwnIs
  <2>2. ownData(i) \in Items \cup {NULL}
    BY <1>2, <1>3, <2>1, StoresTyped DEF Hits
  <2>3. ownRound(i) \in Nat
    BY <1>2, <1>3, <2>1, StoresTyped DEF Hits
  <2> QED  BY <2>2, <2>3
<1> QED  BY <1>4, <1>5 DEF ViewTyped

LEMMA ViewTypesNext == Shape' => ViewTyped'
BY ViewTypes, PTL

LEMMA Applied ==
  ASSUME NEW m \in Memories, NEW w,
         \/ w \in Writes
         \/ \E c \in Cells : w = [field |-> "data", at |-> c, val |-> NULL]
  PROVE  /\ Apply(m, w) \in Memories
         /\ Apply(m, w).bottom_ = IF Hits(w, "bottom_", 0) THEN w.val ELSE m.bottom_
         /\ \A i \in Cells : Apply(m, w).data[i] = IF Hits(w, "data", i) THEN w.val ELSE m.data[i]
         /\ \A i \in Cells : Apply(m, w).round[i] = IF Hits(w, "round", i) THEN w.val ELSE m.round[i]
<1>0. /\ m = [bottom_ |-> m.bottom_, data |-> m.data, round |-> m.round]
      /\ m.bottom_ \in Nat /\ m.data \in [Cells -> Items \cup {NULL}] /\ m.round \in [Cells -> Nat]
  BY DEF Memories
<1>1. CASE w.field = "bottom_" /\ w.at = 0 /\ w.val \in Nat
  <2>1. Apply(m, w) = [bottom_ |-> w.val, data |-> m.data, round |-> m.round]
    BY <1>0, <1>1 DEF Apply
  <2> QED  BY <1>0, <1>1, <2>1 DEF Memories, Hits
<1>2. CASE w.field = "data" /\ w.at \in Cells /\ w.val \in Items \cup {NULL}
  <2>1. Apply(m, w) = [bottom_ |-> m.bottom_, data |-> [m.data EXCEPT ![w.at] = w.val], round |-> m.round]
    BY <1>0, <1>2 DEF Apply
  <2> QED  BY <1>0, <1>2, <2>1 DEF Memories, Hits
<1>3. CASE w.field = "round" /\ w.at \in Cells /\ w.val \in Nat
  <2>1. Apply(m, w) = [bottom_ |-> m.bottom_, data |-> m.data, round |-> [m.round EXCEPT ![w.at] = w.val]]
    BY <1>0, <1>3 DEF Apply
  <2> QED  BY <1>0, <1>3, <2>1 DEF Memories, Hits
<1>4. CASE w \in Writes
  BY <1>1, <1>2, <1>3, <1>4, StoresTyped
<1>5. CASE \E c \in Cells : w = [field |-> "data", at |-> c, val |-> NULL]
  BY <1>2, <1>5
<1> QED  BY <1>4, <1>5

(* The owner sees its own store at once.                                   *)
OwnStore(w) ==
  /\ mem' \in Memories /\ buffer' \in Seq(Writes) /\ (depth = 0 => buffer' = <<>>)
  /\ ownBottom' = IF Hits(w, "bottom_", 0) THEN w.val ELSE ownBottom
  /\ \A i \in Cells : ownData(i)' = IF Hits(w, "data", i) THEN w.val ELSE ownData(i)
  /\ \A i \in Cells : ownRound(i)' = IF Hits(w, "round", i) THEN w.val ELSE ownRound(i)
  /\ \A i \in Cells : Pending("data", i) = {} => Hits(w, "data", i) \/ Pending("data", i)' = {}

LEMMA StoreView ==
  ASSUME Shape, NEW w \in Writes, Store(w)
  PROVE  OwnStore(w)
<1> DEFINE buf == buffer
           m == mem
           a == Apply(mem, w)
<1>0. m \in Memories /\ buf \in Seq(Writes) /\ (depth = 0 => buf = <<>>)
  BY DEF Shape
<1>1. CASE depth = 0 /\ mem' = Apply(mem, w) /\ UNCHANGED buffer
  <2>1. \A f, i : PendingIn(buf, f, i) = {}
    BY <1>0, <1>1 DEF PendingIn
  <2>2. \A f, i, x : LoadIn(buf, f, i, x) = x
    BY <2>1 DEF LoadIn
  <2>3. /\ a \in Memories
        /\ a.bottom_ = IF Hits(w, "bottom_", 0) THEN w.val ELSE m.bottom_
        /\ \A i \in Cells : a.data[i] = IF Hits(w, "data", i) THEN w.val ELSE m.data[i]
        /\ \A i \in Cells : a.round[i] = IF Hits(w, "round", i) THEN w.val ELSE m.round[i]
    <3> HIDE DEF m
    <3> QED  BY <1>0, Applied DEF m
  <2>4. mem' = a /\ buffer' = buf
    BY <1>1
  <2> HIDE DEF a
  <2>5. ownBottom' = a.bottom_ /\ ownBottom = m.bottom_
    BY <2>2, <2>4, OwnIs, OwnIsNext
  <2>6. \A i \in Cells : /\ ownData(i)' = a.data[i] /\ ownData(i) = m.data[i]
                         /\ ownRound(i)' = a.round[i] /\ ownRound(i) = m.round[i]
                         /\ Pending("data", i)' = {}
    BY <2>1, <2>2, <2>4, OwnIs, OwnIsNext
  <2> HIDE DEF m, buf
  <2>7. mem' \in Memories /\ buffer' \in Seq(Writes) /\ (depth = 0 => buffer' = <<>>)
    BY <1>0, <2>3, <2>4
  <2> QED  BY <2>3, <2>5, <2>6, <2>7 DEF OwnStore
<1>2. CASE Len(buffer) < depth /\ buffer' = Append(buffer, w) /\ UNCHANGED mem
  <2> DEFINE b == Append(buf, w)
  <2>1. ASSUME NEW f, NEW i, NEW x
        PROVE  /\ PendingIn(b, f, i) = {} \/ Hits(w, f, i) \/ PendingIn(buf, f, i) # {}
               /\ LoadIn(b, f, i, x) = IF Hits(w, f, i) THEN w.val ELSE LoadIn(buf, f, i, x)
    <3> HIDE DEF buf
    <3>1. /\ PendingIn(Append(buf, w), f, i) =
               PendingIn(buf, f, i) \cup (IF Hits(w, f, i) THEN {Len(buf) + 1} ELSE {})
          /\ LoadIn(Append(buf, w), f, i, x) = IF Hits(w, f, i) THEN w.val ELSE LoadIn(buf, f, i, x)
      BY <1>0, LoadAppended
    <3> QED  BY <3>1
  <2>2. buffer' = b /\ mem' = m
    BY <1>2
  <2>3. Len(buf) \in Nat /\ depth \in Nat
    BY DEF Shape
  <2>4. b \in Seq(Writes) /\ (depth = 0 => b = <<>>)
    BY <1>0, <1>2, <2>3
  <2> HIDE DEF b
  <2>5. ownBottom' = IF Hits(w, "bottom_", 0) THEN w.val ELSE ownBottom
    BY <2>1, <2>2, OwnIs, OwnIsNext
  <2>6. ASSUME NEW i \in Cells
        PROVE  /\ ownData(i)' = IF Hits(w, "data", i) THEN w.val ELSE ownData(i)
               /\ ownRound(i)' = IF Hits(w, "round", i) THEN w.val ELSE ownRound(i)
               /\ Pending("data", i) = {} => Hits(w, "data", i) \/ Pending("data", i)' = {}
    <3>1. /\ ownData(i)' = LoadIn(b, "data", i, m.data[i]) /\ ownData(i) = LoadIn(buf, "data", i, m.data[i])
          /\ ownRound(i)' = LoadIn(b, "round", i, m.round[i]) /\ ownRound(i) = LoadIn(buf, "round", i, m.round[i])
          /\ Pending("data", i)' = PendingIn(b, "data", i) /\ Pending("data", i) = PendingIn(buf, "data", i)
      BY <2>2, OwnIs, OwnIsNext
    <3> QED  BY <2>1, <3>1
  <2> QED  BY <1>0, <2>2, <2>4, <2>5, <2>6 DEF OwnStore
<1> QED  BY <1>1, <1>2 DEF Store

(* Nothing changes for the owner when a store of its own reaches memory.   *)
OwnSame ==
  /\ ownBottom' = ownBottom
  /\ \A i \in Cells : ownData(i)' = ownData(i) /\ ownRound(i)' = ownRound(i)
  /\ \A i \in Cells : Pending("data", i) = {} => Pending("data", i)' = {}

LEMMA SameView ==
  ASSUME UNCHANGED <<mem, buffer>>
  PROVE  OwnSame
BY OwnIs, OwnIsNext DEF OwnSame

LEMMA DrainView ==
  ASSUME Shape, Drain
  PROVE  OwnSame /\ mem' \in Memories /\ buffer' \in Seq(Writes) /\ depth # 0
<1> DEFINE buf == buffer
           m == mem
           w == Head(buffer)
           a == Apply(m, w)
           b == Tail(buf)
<1>0. m \in Memories /\ buf \in Seq(Writes) /\ buf # <<>> /\ depth # 0
  BY DEF Shape, Drain
<1>1. w \in Writes /\ b \in Seq(Writes)
  BY <1>0
<1>2. mem' = a /\ buffer' = b
  BY DEF Drain
<1>3. /\ a \in Memories
      /\ a.bottom_ = IF Hits(w, "bottom_", 0) THEN w.val ELSE m.bottom_
      /\ \A i \in Cells : a.data[i] = IF Hits(w, "data", i) THEN w.val ELSE m.data[i]
      /\ \A i \in Cells : a.round[i] = IF Hits(w, "round", i) THEN w.val ELSE m.round[i]
  <2> HIDE DEF m, w
  <2> QED  BY <1>0, <1>1, Applied DEF m
<1>4. ASSUME NEW f, NEW i, NEW x, NEW y, y = IF Hits(w, f, i) THEN w.val ELSE x
      PROVE  /\ PendingIn(buf, f, i) = {} => PendingIn(b, f, i) = {}
             /\ LoadIn(b, f, i, y) = LoadIn(buf, f, i, x)
  <2>1. y = IF Hits(Head(buf), f, i) THEN Head(buf).val ELSE x
    BY <1>4
  <2> HIDE DEF buf
  <2> QED  BY <1>0, <2>1, LoadDrained DEF b
<1> HIDE DEF a, b, w
<1>5. ownBottom' = ownBottom
  BY <1>2, <1>3, <1>4, OwnIs, OwnIsNext
<1>6. ASSUME NEW i \in Cells
      PROVE  /\ ownData(i)' = ownData(i) /\ ownRound(i)' = ownRound(i)
             /\ Pending("data", i) = {} => Pending("data", i)' = {}
  <2>1. /\ ownData(i)' = LoadIn(b, "data", i, a.data[i]) /\ ownData(i) = LoadIn(buf, "data", i, m.data[i])
        /\ ownRound(i)' = LoadIn(b, "round", i, a.round[i]) /\ ownRound(i) = LoadIn(buf, "round", i, m.round[i])
        /\ Pending("data", i)' = PendingIn(b, "data", i) /\ Pending("data", i) = PendingIn(buf, "data", i)
    BY <1>2, OwnIs, OwnIsNext
  <2> QED  BY <1>3, <1>4, <2>1
<1> QED  BY <1>0, <1>1, <1>2, <1>3, <1>5, <1>6 DEF OwnSame

(* A consumer empties cell c: the owner sees it, unless a store of its own *)
(* to that cell is on its way.                                             *)
OwnEmptied(c) ==
  /\ mem' \in Memories
  /\ ownBottom' = ownBottom
  /\ \A i \in Cells : ownRound(i)' = ownRound(i)
  /\ \A i \in Cells : ownData(i)' = IF i = c /\ Pending("data", c) = {} THEN NULL ELSE ownData(i)
  /\ \A i \in Cells : Pending("data", i)' = Pending("data", i)

(* A consumer of position p clears the round of its cell, if it is p's.    *)
OwnCleared(p) ==
  /\ mem' \in Memories
  /\ mem'.bottom_ = mem.bottom_ /\ mem'.data = mem.data
  /\ ownBottom' = ownBottom
  /\ \A i \in Cells : ownData(i)' = ownData(i)
  /\ \A i \in Cells : \/ ownRound(i)' = ownRound(i)
                      \/ i = Index(p) /\ ownRound(i) = p + 1 /\ ownRound(i)' = 0
  /\ \A i \in Cells : Pending("data", i)' = Pending("data", i)

LEMMA IndexIsCell == \A p \in Nat : Index(p) \in Cells
BY DequeAssumption DEF Index, Cells

LEMMA EmptiedView ==
  ASSUME Shape, NEW p \in Nat, Exchange(p), UNCHANGED buffer
  PROVE  /\ OwnEmptied(Index(p)) /\ mem'.bottom_ = mem.bottom_
         /\ \A i \in Cells : mem'.data[i] = IF i = Index(p) THEN NULL ELSE mem.data[i]
<1> DEFINE buf == buffer
           m == mem
           c == Index(p)
           w == [field |-> "data", at |-> c, val |-> NULL]
           a == Apply(m, w)
<1>0. m \in Memories /\ c \in Cells /\ buffer' = buf
  BY IndexIsCell DEF Shape
<1>1. mem' = a
  BY DEF Exchange, Data
<1>2. /\ a \in Memories
      /\ a.bottom_ = IF Hits(w, "bottom_", 0) THEN w.val ELSE m.bottom_
      /\ \A i \in Cells : a.data[i] = IF Hits(w, "data", i) THEN w.val ELSE m.data[i]
      /\ \A i \in Cells : a.round[i] = IF Hits(w, "round", i) THEN w.val ELSE m.round[i]
  <2>1. \E d \in Cells : w = [field |-> "data", at |-> d, val |-> NULL]
    BY <1>0
  <2> HIDE DEF m, w
  <2> QED  BY <1>0, <2>1, Applied
<1>3. /\ a.bottom_ = m.bottom_
      /\ \A i \in Cells : a.data[i] = IF i = c THEN NULL ELSE m.data[i]
      /\ \A i \in Cells : a.round[i] = m.round[i]
  <2> HIDE DEF a, c
  <2> QED  BY <1>2 DEF Hits
<1> HIDE DEF a, c
<1>4. ownBottom' = ownBottom
  BY <1>0, <1>1, <1>3, OwnIs, OwnIsNext
<1>5. ASSUME NEW i \in Cells
      PROVE  /\ ownData(i)' = IF i = c /\ Pending("data", c) = {} THEN NULL ELSE ownData(i)
             /\ ownRound(i)' = ownRound(i)
             /\ Pending("data", i)' = Pending("data", i)
  <2>1. /\ ownData(i)' = LoadIn(buf, "data", i, a.data[i]) /\ ownData(i) = LoadIn(buf, "data", i, m.data[i])
        /\ ownRound(i)' = LoadIn(buf, "round", i, a.round[i]) /\ ownRound(i) = LoadIn(buf, "round", i, m.round[i])
        /\ Pending("data", i)' = PendingIn(buf, "data", i) /\ Pending("data", i) = PendingIn(buf, "data", i)
    BY <1>0, <1>1, OwnIs, OwnIsNext
  <2> QED  BY <1>3, <2>1 DEF LoadIn
<1>6. OwnEmptied(c)
  BY <1>1, <1>2, <1>4, <1>5 DEF OwnEmptied
<1> QED  BY <1>1, <1>3, <1>6 DEF c

LEMMA ClearedView ==
  ASSUME Shape, NEW p \in Nat, ClearRound(p), UNCHANGED buffer
  PROVE  OwnCleared(p)
<1> DEFINE buf == buffer
           m == mem
           c == Index(p)
           w == [field |-> "round", at |-> c, val |-> 0]
           a == Apply(m, w)
<1>0. m \in Memories /\ c \in Cells /\ buffer' = buf
  BY IndexIsCell DEF Shape
<1>1. CASE mem' = mem
  <2>1. OwnSame
    BY <1>0, <1>1, SameView
  <2>2. \A i \in Cells : Pending("data", i)' = Pending("data", i)
    BY <1>0, OwnIs, OwnIsNext
  <2>3. mem' \in Memories /\ mem'.bottom_ = mem.bottom_ /\ mem'.data = mem.data
    BY <1>0, <1>1
  <2>4. /\ ownBottom' = ownBottom
        /\ \A i \in Cells : ownData(i)' = ownData(i)
        /\ \A i \in Cells : ownRound(i)' = ownRound(i)
    BY <2>1 DEF OwnSame
  <2> HIDE DEF c
  <2> QED  BY <2>2, <2>3, <2>4 DEF OwnCleared
<1>2. CASE mem.round[c] = p + 1 /\ mem' = a
  <2>1. w \in Writes
    BY <1>0 DEF Writes
  <2>2. /\ a \in Memories
        /\ a.bottom_ = IF Hits(w, "bottom_", 0) THEN w.val ELSE m.bottom_
        /\ \A i \in Cells : a.data[i] = IF Hits(w, "data", i) THEN w.val ELSE m.data[i]
        /\ \A i \in Cells : a.round[i] = IF Hits(w, "round", i) THEN w.val ELSE m.round[i]
    <3> HIDE DEF m, w
    <3> QED  BY <1>0, <2>1, Applied
  <2>3. /\ a.bottom_ = m.bottom_
        /\ \A i \in Cells : a.data[i] = m.data[i]
        /\ \A i \in Cells : a.round[i] = IF i = c THEN 0 ELSE m.round[i]
    <3> HIDE DEF a, c
    <3> QED  BY <2>2 DEF Hits
  <2> HIDE DEF a
  <2>4. a.data = m.data
    BY <1>0, <2>2, <2>3 DEF Memories
  <2>5. ownBottom' = ownBottom
    BY <1>0, <1>2, <2>3, OwnIs, OwnIsNext
  <2>6. ASSUME NEW i \in Cells
        PROVE  /\ ownData(i)' = ownData(i)
               /\ \/ ownRound(i)' = ownRound(i)
                  \/ i = c /\ ownRound(i) = p + 1 /\ ownRound(i)' = 0
               /\ Pending("data", i)' = Pending("data", i)
    <3>1. /\ ownData(i)' = LoadIn(buf, "data", i, a.data[i]) /\ ownData(i) = LoadIn(buf, "data", i, m.data[i])
          /\ ownRound(i)' = LoadIn(buf, "round", i, a.round[i]) /\ ownRound(i) = LoadIn(buf, "round", i, m.round[i])
          /\ Pending("data", i)' = PendingIn(buf, "data", i) /\ Pending("data", i) = PendingIn(buf, "data", i)
      BY <1>0, <1>2, OwnIs, OwnIsNext
    <3>2. m.round[c] = p + 1
      BY <1>2
    <3> HIDE DEF c, m
    <3> QED  BY <2>3, <3>1, <3>2 DEF LoadIn
  <2>7. mem' \in Memories /\ mem'.bottom_ = mem.bottom_ /\ mem'.data = mem.data
    BY <1>2, <2>2, <2>3, <2>4
  <2> QED  BY <2>5, <2>6, <2>7 DEF OwnCleared
<1> QED  BY <1>1, <1>2 DEF ClearRound, Round

(* The three kinds of store.                                               *)
LEMMA BottomStored ==
  ASSUME Shape, NEW v \in Nat, Store(Bottom(v))
  PROVE  /\ mem' \in Memories /\ buffer' \in Seq(Writes) /\ (depth = 0 => buffer' = <<>>)
         /\ ownBottom' = v
         /\ \A i \in Cells : ownData(i)' = ownData(i) /\ ownRound(i)' = ownRound(i)
         /\ \A i \in Cells : Pending("data", i) = {} => Pending("data", i)' = {}
<1> DEFINE w == Bottom(v)
<1>1. w \in Writes /\ Hits(w, "bottom_", 0) /\ w.val = v
      /\ \A i : ~Hits(w, "data", i) /\ ~Hits(w, "round", i)
  BY DEF Bottom, Writes, Hits
<1> HIDE DEF w
<1>2. OwnStore(w)
  BY <1>1, StoreView DEF w
<1> QED  BY <1>1, <1>2 DEF OwnStore

LEMMA RoundStored ==
  ASSUME Shape, NEW p \in Nat, NEW v \in Nat, Store(Round(p, v))
  PROVE  /\ mem' \in Memories /\ buffer' \in Seq(Writes) /\ (depth = 0 => buffer' = <<>>)
         /\ ownBottom' = ownBottom
         /\ \A i \in Cells : /\ ownData(i)' = ownData(i)
                             /\ ownRound(i)' = IF i = Index(p) THEN v ELSE ownRound(i)
         /\ \A i \in Cells : Pending("data", i) = {} => Pending("data", i)' = {}
<1> DEFINE w == Round(p, v)
<1>1. w \in Writes /\ ~Hits(w, "bottom_", 0) /\ w.val = v
      /\ \A i : ~Hits(w, "data", i) /\ (Hits(w, "round", i) <=> i = Index(p))
  BY IndexIsCell DEF Round, Writes, Hits
<1> HIDE DEF w
<1>2. OwnStore(w)
  BY <1>1, StoreView DEF w
<1> QED  BY <1>1, <1>2 DEF OwnStore

LEMMA DataStored ==
  ASSUME Shape, NEW p \in Nat, NEW x \in Items, Store(Data(p, x))
  PROVE  /\ mem' \in Memories /\ buffer' \in Seq(Writes) /\ (depth = 0 => buffer' = <<>>)
         /\ ownBottom' = ownBottom
         /\ \A i \in Cells : /\ ownData(i)' = IF i = Index(p) THEN x ELSE ownData(i)
                             /\ ownRound(i)' = ownRound(i)
         /\ \A i \in Cells : Pending("data", i) = {} => i = Index(p) \/ Pending("data", i)' = {}
<1> DEFINE w == Data(p, x)
<1>1. w \in Writes /\ ~Hits(w, "bottom_", 0) /\ w.val = x
      /\ \A i : ~Hits(w, "round", i) /\ (Hits(w, "data", i) <=> i = Index(p))
  BY IndexIsCell DEF Data, Writes, Hits
<1> HIDE DEF w
<1>2. OwnStore(w)
  BY <1>1, StoreView DEF w
<1> QED  BY <1>1, <1>2 DEF OwnStore

LEMMA TakeTyped ==
  ASSUME Shape, NEW p \in Nat, Take(p), UNCHANGED buffer
  PROVE  /\ mem' \in Memories /\ handed' \in [Items -> Nat]
         /\ Found(p) \in Items \cup {NULL}
<1>1. mem' \in Memories
  BY EmptiedView DEF Take, OwnEmptied
<1>2. handed' \in [Items -> Nat]
  BY DEF Take, Shape
<1>3. Found(p) \in Items \cup {NULL}
  BY IndexIsCell DEF Found, Shape, Memories
<1> QED  BY <1>1, <1>2, <1>3

-----------------------------------------------------------------------------
(* Types.                                                                  *)
LEMMA InitShape == Init => Shape
<1> SUFFICES ASSUME Init PROVE Shape
  OBVIOUS
<1>1. mem \in Memories
  BY DEF Init, Memories, Cells
<1>2. buffer \in Seq(Writes) /\ buffer = <<>>
  BY DEF Init
<1> QED  BY <1>1, <1>2, DequeAssumption DEF Init, Shape, OwnerPlaces, ThiefPlaces

LEMMA NextShape ==
  ASSUME Shape, [Next]_vars
  PROVE  Shape'
<1>0. ViewTyped /\ wb \in Nat /\ wt \in Nat /\ top_ \in Nat /\ item \in Nat /\ MaxPush \in Nat
  BY ViewTypes, DequeAssumption DEF Shape
<1>1. CASE UNCHANGED vars
  BY <1>1 DEF vars, ownerVars, thiefVars, history, Shape
<1>2. CASE PushLook
  BY <1>0, <1>2 DEF PushLook, Worker, Shape, thiefVars, history, ViewTyped, OwnerPlaces
<1>3. CASE PushWrite
  <2>1. item \in Items /\ Store(Data(wb, item))
    BY <1>0, <1>3 DEF PushWrite, Worker, Shape, Items, OwnerPlaces
  <2>2. mem' \in Memories /\ buffer' \in Seq(Writes) /\ (depth = 0 => buffer' = <<>>)
    BY <1>0, <2>1, DataStored
  <2> QED  BY <1>3, <2>2 DEF PushWrite, Worker, Shape, thiefVars, history, OwnerPlaces
<1>4. CASE PushRound
  <2> DEFINE v == wb + 1
  <2>1. v \in Nat /\ Store(Round(wb, v))
    BY <1>0, <1>4 DEF PushRound
  <2> HIDE DEF v
  <2>2. mem' \in Memories /\ buffer' \in Seq(Writes) /\ (depth = 0 => buffer' = <<>>)
    BY <1>0, <2>1, RoundStored
  <2> QED  BY <1>4, <2>2 DEF PushRound, Worker, Shape, thiefVars, history, OwnerPlaces
<1>5. ASSUME NEW v \in Nat, Store(Bottom(v)), wb' \in Nat, wt' \in Nat, wpc' \in OwnerPlaces \ {"write", "round", "publish"},
             UNCHANGED <<top_, depth, item, thiefVars, history>>
      PROVE  Shape'
  <2>2. mem' \in Memories /\ buffer' \in Seq(Writes) /\ (depth = 0 => buffer' = <<>>)
    BY <1>5, BottomStored
  <2> QED  BY <1>5, <2>2 DEF Shape, thiefVars, history
<1>6. CASE PushPublish
  <2> DEFINE v == wb + 1
  <2>1. v \in Nat /\ Store(Bottom(v)) /\ wpc' = "idle"
    BY <1>0, <1>6 DEF PushPublish, Worker, OwnerPlaces
  <2> HIDE DEF v
  <2> QED  BY <1>0, <1>5, <1>6, <2>1 DEF PushPublish, OwnerPlaces
<1>7. CASE PopStore
  <2> DEFINE v == ownBottom - 1
  <2>1. v \in Nat /\ Store(Bottom(v)) /\ wpc' = "look" /\ wb' = v
    BY <1>0, <1>7 DEF PopStore, Worker, ViewTyped, OwnerPlaces
  <2> HIDE DEF v
  <2> QED  BY <1>0, <1>5, <1>7, <2>1 DEF PopStore, OwnerPlaces
<1>8. CASE PopLook
  BY <1>0, <1>8 DEF PopLook, Worker, Shape, thiefVars, history, OwnerPlaces
<1>9. CASE PopRestore
  <2>1. Store(Bottom(wt)) /\ wpc' = "idle"
    BY <1>9 DEF PopRestore, Restored, Worker, OwnerPlaces
  <2> QED  BY <1>0, <1>5, <1>9, <2>1 DEF PopRestore, OwnerPlaces
<1>10. CASE PopTake \/ PopLastTake
  <2>1. mem' \in Memories /\ handed' \in [Items -> Nat]
    BY <1>0, <1>10, TakeTyped DEF PopTake, PopLastTake
  <2> QED  BY <1>10, <2>1 DEF PopTake, PopLastTake, Worker, Shape, thiefVars, OwnerPlaces
<1>11. CASE PopClear
  <2>1. mem' \in Memories
    BY <1>0, <1>11, ClearedView DEF PopClear, OwnCleared
  <2> QED  BY <1>11, <2>1 DEF PopClear, Worker, Shape, thiefVars, history, OwnerPlaces
<1>12. CASE PopLastCas
  BY <1>0, <1>12 DEF PopLastCas, Worker, Shape, thiefVars, history, OwnerPlaces
<1>13. CASE PopLost
  <2> DEFINE v == wt + 1
  <2>1. v \in Nat /\ Store(Bottom(v)) /\ wpc' = "idle"
    BY <1>0, <1>13 DEF PopLost, Worker, OwnerPlaces
  <2> HIDE DEF v
  <2> QED  BY <1>0, <1>5, <1>13, <2>1 DEF PopLost, OwnerPlaces
<1>14. CASE PopCatchUp
  <2> DEFINE v == wt + 1
  <2>1. v \in Nat /\ Store(Bottom(v)) /\ wpc' = "lastTake"
    BY <1>0, <1>14 DEF PopCatchUp, CaughtUp, Worker, OwnerPlaces
  <2> HIDE DEF v
  <2> QED  BY <1>0, <1>5, <1>14, <2>1 DEF PopCatchUp, OwnerPlaces
<1>15. CASE Drain
  <2>1. mem' \in Memories /\ buffer' \in Seq(Writes) /\ depth # 0
    BY <1>15, DrainView
  <2> QED  BY <1>15, <2>1 DEF Drain, ownerVars, Shape, thiefVars, history
<1>16. CASE Destroy
  <2>1. mem' \in Memories
    BY <1>16 DEF Destroy, Shape, Memories, Cells
  <2>2. handed' \in [Items -> Nat]
    BY <1>16 DEF Destroy, Shape
  <2> QED  BY <1>16, <2>1, <2>2 DEF Destroy, Shape, thiefVars, OwnerPlaces
<1>17. ASSUME NEW t \in Thieves, StealTop(t) \/ StealBottom(t) \/ StealRound(t) \/ StealCas(t) \/ StealReturn(t)
       PROVE  Shape'
  <2>1. spc' \in [Thieves -> ThiefPlaces] /\ st' \in [Thieves -> Nat] /\ top_' \in Nat
    <3> USE DEF Thief, Shape, ThiefPlaces
    <3>1. CASE StealTop(t)
      BY <1>0, <3>1 DEF StealTop
    <3>2. CASE StealBottom(t)
      BY <1>0, <3>2 DEF StealBottom
    <3>3. CASE StealRound(t)
      BY <1>0, <3>3 DEF StealRound
    <3>4. CASE StealCas(t)
      BY <1>0, <3>4, SMTT(30) DEF StealCas
    <3>5. CASE StealReturn(t)
      BY <1>0, <3>5 DEF StealReturn
    <3> QED  BY <1>17, <3>1, <3>2, <3>3, <3>4, <3>5
  <2>2. UNCHANGED <<mem, buffer, depth, ownerVars, handed>>
    BY <1>17 DEF StealTop, StealBottom, StealRound, StealCas, StealReturn, history
  <2> QED  BY <2>1, <2>2 DEF Shape, ownerVars
<1>18. ASSUME NEW t \in Thieves, StealTake(t) PROVE Shape'
  <2> DEFINE p == st[t]
  <2>1. p \in Nat /\ Take(p) /\ UNCHANGED buffer
    BY <1>18 DEF StealTake, Shape
  <2> HIDE DEF p
  <2>2. mem' \in Memories /\ handed' \in [Items -> Nat]
    BY <2>1, TakeTyped
  <2> QED  BY <1>18, <2>2 DEF StealTake, Thief, Shape, ownerVars, ThiefPlaces
<1>19. ASSUME NEW t \in Thieves, StealClear(t) PROVE Shape'
  <2> DEFINE p == st[t]
  <2>1. p \in Nat /\ ClearRound(p) /\ UNCHANGED buffer
    BY <1>19 DEF StealClear, Shape
  <2> HIDE DEF p
  <2>2. mem' \in Memories
    BY <2>1, ClearedView DEF OwnCleared
  <2> QED  BY <1>19, <2>2 DEF StealClear, Thief, Shape, ownerVars, history, ThiefPlaces
<1> QED
  BY <1>1, <1>2, <1>3, <1>4, <1>6, <1>7, <1>8, <1>9, <1>10, <1>11, <1>12, <1>13, <1>14, <1>15, <1>16,
     <1>17, <1>18, <1>19 DEF Next, Push, Pop, Steal

-----------------------------------------------------------------------------
(* An item that is being pushed and not stored yet, or that is still to be *)
(* pushed.                                                                 *)
Unused(x) == x > item \/ (x = item /\ wpc = "write")

Fresh(x) == handed[x] = 0 /\ ~Unused(x)

(* The items in memory and in the store buffer are distinct and untaken.   *)
ItemInv ==
  /\ \A x \in Items : handed[x] <= 1
  /\ \A x \in Items : Unused(x) => handed[x] = 0
  /\ \A i \in Cells : mem.data[i] # NULL => Fresh(mem.data[i])
  /\ \A i, j \in Cells : mem.data[i] = mem.data[j] /\ mem.data[i] # NULL => i = j
  /\ \A k \in 1 .. Len(buffer) : buffer[k].field = "data" =>
       /\ Fresh(buffer[k].val)
       /\ \A i \in Cells : mem.data[i] # buffer[k].val
       /\ \A j \in 1 .. Len(buffer) :
            buffer[j].field = "data" /\ buffer[j].val = buffer[k].val => j = k


LEMMA InitItems == Init => ItemInv
<1> SUFFICES ASSUME Init PROVE ItemInv
  OBVIOUS
<1>1. Len(buffer) = 0 /\ item = 0 /\ wpc = "idle" /\ \A i \in Cells : mem.data[i] = NULL
  BY DEF Init, Cells
<1>2. \A x \in Items : handed[x] = 0
  BY DEF Init
<1> QED  BY <1>1, <1>2 DEF ItemInv, Unused

(* Stores to bottom_ and to a round, and the clearing of a round, leave    *)
(* the items alone.                                                        *)
LEMMA ItemsKept ==
  ASSUME Shape, ItemInv, UNCHANGED <<handed, item>>, wpc # "write", wpc' # "write",
         \/ mem'.data = mem.data /\ buffer' = buffer
         \/ \E w \in Writes : w.field # "data" /\ Store(w)
  PROVE  ItemInv'
<1>0. \A x : (Unused(x)' <=> Unused(x)) /\ (Fresh(x)' <=> Fresh(x))
  BY DEF Unused, Fresh
<1>1. CASE mem'.data = mem.data /\ buffer' = buffer
  BY <1>0, <1>1 DEF ItemInv
<1>2. ASSUME NEW w \in Writes, w.field # "data", Store(w) PROVE ItemInv'
  <2>1. CASE depth = 0 /\ mem' = Apply(mem, w) /\ UNCHANGED buffer
    <3>1. \A i \in Cells : mem'.data[i] = mem.data[i]
      BY <1>2, <2>1, Applied DEF Shape, Hits
    <3> QED  BY <1>0, <2>1, <3>1 DEF ItemInv
  <2>2. CASE buffer' = Append(buffer, w) /\ UNCHANGED mem
    <3>1. /\ Len(buffer) \in Nat /\ Len(buffer') = Len(buffer) + 1
          /\ buffer'[Len(buffer) + 1] = w /\ \A k \in 1 .. Len(buffer) : buffer'[k] = buffer[k]
      BY <2>2 DEF Shape
    <3>2. \A k \in 1 .. Len(buffer') : buffer'[k].field = "data" =>
             k \in 1 .. Len(buffer) /\ buffer'[k] = buffer[k]
      BY <1>2, <3>1
    <3> QED  BY <1>0, <2>2, <3>2 DEF ItemInv
  <2> QED  BY <1>2, <2>1, <2>2 DEF Store
<1> QED  BY <1>1, <1>2

(* What a consumer finds is its own from then on.                          *)
LEMMA ItemTaken ==
  ASSUME Shape, ItemInv, NEW p \in Nat, Take(p), UNCHANGED <<buffer, item>>,
         wpc' = "write" <=> wpc = "write"
  PROVE  ItemInv'
<1> DEFINE y == Found(p)
           c == Index(p)
<1>0. \A x : Unused(x)' <=> Unused(x)
  BY DEF Unused
<1>1. c \in Cells /\ y = mem.data[c]
  BY IndexIsCell DEF Found
<1>2. \A i \in Cells : mem'.data[i] = IF i = c THEN NULL ELSE mem.data[i]
  BY EmptiedView DEF Take
<1>3. \A x \in Items : handed[x] \in Nat /\ handed'[x] = IF x = y THEN handed[x] + 1 ELSE handed[x]
  BY DEF Take, Shape
<1>4. y # NULL => Fresh(y)
  BY <1>1 DEF ItemInv
<1>5. \A i \in Cells : mem.data[i] \in Items \cup {NULL}
  BY DEF Shape, Memories
<1>6. \A k \in 1 .. Len(buffer) : buffer[k].field = "data" => buffer[k].val \in Items
  BY StoresTyped DEF Shape
<1>7. NULL \notin Items
  BY DequeAssumption DEF Items
<1> HIDE DEF y, c
<1>8. \A x \in Items : handed'[x] <= 1 /\ (Unused(x)' => handed'[x] = 0)
  BY <1>0, <1>3, <1>4, <1>7 DEF ItemInv, Fresh
<1>9. \A x \in Items : Fresh(x) /\ x # y => Fresh(x)'
  BY <1>0, <1>3 DEF Fresh
<1>10. \A i \in Cells : mem'.data[i] # NULL => Fresh(mem.data[i])' /\ mem'.data[i] = mem.data[i]
  BY <1>1, <1>2, <1>5, <1>9 DEF ItemInv
<1>11. \A i, j \in Cells : mem'.data[i] = mem'.data[j] /\ mem'.data[i] # NULL => i = j
  BY <1>2 DEF ItemInv
<1>12. ASSUME NEW k \in 1 .. Len(buffer), buffer[k].field = "data"
       PROVE  /\ Fresh(buffer[k].val)'
              /\ \A i \in Cells : mem'.data[i] # buffer[k].val
              /\ \A j \in 1 .. Len(buffer) :
                   buffer[j].field = "data" /\ buffer[j].val = buffer[k].val => j = k
  <2>1. buffer[k].val # y /\ buffer[k].val \in Items
    BY <1>1, <1>6, <1>12 DEF ItemInv
  <2>2. Fresh(buffer[k].val)'
    BY <1>9, <1>12, <2>1 DEF ItemInv
  <2> QED  BY <1>2, <1>7, <1>12, <2>1, <2>2 DEF ItemInv
<1> QED  BY <1>8, <1>10, <1>11, <1>12 DEF ItemInv

LEMMA NextItems ==
  ASSUME Shape, ItemInv, [Next]_vars
  PROVE  ItemInv'
<1>0. ViewTyped /\ wb \in Nat /\ wt \in Nat /\ item \in 0 .. MaxPush /\ MaxPush \in Nat /\ Len(buffer) \in Nat
  BY ViewTypes, DequeAssumption DEF Shape
<1>1. CASE UNCHANGED <<mem, buffer, handed, item>> /\ (wpc' = "write" <=> wpc = "write")
  <2>1. \A x : (Unused(x)' <=> Unused(x)) /\ (Fresh(x)' <=> Fresh(x))
    BY <1>1 DEF Unused, Fresh
  <2> QED  BY <1>1, <2>1 DEF ItemInv
<1>2. CASE PushLook
  <2>1. /\ item' = item + 1 /\ wpc = "idle" /\ wpc' = "write"
        /\ mem' = mem /\ buffer' = buffer /\ handed' = handed
    BY <1>2 DEF PushLook, Worker, history
  <2>2. \A x \in Items : Unused(x)' <=> Unused(x)
    BY <1>0, <2>1 DEF Unused, Items
  <2>3. \A x \in Items : Fresh(x)' <=> Fresh(x)
    BY <2>1, <2>2 DEF Fresh
  <2>4. \A i \in Cells : mem.data[i] \in Items \cup {NULL}
    BY DEF Shape, Memories
  <2>5. \A k \in 1 .. Len(buffer) : buffer[k].field = "data" => buffer[k].val \in Items
    BY StoresTyped DEF Shape
  <2> QED  BY <2>1, <2>2, <2>3, <2>4, <2>5 DEF ItemInv
<1>3. CASE PushWrite
  <2> DEFINE c == Index(wb)
             w == Data(wb, item)
             n == Len(buffer)
  <2>1. wpc = "write" /\ wpc' = "round" /\ item' = item /\ handed' = handed /\ Store(w)
    BY <1>3 DEF PushWrite, Worker, history
  <2>2. item \in Items /\ c \in Cells /\ w \in Writes /\ w = [field |-> "data", at |-> c, val |-> item]
    BY <1>0, <2>1, IndexIsCell DEF Shape, Items, Data, Writes
  <2>3. \A x \in Items : Unused(x)' => Unused(x) /\ x # item
    BY <1>0, <2>1 DEF Unused, Items
  <2>4. \A x \in Items : Fresh(x) => Fresh(x)' /\ x # item
    BY <2>1, <2>3 DEF Fresh, Unused
  <2>5. Fresh(item)'
    BY <1>0, <2>1, <2>2 DEF Fresh, Unused, ItemInv, Items
  <2>6. \A i \in Cells : mem.data[i] \in Items \cup {NULL}
    BY DEF Shape, Memories
  <2>7. \A k \in 1 .. n : buffer[k].field = "data" => buffer[k].val \in Items
    BY StoresTyped DEF Shape
  <2>8. \A x \in Items : handed'[x] <= 1 /\ (Unused(x)' => handed'[x] = 0)
    BY <2>1, <2>3 DEF ItemInv
  <2>9. NULL \notin Items
    BY DequeAssumption DEF Items
  <2>10. \A i \in Cells : mem.data[i] # item
    BY <2>2, <2>4, <2>6, <2>9 DEF ItemInv
  <2>11. \A k \in 1 .. n : buffer[k].field = "data" => buffer[k].val # item
    BY <2>4, <2>7 DEF ItemInv
  <2>12. CASE depth = 0 /\ mem' = Apply(mem, w) /\ UNCHANGED buffer
    <3>1. \A i \in Cells : mem'.data[i] = IF i = c THEN item ELSE mem.data[i]
      <4> HIDE DEF c
      <4>1. \A i \in Cells : Apply(mem, w).data[i] = IF Hits(w, "data", i) THEN w.val ELSE mem.data[i]
        <5> HIDE DEF w
        <5> QED  BY <2>2, Applied DEF Shape
      <4> QED  BY <2>2, <2>12, <4>1 DEF Hits
    <3>2. n = 0
      BY <2>12 DEF Shape
    <3>3. \A i \in Cells : mem'.data[i] # NULL => Fresh(mem.data[i])'
      BY <2>1, <2>4, <2>5, <2>6, <3>1 DEF ItemInv
    <3>4. \A i, j \in Cells : mem'.data[i] = mem'.data[j] /\ mem'.data[i] # NULL => i = j
      BY <2>10, <3>1 DEF ItemInv
    <3> QED  BY <2>8, <2>12, <3>2, <3>3, <3>4 DEF ItemInv
  <2>13. CASE buffer' = Append(buffer, w) /\ UNCHANGED mem
    <3>1. Len(buffer') = n + 1 /\ buffer'[n + 1] = w /\ \A k \in 1 .. n : buffer'[k] = buffer[k]
      BY <1>0, <2>2, <2>13 DEF Shape
    <3>2. \A i \in Cells : mem'.data[i] # NULL => Fresh(mem.data[i])'
      BY <2>4, <2>6, <2>13 DEF ItemInv
    <3>3. \A k \in 1 .. n + 1 : buffer'[k].field = "data" => Fresh(buffer[k].val)'
      <4> SUFFICES ASSUME NEW k \in 1 .. n + 1, buffer'[k].field = "data" PROVE Fresh(buffer[k].val)'
        OBVIOUS
      <4>1. CASE k = n + 1
        <5>1. buffer'[k].val = item
          BY <2>2, <3>1, <4>1
        <5> QED  BY <2>1, <2>5, <5>1
      <4>2. CASE k \in 1 .. n
        BY <2>4, <2>7, <3>1, <4>2 DEF ItemInv
      <4> QED  BY <1>0, <4>1, <4>2
    <3>4. \A k \in 1 .. n + 1, i \in Cells : buffer'[k].field = "data" => mem'.data[i] # buffer'[k].val
      BY <1>0, <2>2, <2>10, <2>13, <3>1 DEF ItemInv
    <3>5. \A j, k \in 1 .. n + 1 : buffer'[j].field = "data" /\ buffer'[k].field = "data"
                                  /\ buffer'[j].val = buffer'[k].val => j = k
      <4> SUFFICES ASSUME NEW j \in 1 .. n + 1, NEW k \in 1 .. n + 1, buffer'[j].field = "data",
                          buffer'[k].field = "data", buffer'[j].val = buffer'[k].val
                   PROVE  j = k
        OBVIOUS
      <4>1. CASE j \in 1 .. n /\ k \in 1 .. n
        BY <3>1, <4>1 DEF ItemInv
      <4>2. CASE j = n + 1 /\ k \in 1 .. n
        BY <2>2, <2>11, <3>1, <4>2
      <4>3. CASE j \in 1 .. n /\ k = n + 1
        BY <2>2, <2>11, <3>1, <4>3
      <4> QED  BY <1>0, <4>1, <4>2, <4>3
    <3>6. \A i, j \in Cells : mem'.data[i] = mem'.data[j] /\ mem'.data[i] # NULL => i = j
      BY <2>13 DEF ItemInv
    <3> QED  BY <2>8, <3>1, <3>2, <3>3, <3>4, <3>5, <3>6 DEF ItemInv
  <2> QED  BY <2>1, <2>12, <2>13 DEF Store
<1>4. ASSUME NEW v \in Nat, Store(Bottom(v)) \/ \E p \in Nat : Store(Round(p, v)),
             UNCHANGED <<handed, item>>, wpc # "write", wpc' # "write"
      PROVE  ItemInv'
  <2>1. Bottom(v) \in Writes /\ Bottom(v).field # "data"
    BY DEF Bottom, Writes
  <2>2. \A p \in Nat : Round(p, v) \in Writes /\ Round(p, v).field # "data"
    BY IndexIsCell DEF Round, Writes
  <2>3. \E w \in Writes : w.field # "data" /\ Store(w)
    BY <1>4, <2>1, <2>2
  <2> QED  BY <1>4, <2>3, ItemsKept
<1>5. CASE PushRound
  BY <1>0, <1>4, <1>5 DEF PushRound, Worker, history
<1>6. CASE PushPublish
  BY <1>0, <1>4, <1>6 DEF PushPublish, Worker, history
<1>7. CASE PopStore
  BY <1>0, <1>4, <1>7 DEF PopStore, Worker, history, ViewTyped
<1>8. CASE PopRestore
  BY <1>0, <1>4, <1>8 DEF PopRestore, Restored, Worker, history
<1>9. CASE PopLost
  BY <1>0, <1>4, <1>9 DEF PopLost, Worker, history
<1>10. CASE PopCatchUp
  BY <1>0, <1>4, <1>10 DEF PopCatchUp, CaughtUp, Worker, history
<1>11. CASE PopTake \/ PopLastTake
  BY <1>0, <1>11, ItemTaken DEF PopTake, PopLastTake, Worker
<1>12. CASE PopClear
  <2>1. mem'.data = mem.data
    BY <1>0, <1>12, ClearedView DEF PopClear, OwnCleared
  <2> QED  BY <1>12, <2>1, ItemsKept DEF PopClear, Worker, history
<1>13. CASE PopLook \/ PopLastCas
  BY <1>1, <1>13 DEF PopLook, PopLastCas, Worker, history
<1>14. CASE Drain
  <2> DEFINE w == Head(buffer)
             n == Len(buffer)
  <2>0. n \in Nat \ {0} /\ w \in Writes /\ w = buffer[1] /\ Len(buffer') = n - 1
        /\ \A k \in 1 .. n - 1 : buffer'[k] = buffer[k + 1]
    BY <1>14 DEF Drain, Shape
  <2>1. \A i \in Cells : mem'.data[i] = IF Hits(w, "data", i) THEN w.val ELSE mem.data[i]
    <3> HIDE DEF w
    <3>1. mem \in Memories /\ mem' = Apply(mem, w)
      BY <1>14 DEF Drain, Shape, w
    <3> QED  BY <2>0, <3>1, Applied
  <2>2. UNCHANGED <<handed, item, wpc>>
    BY <1>14 DEF Drain, history, ownerVars
  <2>3. \A x : (Unused(x)' <=> Unused(x)) /\ (Fresh(x)' <=> Fresh(x))
    BY <2>2 DEF Unused, Fresh
  <2>4. w.field = "data" => Fresh(w.val) /\ \A i \in Cells : mem.data[i] # w.val
    BY <2>0 DEF ItemInv
  <2>5. \A x \in Items : handed'[x] <= 1 /\ (Unused(x)' => handed'[x] = 0)
    BY <2>2, <2>3 DEF ItemInv
  <2>6. \A i \in Cells : mem'.data[i] # NULL => Fresh(mem.data[i])'
    BY <2>1, <2>3, <2>4 DEF ItemInv, Hits
  <2>7. \A i, j \in Cells : mem'.data[i] = mem'.data[j] /\ mem'.data[i] # NULL => i = j
    BY <2>1, <2>4 DEF ItemInv, Hits
  <2>8. ASSUME NEW k \in 1 .. n - 1, buffer'[k].field = "data"
        PROVE  /\ Fresh(buffer[k].val)'
               /\ \A i \in Cells : mem'.data[i] # buffer'[k].val
               /\ \A j \in 1 .. n - 1 :
                    buffer'[j].field = "data" /\ buffer'[j].val = buffer'[k].val => j = k
    <3>1. k + 1 \in 1 .. n /\ 1 \in 1 .. n /\ k + 1 # 1 /\ buffer'[k] = buffer[k + 1]
      BY <2>0
    <3>2. Fresh(buffer[k + 1].val) /\ \A i \in Cells : mem.data[i] # buffer[k + 1].val
      BY <2>8, <3>1 DEF ItemInv
    <3>3. w.field = "data" => w.val # buffer[k + 1].val
      BY <2>0, <2>8, <3>1 DEF ItemInv
    <3>4. \A j \in 1 .. n - 1 : buffer'[j].field = "data" /\ buffer'[j].val = buffer'[k].val => j + 1 = k + 1
      <4> SUFFICES ASSUME NEW j \in 1 .. n - 1, buffer'[j].field = "data", buffer'[j].val = buffer'[k].val
                   PROVE  j + 1 = k + 1
        OBVIOUS
      <4> DEFINE j1 == j + 1
                 k1 == k + 1
      <4>1. j1 \in 1 .. n /\ k1 \in 1 .. n /\ buffer[j1] = buffer'[j] /\ buffer[k1] = buffer'[k]
        BY <2>0
      <4> HIDE DEF j1, k1
      <4>2. j1 = k1
        BY <2>8, <4>1 DEF ItemInv
      <4> QED  BY <4>2 DEF j1, k1
    <3>5. Fresh(buffer[k].val)'
      BY <2>3, <3>1, <3>2
    <3>6. \A i \in Cells : mem'.data[i] # buffer'[k].val
      BY <2>1, <3>1, <3>2, <3>3 DEF Hits
    <3>7. \A j \in 1 .. n - 1 : j + 1 = k + 1 => j = k
      BY <2>0
    <3> QED  BY <3>4, <3>5, <3>6, <3>7
  <2> HIDE DEF w
  <2> QED  BY <2>0, <2>5, <2>6, <2>7, <2>8 DEF ItemInv
<1>15. CASE Destroy
  <2> DEFINE Gone(x) == \E p \in top_ .. mem.bottom_ - 1 : Found(p) = x
  <2>1. wpc = "idle" /\ wpc' = "gone" /\ buffer = <<>> /\ buffer' = <<>> /\ item' = item
    BY <1>15 DEF Destroy, AtRest
  <2>2. Len(buffer') = 0 /\ \A i \in Cells : mem'.data[i] = NULL
    BY <1>15, <2>1 DEF Destroy, Shape, Memories, Cells
  <2>3. \A x \in Items : handed[x] \in Nat /\ handed'[x] = IF Gone(x) THEN handed[x] + 1 ELSE handed[x]
    BY <1>15 DEF Destroy, Shape
  <2>4. \A x \in Items : Gone(x) => Fresh(x)
    <3> SUFFICES ASSUME NEW x \in Items, NEW p \in top_ .. mem.bottom_ - 1, Found(p) = x PROVE Fresh(x)
      OBVIOUS
    <3>1. p \in Nat
      BY DEF Shape, Memories
    <3>2. x # NULL
      BY DequeAssumption DEF Items
    <3> QED  BY <3>1, <3>2, IndexIsCell DEF Found, ItemInv
  <2>5. \A x \in Items : Unused(x)' <=> Unused(x)
    BY <2>1 DEF Unused
  <2> HIDE DEF Gone
  <2>6. \A x \in Items : handed'[x] <= 1 /\ (Unused(x)' => handed'[x] = 0)
    BY <2>3, <2>4, <2>5 DEF ItemInv, Fresh
  <2> QED  BY <2>2, <2>6 DEF ItemInv
<1>16. ASSUME NEW t \in Thieves, StealTop(t) \/ StealBottom(t) \/ StealRound(t) \/ StealCas(t) \/ StealReturn(t)
       PROVE  ItemInv'
  BY <1>1, <1>16 DEF StealTop, StealBottom, StealRound, StealCas, StealReturn, history, ownerVars
<1>17. ASSUME NEW t \in Thieves, StealTake(t) PROVE ItemInv'
  <2> DEFINE p == st[t]
  <2>1. p \in Nat /\ Take(p) /\ UNCHANGED <<buffer, item>> /\ wpc' = wpc
    BY <1>17 DEF StealTake, Shape, ownerVars
  <2> HIDE DEF p
  <2> QED  BY <2>1, ItemTaken
<1>18. ASSUME NEW t \in Thieves, StealClear(t) PROVE ItemInv'
  <2> DEFINE p == st[t]
  <2>1. p \in Nat /\ ClearRound(p) /\ UNCHANGED <<buffer, item, handed, wpc>>
    BY <1>18 DEF StealClear, Shape, ownerVars, history
  <2> HIDE DEF p
  <2>2. \A i \in Cells : mem'.data[i] = mem.data[i]
    BY <2>1, ClearedView DEF OwnCleared
  <2>3. \A x : (Unused(x)' <=> Unused(x)) /\ (Fresh(x)' <=> Fresh(x))
    BY <2>1 DEF Unused, Fresh
  <2> QED  BY <2>1, <2>2, <2>3 DEF ItemInv
<1>19. CASE UNCHANGED vars
  BY <1>1, <1>19 DEF vars, ownerVars, thiefVars, history
<1> QED
  BY <1>2, <1>3, <1>5, <1>6, <1>7, <1>8, <1>9, <1>10, <1>11, <1>12, <1>13, <1>14, <1>15, <1>16,
     <1>17, <1>18, <1>19 DEF Next, Push, Pop, Steal

(* No item is handed out twice, and none is in a cell afterwards or in two *)
(* cells: whatever the depth of the store buffer, and however late a thief *)
(* makes its exchange, the exchange that empties the cell decides.         *)
THEOREM DequeTakenOnce == Spec => []TakenOnce
<1>1. Init => Shape /\ ItemInv
  BY InitShape, InitItems
<1>2. Shape /\ ItemInv /\ [Next]_vars => (Shape /\ ItemInv)'
  BY NextShape, NextItems
<1>3. ItemInv => TakenOnce
  BY DEF ItemInv, TakenOnce, Fresh, Cells
<1> QED  BY <1>1, <1>2, <1>3, PTL DEF Spec

-----------------------------------------------------------------------------
(* What the owner knows of its own locals.                                 *)
Locals ==
  /\ wpc \in {"write", "round", "publish"} => wb = ownBottom /\ wb - top_ < Capacity
  /\ wpc \in {"look", "cas", "take", "restore", "catchUp"} => wb = ownBottom
  /\ wpc = "cas" => wt = wb /\ top_ >= wt
  /\ wpc = "restore" => wt > wb
  /\ wpc = "lost" => wt >= ownBottom
  /\ wpc = "catchUp" => wt = wb

(* bottom_ is not behind top_, unless the owner is about to bring it back. *)
Ahead ==
  /\ wpc \notin {"look", "cas", "restore", "lost", "catchUp"} => ownBottom >= top_
  /\ wpc \in {"restore", "lost"} => wt = top_
  /\ wpc = "catchUp" => wt + 1 = top_
  /\ ownBottom - top_ <= Capacity

Reach(p) == \/ p \in top_ .. ownBottom - 1
            \/ \E t \in Thieves : spc[t] = "take" /\ st[t] = p
            \/ wpc \in {"look", "cas", "take"} /\ wb = p /\ p >= top_
            \/ wpc \in {"catchUp", "lastTake"} /\ wb = p

(* The push in progress has written to this cell, and not to its round.    *)
Filling(i) == wpc = "round" /\ Index(wb) = i

Kept == \A x \in Pushed : handed[x] = 0 =>
          \E i \in Cells : ownData(i) = x /\ ownRound(i) # 0 /\ Reach(ownRound(i) - 1)

RoundOfCell == \A i \in Cells : ownRound(i) # 0 => Index(ownRound(i) - 1) = i

PushInProgress ==
  /\ wpc \in {"round", "publish"} => ownData(Index(wb)) \in {item, NULL}
  /\ wpc \in {"round", "publish"} /\ handed[item] = 0 => ownData(Index(wb)) = item
  /\ wpc = "publish" => ownRound(Index(wb)) = wb + 1
  /\ wpc = "clear" => ownData(Index(wb)) = NULL

(* A thief's late steps do not reach an item pushed after its claim.       *)
Claims ==
  \A t \in Thieves :
    /\ spc[t] \in {"take", "clear"} => st[t] < top_
    /\ spc[t] = "take" => \/ Pending("data", Index(st[t])) = {}
                          \/ ownRound(Index(st[t])) # st[t] + 1
                          \/ Filling(Index(st[t]))
    /\ spc[t] = "clear" => \/ ownData(Index(st[t])) = NULL
                           \/ ownRound(Index(st[t])) # st[t] + 1
                           \/ Filling(Index(st[t]))

Live == Ahead /\ Claims /\ RoundOfCell /\ PushInProgress /\ Kept

ReachInv == Locals /\ (~raced => Live)

LEMMA PushLookReach ==
  ASSUME Shape, Shape', ReachInv, PushLook
  PROVE  ReachInv'
<1>0. /\ wpc = "idle" /\ wpc' = "write" /\ wb' = ownBottom /\ item' = item + 1 /\ item \in Nat
      /\ UNCHANGED <<top_, mem, buffer, wt, spc, st, handed, raced>>
      /\ ownBottom - top_ < Capacity
  BY DEF PushLook, Worker, HasRoom, thiefVars, history, Shape
<1>1. OwnSame
  BY <1>0, SameView
<1>2. \A t \in Thieves : Index(st[t]) \in Cells
  BY IndexIsCell DEF Shape
<1>3. Locals'
  BY <1>0, <1>1 DEF Locals, OwnSame
<1>4. ASSUME Live PROVE Live'
  <2>1. Ahead'
    BY <1>0, <1>1, <1>4 DEF Live, Ahead, OwnSame
  <2>2. Claims'
    BY <1>0, <1>1, <1>2, <1>4 DEF Live, Claims, OwnSame, Filling
  <2>3. RoundOfCell'
    BY <1>1, <1>4 DEF Live, RoundOfCell, OwnSame
  <2>4. PushInProgress'
    BY <1>0 DEF PushInProgress
  <2>5. Pushed' = Pushed
    BY <1>0 DEF Pushed
  <2>6. \A p : Reach(p) => Reach(p)'
    BY <1>0, <1>1 DEF Reach, OwnSame
  <2>7. Kept'
    BY <1>0, <1>1, <1>4, <2>5, <2>6 DEF Live, Kept, OwnSame
  <2> QED  BY <2>1, <2>2, <2>3, <2>4, <2>7 DEF Live
<1> QED  BY <1>0, <1>3, <1>4 DEF ReachInv

LEMMA PushWriteReach ==
  ASSUME Shape, Shape', ItemInv, ReachInv, PushWrite
  PROVE  ReachInv'
<1> DEFINE c == Index(wb)
<1>0. /\ wpc = "write" /\ wpc' = "round" /\ ownData(c) = NULL
      /\ UNCHANGED <<top_, wb, wt, item, spc, st, handed, raced>>
      /\ item \in Items /\ wb \in Nat /\ c \in Cells /\ NULL \notin Items
  BY IndexIsCell, DequeAssumption DEF PushWrite, Worker, thiefVars, history, Shape, Items
<1>1. /\ ownBottom' = ownBottom
      /\ \A i \in Cells : /\ ownData(i)' = IF i = c THEN item ELSE ownData(i)
                          /\ ownRound(i)' = ownRound(i)
      /\ \A i \in Cells : Pending("data", i) = {} => i = c \/ Pending("data", i)' = {}
  BY <1>0, DataStored DEF PushWrite
<1>2. \A t \in Thieves : Index(st[t]) \in Cells
  BY IndexIsCell DEF Shape
<1>3. Locals'
  BY <1>0, <1>1 DEF ReachInv, Locals
<1>4. ASSUME Live PROVE Live'
  <2>1. Ahead'
    BY <1>0, <1>1, <1>4 DEF Live, Ahead
  <2>2. \A i : Filling(i)' <=> i = c
    BY <1>0 DEF Filling
  <2>3. Claims'
    BY <1>0, <1>1, <1>2, <1>4, <2>2 DEF Live, Claims, Filling
  <2>4. RoundOfCell'
    BY <1>1, <1>4 DEF Live, RoundOfCell
  <2>5. PushInProgress'
    BY <1>0, <1>1 DEF PushInProgress
  <2>6. Pushed' = Pushed /\ Pushed \subseteq Items
    BY <1>0, DequeAssumption DEF Pushed, Items
  <2>7. \A p : Reach(p) => Reach(p)'
    BY <1>0, <1>1 DEF Reach
  <2>8. Kept'
    BY <1>0, <1>1, <1>4, <2>6, <2>7 DEF Live, Kept
  <2> QED  BY <2>1, <2>3, <2>4, <2>5, <2>8 DEF Live
<1> QED  BY <1>0, <1>3, <1>4 DEF ReachInv

LEMMA PushRoundReach ==
  ASSUME Shape, Shape', ReachInv, PushRound
  PROVE  ReachInv'
<1> DEFINE c == Index(wb)
           v == wb + 1
<1>0. /\ wpc = "round" /\ wpc' = "publish"
      /\ UNCHANGED <<top_, wb, wt, item, spc, st, handed, raced>>
      /\ item \in Items /\ wb \in Nat /\ c \in Cells /\ v \in Nat /\ NULL \notin Items /\ Store(Round(wb, v))
      /\ top_ \in Nat
  BY IndexIsCell, DequeAssumption DEF PushRound, Worker, thiefVars, history, Shape, Items
<1>1. /\ ownBottom' = ownBottom
      /\ \A i \in Cells : /\ ownData(i)' = ownData(i)
                          /\ ownRound(i)' = IF i = c THEN v ELSE ownRound(i)
      /\ \A i \in Cells : Pending("data", i) = {} => Pending("data", i)' = {}
  <2> HIDE DEF v
  <2> QED  BY <1>0, RoundStored
<1>2. \A t \in Thieves : st[t] \in Nat /\ Index(st[t]) \in Cells
  BY IndexIsCell DEF Shape
<1>3. Locals'
  BY <1>0, <1>1 DEF ReachInv, Locals
<1>4. ASSUME Live, Locals PROVE Live'
  <2>1. Ahead'
    BY <1>0, <1>1, <1>4 DEF Live, Ahead
  <2>2. wb >= top_
    BY <1>0, <1>4 DEF Live, Ahead, Locals
  <2>3. \A t \in Thieves : spc[t] \in {"take", "clear"} => v # st[t] + 1
    BY <1>0, <1>2, <1>4, <2>2 DEF Live, Claims
  <2>4. Claims'
    <3> HIDE DEF v
    <3> QED  BY <1>0, <1>1, <1>2, <1>4, <2>3 DEF Live, Claims, Filling
  <2>5. v # 0 /\ v - 1 = wb
    BY <1>0
  <2>6. RoundOfCell'
    <3> HIDE DEF v
    <3> QED  BY <1>1, <1>4, <2>5 DEF Live, RoundOfCell
  <2>7. PushInProgress'
    BY <1>0, <1>1, <1>4 DEF Live, PushInProgress
  <2>8. Pushed' = Pushed /\ item \notin Pushed /\ NULL \notin Pushed
    BY <1>0, DequeAssumption DEF Pushed, Items
  <2>9. ownData(c) \notin Pushed
    BY <1>0, <1>4, <2>8 DEF Live, PushInProgress
  <2>10. \A p : Reach(p) => Reach(p)'
    BY <1>0, <1>1 DEF Reach
  <2>11. Kept'
    BY <1>0, <1>1, <1>4, <2>8, <2>9, <2>10 DEF Live, Kept
  <2> QED  BY <2>1, <2>4, <2>6, <2>7, <2>11 DEF Live
<1> QED  BY <1>0, <1>3, <1>4 DEF ReachInv

LEMMA PushPublishReach ==
  ASSUME Shape, Shape', ReachInv, PushPublish
  PROVE  ReachInv'
<1> DEFINE c == Index(wb)
           v == wb + 1
<1>0. /\ wpc = "publish" /\ wpc' = "idle"
      /\ UNCHANGED <<top_, wt, item, spc, st, handed, raced>>
      /\ item \in Items /\ wb \in Nat /\ c \in Cells /\ v \in Nat /\ Store(Bottom(v)) /\ top_ \in Nat
  BY IndexIsCell DEF PushPublish, Worker, thiefVars, history, Shape, Items
<1>1. /\ ownBottom' = v
      /\ \A i \in Cells : ownData(i)' = ownData(i) /\ ownRound(i)' = ownRound(i)
      /\ \A i \in Cells : Pending("data", i) = {} => Pending("data", i)' = {}
  <2> HIDE DEF v
  <2> QED  BY <1>0, BottomStored
<1>2. \A t \in Thieves : Index(st[t]) \in Cells
  BY IndexIsCell DEF Shape
<1>3. Locals'
  BY <1>0 DEF Locals
<1>4. ASSUME Live, Locals PROVE Live'
  <2>0. wb = ownBottom /\ wb - top_ < Capacity /\ wb >= top_ /\ Capacity \in Nat
    BY <1>0, <1>4, DequeAssumption DEF Live, Ahead, Locals
  <2>1. Ahead'
    BY <1>0, <1>1, <2>0 DEF Ahead
  <2>2. Claims'
    BY <1>0, <1>1, <1>2, <1>4 DEF Live, Claims, Filling
  <2>3. RoundOfCell'
    BY <1>1, <1>4 DEF Live, RoundOfCell
  <2>4. PushInProgress'
    BY <1>0 DEF PushInProgress
  <2>5. Pushed' = Pushed \cup {item}
    BY <1>0 DEF Pushed, Items
  <2>6. \A p : Reach(p) => Reach(p)'
    BY <1>0, <1>1, <2>0 DEF Reach
  <2>7. \A p : p = wb => Reach(p)'
    BY <1>0, <1>1, <2>0 DEF Reach
  <2>8. handed[item] = 0 => ownData(c) = item /\ ownRound(c) = v
    BY <1>0, <1>4 DEF Live, PushInProgress
  <2>9. v # 0 /\ v - 1 = wb
    BY <1>0
  <2>10. ASSUME NEW x \in Pushed', handed[x] = 0
         PROVE  \E i \in Cells : ownData(i)' = x /\ ownRound(i)' # 0 /\ Reach(ownRound(i) - 1)'
    <3>1. CASE x = item
      <4>1. PICK d \in Cells : d = c
        BY <1>0
      <4>2. ownData(d)' = x /\ ownRound(d)' = v
        BY <1>1, <2>8, <2>10, <3>1, <4>1
      <4>3. ownRound(d)' - 1 = wb
        BY <2>9, <4>2
      <4> QED  BY <2>7, <2>9, <4>2, <4>3
    <3>2. CASE x \in Pushed
      BY <1>1, <1>4, <2>6, <2>10, <3>2 DEF Live, Kept
    <3> QED  BY <2>5, <3>1, <3>2
  <2>11. Kept'
    BY <1>0, <2>10 DEF Kept
  <2> QED  BY <2>1, <2>2, <2>3, <2>4, <2>11 DEF Live
<1> QED  BY <1>0, <1>3, <1>4 DEF ReachInv

LEMMA PopStoreReach ==
  ASSUME Shape, Shape', ReachInv, PopStore
  PROVE  ReachInv'
<1> DEFINE v == ownBottom - 1
<1>0. /\ wpc = "idle" /\ wpc' = "look" /\ wb' = v
      /\ UNCHANGED <<top_, wt, item, spc, st, handed, raced>>
      /\ ownBottom \in Nat /\ v \in Nat /\ Store(Bottom(v)) /\ top_ \in Nat /\ Capacity \in Nat
  BY ViewTypes, DequeAssumption DEF PopStore, Worker, thiefVars, history, Shape, ViewTyped
<1>1. /\ ownBottom' = v
      /\ \A i \in Cells : ownData(i)' = ownData(i) /\ ownRound(i)' = ownRound(i)
      /\ \A i \in Cells : Pending("data", i) = {} => Pending("data", i)' = {}
  <2> HIDE DEF v
  <2> QED  BY <1>0, BottomStored
<1>2. \A t \in Thieves : Index(st[t]) \in Cells
  BY IndexIsCell DEF Shape
<1>3. Locals'
  BY <1>0, <1>1 DEF Locals
<1>4. ASSUME Live PROVE Live'
  <2>1. Ahead'
    BY <1>0, <1>1, <1>4 DEF Live, Ahead
  <2>2. Claims'
    BY <1>0, <1>1, <1>2, <1>4 DEF Live, Claims, Filling
  <2>3. RoundOfCell'
    BY <1>1, <1>4 DEF Live, RoundOfCell
  <2>4. PushInProgress'
    BY <1>0 DEF PushInProgress
  <2>5. Pushed' = Pushed
    BY <1>0 DEF Pushed
  <2>6. \A p : Reach(p) => Reach(p)'
    BY <1>0, <1>1 DEF Reach
  <2>7. Kept'
    BY <1>0, <1>1, <1>4, <2>5, <2>6 DEF Live, Kept
  <2> QED  BY <2>1, <2>2, <2>3, <2>4, <2>7 DEF Live
<1> QED  BY <1>0, <1>3, <1>4 DEF ReachInv

LEMMA PopLookReach ==
  ASSUME Shape, Shape', ReachInv, PopLook
  PROVE  ReachInv'
<1>0. /\ wpc = "look" /\ wt' = top_
      /\ \/ wb > top_ /\ wpc' = "take"
         \/ wb < top_ /\ wpc' = "restore"
         \/ wb = top_ /\ wpc' = "cas"
      /\ UNCHANGED <<top_, mem, buffer, wb, item, spc, st, handed, raced>>
      /\ wb \in Nat /\ top_ \in Nat
  BY DEF PopLook, Worker, NoCompetition, thiefVars, history, Shape
<1>1. OwnSame
  BY <1>0, SameView
<1>2. \A t \in Thieves : Index(st[t]) \in Cells
  BY IndexIsCell DEF Shape
<1>3. Locals'
  BY <1>0, <1>1 DEF ReachInv, Locals, OwnSame
<1>4. ASSUME Live, Locals PROVE Live'
  <2>1. Ahead'
    BY <1>0, <1>1, <1>4 DEF Live, Ahead, Locals, OwnSame
  <2>2. Claims'
    BY <1>0, <1>1, <1>2, <1>4 DEF Live, Claims, Filling, OwnSame
  <2>3. RoundOfCell'
    BY <1>1, <1>4 DEF Live, RoundOfCell, OwnSame
  <2>4. PushInProgress'
    BY <1>0 DEF PushInProgress
  <2>5. Pushed' = Pushed
    BY <1>0 DEF Pushed
  <2>6. \A p : Reach(p) => Reach(p)'
    BY <1>0, <1>1 DEF Reach, OwnSame
  <2>7. Kept'
    BY <1>0, <1>1, <1>4, <2>5, <2>6 DEF Live, Kept, OwnSame
  <2> QED  BY <2>1, <2>2, <2>3, <2>4, <2>7 DEF Live
<1> QED  BY <1>0, <1>3, <1>4 DEF ReachInv

(* The three stores with which pop brings bottom_ back.                    *)
LEMMA PopBackReach ==
  ASSUME Shape, Shape', ReachInv, PopRestore \/ PopLost \/ PopCatchUp
  PROVE  ReachInv'
<1> DEFINE v == IF wpc = "restore" THEN wt ELSE wt + 1
<1>0. /\ \/ wpc = "restore" /\ wpc' = "idle"
         \/ wpc = "lost" /\ wpc' = "idle"
         \/ wpc = "catchUp" /\ wpc' = "lastTake" /\ wb' = wb
      /\ UNCHANGED <<top_, item, spc, st, handed, raced>>
      /\ Store(Bottom(v))
  BY DEF PopRestore, Restored, PopLost, PopCatchUp, CaughtUp, Worker, thiefVars, history
<1>1. v \in Nat /\ wt \in Nat /\ wb \in Nat /\ top_ \in Nat /\ ownBottom \in Nat /\ Capacity \in Nat \ {0}
  BY ViewTypes, DequeAssumption DEF Shape, ViewTyped
<1>2. /\ ownBottom' = v
      /\ \A i \in Cells : ownData(i)' = ownData(i) /\ ownRound(i)' = ownRound(i)
      /\ \A i \in Cells : Pending("data", i) = {} => Pending("data", i)' = {}
  <2> HIDE DEF v
  <2> QED  BY <1>0, <1>1, BottomStored
<1>3. \A t \in Thieves : Index(st[t]) \in Cells
  BY IndexIsCell DEF Shape
<1>4. Locals'
  BY <1>0 DEF Locals
<1>5. ASSUME Live, Locals PROVE Live'
  <2>1. Ahead'
    BY <1>0, <1>1, <1>2, <1>5 DEF Live, Ahead, Locals
  <2>2. Claims'
    BY <1>0, <1>2, <1>3, <1>5 DEF Live, Claims, Filling
  <2>3. RoundOfCell'
    BY <1>2, <1>5 DEF Live, RoundOfCell
  <2>4. PushInProgress'
    BY <1>0 DEF PushInProgress
  <2>5. Pushed' = Pushed
    BY <1>0 DEF Pushed
  <2>6. ownBottom <= top_
    BY <1>0, <1>1, <1>5 DEF Live, Ahead, Locals
  <2>7. \A p : Reach(p) => Reach(p)'
    BY <1>0, <1>1, <1>2, <2>6 DEF Reach
  <2>8. Kept'
    BY <1>0, <1>2, <1>5, <2>5, <2>7 DEF Live, Kept
  <2> QED  BY <2>1, <2>2, <2>3, <2>4, <2>8 DEF Live
<1> QED  BY <1>0, <1>4, <1>5 DEF ReachInv

LEMMA PopLastCasReach ==
  ASSUME Shape, Shape', ReachInv, PopLastCas
  PROVE  ReachInv'
<1>0. /\ wpc = "cas"
      /\ \/ top_ = wt /\ wpc' = "catchUp" /\ top_' = top_ + 1 /\ wb' = wb /\ wt' = wt
         \/ top_ # wt /\ wpc' = "lost" /\ wt' = top_ /\ wb' = 0 /\ top_' = top_
      /\ UNCHANGED <<mem, buffer, item, spc, st, handed, raced>>
      /\ wb \in Nat /\ wt \in Nat /\ top_ \in Nat /\ ownBottom \in Nat /\ Capacity \in Nat \ {0}
  BY ViewTypes, DequeAssumption DEF PopLastCas, Worker, thiefVars, history, Shape, ViewTyped
<1>1. OwnSame
  BY <1>0, SameView
<1>2. \A t \in Thieves : st[t] \in Nat /\ Index(st[t]) \in Cells
  BY IndexIsCell DEF Shape
<1>3. Locals'
  BY <1>0, <1>1 DEF ReachInv, Locals, OwnSame
<1>4. ASSUME Live, Locals PROVE Live'
  <2>1. Ahead'
    BY <1>0, <1>1, <1>4 DEF Live, Ahead, Locals, OwnSame
  <2>2. Claims'
    BY <1>0, <1>1, <1>2, <1>4 DEF Live, Claims, Filling, OwnSame
  <2>3. RoundOfCell'
    BY <1>1, <1>4 DEF Live, RoundOfCell, OwnSame
  <2>4. PushInProgress'
    BY <1>0 DEF PushInProgress
  <2>5. Pushed' = Pushed
    BY <1>0 DEF Pushed
  <2>6. wt = wb /\ wb = ownBottom /\ top_ >= wt
    BY <1>0, <1>4 DEF Locals
  <2>7. \A p : Reach(p) => Reach(p)'
    BY <1>0, <1>1, <2>6 DEF Reach, OwnSame
  <2>8. Kept'
    BY <1>0, <1>1, <1>4, <2>5, <2>7 DEF Live, Kept, OwnSame
  <2> QED  BY <2>1, <2>2, <2>3, <2>4, <2>8 DEF Live
<1> QED  BY <1>0, <1>3, <1>4 DEF ReachInv

(* The owner's exchange empties its cell; whatever was there is handed out. *)
LEMMA PopTakeReach ==
  ASSUME Shape, Shape', ReachInv, PopTake \/ PopLastTake
  PROVE  ReachInv'
<1> DEFINE c == Index(wb)
<1>0. /\ wpc \in {"take", "lastTake"} /\ buffer = <<>> /\ Take(wb)
      /\ \/ wpc' = "idle"
         \/ wpc' = "clear" /\ wb' = wb
      /\ UNCHANGED <<top_, buffer, item, spc, st, raced>>
      /\ wb \in Nat /\ c \in Cells
  BY IndexIsCell DEF PopTake, PopLastTake, Drained, Worker, thiefVars, Shape
<1>1. \A f, i : Pending(f, i) = {}
  BY <1>0 DEF Pending
<1>2. OwnEmptied(c)
  BY <1>0, EmptiedView DEF Take
<1>3. /\ ownBottom' = ownBottom
      /\ \A i \in Cells : ownRound(i)' = ownRound(i) /\ ownData(i)' = IF i = c THEN NULL ELSE ownData(i)
      /\ \A i \in Cells : Pending("data", i)' = {}
  <2> HIDE DEF c
  <2> QED  BY <1>1, <1>2 DEF OwnEmptied
<1>4. Found(wb) = ownData(c)
  BY <1>1 DEF Found, ownData, Load
<1>5. \A t \in Thieves : Index(st[t]) \in Cells
  BY IndexIsCell DEF Shape
<1>6. Locals'
  BY <1>0 DEF Locals
<1>7. ASSUME Live PROVE Live'
  <2>1. Ahead'
    BY <1>0, <1>3, <1>7 DEF Live, Ahead
  <2>2. Claims'
    BY <1>0, <1>3, <1>5, <1>7 DEF Live, Claims, Filling
  <2>3. RoundOfCell'
    BY <1>3, <1>7 DEF Live, RoundOfCell
  <2>4. PushInProgress'
    BY <1>0, <1>3 DEF PushInProgress
  <2>5. Pushed' = Pushed /\ Pushed \subseteq Items
    BY <1>0, DequeAssumption DEF Pushed, Shape, Items
  <2>6. \A x \in Items : handed'[x] = 0 => handed[x] = 0 /\ x # ownData(c)
    BY <1>0, <1>4 DEF Take, Shape
  <2>7. \A p : Index(p) # c /\ Reach(p) => Reach(p)'
    BY <1>0, <1>3 DEF Reach
  <2>8. ASSUME NEW x \in Pushed, handed'[x] = 0
        PROVE  \E i \in Cells : ownData(i)' = x /\ ownRound(i)' # 0 /\ Reach(ownRound(i) - 1)'
    <3>1. PICK i \in Cells : ownData(i) = x /\ ownRound(i) # 0 /\ Reach(ownRound(i) - 1)
      BY <1>7, <2>5, <2>6, <2>8 DEF Live, Kept
    <3>2. i # c /\ Index(ownRound(i) - 1) = i
      BY <1>7, <2>5, <2>6, <2>8, <3>1 DEF Live, RoundOfCell
    <3> QED  BY <1>3, <2>7, <3>1, <3>2
  <2>9. Kept'
    BY <2>5, <2>8 DEF Kept
  <2> QED  BY <2>1, <2>2, <2>3, <2>4, <2>9 DEF Live
<1> QED  BY <1>0, <1>6, <1>7 DEF ReachInv

(* A thief's exchange does the same, unless it is late and a push to the   *)
(* cell is on its way: then the item pushed is not at the thief's position. *)
LEMMA StealTakeReach ==
  ASSUME Shape, Shape', ReachInv, NEW t \in Thieves, StealTake(t)
  PROVE  ReachInv'
<1> DEFINE q == st[t]
           c == Index(q)
<1>0. /\ spc[t] = "take" /\ Take(q)
      /\ spc' = [spc EXCEPT ![t] = spc'[t]] /\ spc'[t] \in {"done", "clear"}
      /\ UNCHANGED <<top_, buffer, wpc, wb, wt, item, st, raced>>
      /\ q \in Nat /\ c \in Cells
  BY IndexIsCell DEF StealTake, Thief, ownerVars, Shape
<1>1. \A u \in Thieves : spc'[u] = IF u = t THEN spc'[t] ELSE spc[u]
  BY <1>0 DEF Shape
<1>2. OwnEmptied(c)
  <2> HIDE DEF q
  <2> QED  BY <1>0, EmptiedView DEF Take
<1>3. /\ ownBottom' = ownBottom
      /\ \A i \in Cells : /\ ownRound(i)' = ownRound(i)
                          /\ ownData(i)' = IF i = c /\ Pending("data", c) = {} THEN NULL ELSE ownData(i)
      /\ \A i \in Cells : Pending("data", i)' = Pending("data", i)
  <2> HIDE DEF c
  <2> QED  BY <1>2 DEF OwnEmptied
<1>4. Pending("data", c) = {} => Found(q) = ownData(c)
  BY DEF Found, ownData, Load
<1>5. \A u \in Thieves : Index(st[u]) \in Cells
  BY IndexIsCell DEF Shape
<1>6. Locals'
  BY <1>0, <1>3 DEF ReachInv, Locals
<1>7. ASSUME Live PROVE Live'
  <2>1. Ahead'
    BY <1>0, <1>3, <1>7 DEF Live, Ahead
  <2>2. \A i : Filling(i)' <=> Filling(i)
    BY <1>0 DEF Filling
  <2>3. Claims'
    <3> SUFFICES ASSUME NEW u \in Thieves
                 PROVE  /\ spc'[u] \in {"take", "clear"} => st[u] < top_
                        /\ spc'[u] = "take" => \/ Pending("data", Index(st[u]))' = {}
                                               \/ ownRound(Index(st[u]))' # st[u] + 1
                                               \/ Filling(Index(st[u]))
                        /\ spc'[u] = "clear" => \/ ownData(Index(st[u]))' = NULL
                                                \/ ownRound(Index(st[u]))' # st[u] + 1
                                                \/ Filling(Index(st[u]))
      BY <1>0, <2>2 DEF Claims
    <3>1. CASE u = t
      BY <1>0, <1>1, <1>3, <1>7, <3>1 DEF Live, Claims
    <3>2. CASE u # t
      BY <1>0, <1>1, <1>3, <1>5, <1>7, <3>2 DEF Live, Claims
    <3> QED  BY <3>1, <3>2
  <2>4. RoundOfCell'
    BY <1>3, <1>7 DEF Live, RoundOfCell
  <2>5. Pushed' = Pushed /\ Pushed \subseteq Items /\ NULL \notin Items
    BY <1>0, DequeAssumption DEF Pushed, Shape, Items
  <2>6. \A x \in Items : handed'[x] = 0 => handed[x] = 0 /\ x # Found(q)
    BY <1>0 DEF Take, Shape
  <2>7. PushInProgress'
    <3>1. wb \in Nat /\ Index(wb) \in Cells /\ item \in 0 .. MaxPush
      BY IndexIsCell DEF Shape
    <3>2. wpc \in {"round", "publish"} => item \in Items
      BY <3>1, DequeAssumption DEF Shape, Items
    <3> HIDE DEF c, q
    <3> QED  BY <1>0, <1>3, <1>4, <1>7, <2>6, <3>1, <3>2 DEF Live, PushInProgress
  <2>8. \A p : Reach(p) => p = q \/ Reach(p)'
    BY <1>0, <1>1, <1>3 DEF Reach
  <2>9. ASSUME NEW x \in Pushed, handed'[x] = 0
        PROVE  \E i \in Cells : ownData(i)' = x /\ ownRound(i)' # 0 /\ Reach(ownRound(i) - 1)'
    <3>1. PICK i \in Cells : ownData(i) = x /\ ownRound(i) # 0 /\ Reach(ownRound(i) - 1)
      BY <1>7, <2>5, <2>6, <2>9 DEF Live, Kept
    <3>2. ownData(i)' = x
      BY <1>3, <1>4, <2>5, <2>6, <2>9, <3>1
    <3>3. ownRound(i) - 1 # q
      <4> SUFFICES ASSUME ownRound(i) - 1 = q PROVE FALSE
        OBVIOUS
      <4>1. i = c /\ ownRound(i) = q + 1
        <5>1. ownRound(i) \in Nat
          BY ViewTypes DEF ViewTyped
        <5> QED  BY <1>7, <3>1, <5>1 DEF Live, RoundOfCell
      <4>2. Pending("data", c) # {}
        BY <1>4, <2>5, <2>6, <2>9, <3>1, <4>1
      <4>3. Filling(c)
        BY <1>0, <1>7, <4>1, <4>2 DEF Live, Claims
      <4>4. x = item /\ wpc = "round"
        BY <1>7, <2>5, <3>1, <4>1, <4>3 DEF Live, PushInProgress, Filling
      <4> QED  BY <4>4 DEF Pushed
    <3> QED  BY <1>3, <2>8, <3>1, <3>2, <3>3
  <2>10. Kept'
    BY <2>5, <2>9 DEF Kept
  <2> QED  BY <2>1, <2>3, <2>4, <2>7, <2>10 DEF Live
<1> QED  BY <1>0, <1>6, <1>7 DEF ReachInv

LEMMA PopClearReach ==
  ASSUME Shape, Shape', ReachInv, PopClear
  PROVE  ReachInv'
<1> DEFINE c == Index(wb)
<1>0. /\ wpc = "clear" /\ wpc' = "idle" /\ ClearRound(wb)
      /\ UNCHANGED <<top_, buffer, item, spc, st, handed, raced>>
      /\ wb \in Nat /\ c \in Cells
  BY IndexIsCell DEF PopClear, Worker, thiefVars, history, Shape
<1>1. OwnCleared(wb)
  BY <1>0, ClearedView
<1>2. /\ ownBottom' = ownBottom
      /\ \A i \in Cells : ownData(i)' = ownData(i)
      /\ \A i \in Cells : \/ ownRound(i)' = ownRound(i)
                          \/ i = c /\ ownRound(i)' = 0
      /\ \A i \in Cells : Pending("data", i)' = Pending("data", i)
  BY <1>1 DEF OwnCleared
<1>3. \A t \in Thieves : st[t] \in Nat /\ Index(st[t]) \in Cells
  BY IndexIsCell DEF Shape
<1>4. Locals'
  BY <1>0 DEF Locals
<1>5. ASSUME Live PROVE Live'
  <2>1. Ahead'
    BY <1>0, <1>2, <1>5 DEF Live, Ahead
  <2>2. Claims'
    BY <1>0, <1>2, <1>3, <1>5 DEF Live, Claims, Filling
  <2>3. RoundOfCell'
    BY <1>2, <1>5 DEF Live, RoundOfCell
  <2>4. PushInProgress'
    BY <1>0 DEF PushInProgress
  <2>5. Pushed' = Pushed /\ NULL \notin Pushed
    BY <1>0, DequeAssumption DEF Pushed, Shape, Items
  <2>6. ownData(c) = NULL
    BY <1>0, <1>5 DEF Live, PushInProgress
  <2>7. \A p : Reach(p) => Reach(p)'
    BY <1>0, <1>2 DEF Reach
  <2>8. ASSUME NEW x \in Pushed, handed[x] = 0
        PROVE  \E i \in Cells : ownData(i)' = x /\ ownRound(i)' # 0 /\ Reach(ownRound(i) - 1)'
    <3>1. PICK i \in Cells : ownData(i) = x /\ ownRound(i) # 0 /\ Reach(ownRound(i) - 1)
      BY <1>5, <2>8 DEF Live, Kept
    <3>2. i # c
      BY <2>5, <2>6, <3>1
    <3> QED  BY <1>2, <2>7, <3>1, <3>2
  <2>9. Kept'
    BY <1>0, <2>5, <2>8 DEF Kept
  <2> QED  BY <2>1, <2>2, <2>3, <2>4, <2>9 DEF Live
<1> QED  BY <1>0, <1>4, <1>5 DEF ReachInv

(* A thief clears the round of its cell late; the round of an item pushed  *)
(* there in the meantime differs.                                          *)
LEMMA StealClearReach ==
  ASSUME Shape, Shape', ReachInv, NEW t \in Thieves, StealClear(t)
  PROVE  ReachInv'
<1> DEFINE q == st[t]
           c == Index(q)
<1>0. /\ spc[t] = "clear" /\ ClearRound(q) /\ spc' = [spc EXCEPT ![t] = "done"]
      /\ UNCHANGED <<top_, buffer, wpc, wb, wt, item, st, handed, raced>>
      /\ q \in Nat /\ c \in Cells /\ top_ \in Nat /\ wb \in Nat
  BY IndexIsCell DEF StealClear, Thief, ownerVars, history, Shape
<1>1. \A u \in Thieves : spc'[u] = IF u = t THEN "done" ELSE spc[u]
  BY <1>0 DEF Shape
<1>2. OwnCleared(q)
  <2> HIDE DEF q
  <2> QED  BY <1>0, ClearedView
<1>3. /\ ownBottom' = ownBottom
      /\ \A i \in Cells : ownData(i)' = ownData(i)
      /\ \A i \in Cells : \/ ownRound(i)' = ownRound(i)
                          \/ i = c /\ ownRound(i) = q + 1 /\ ownRound(i)' = 0
      /\ \A i \in Cells : Pending("data", i)' = Pending("data", i)
  <2> HIDE DEF q
  <2> QED  BY <1>2 DEF OwnCleared
<1>5. \A u \in Thieves : st[u] \in Nat /\ Index(st[u]) \in Cells
  BY IndexIsCell DEF Shape
<1>6. Locals'
  BY <1>0, <1>3 DEF ReachInv, Locals
<1>7. ASSUME Live, Locals PROVE Live'
  <2>0. \A u \in Thieves : st'[u] = st[u]
    BY <1>0
  <2>1. Ahead'
    BY <1>0, <1>3, <1>7 DEF Live, Ahead
  <2>2. \A i : Filling(i)' <=> Filling(i)
    BY <1>0 DEF Filling
  <2>3. \A u \in Thieves : \/ ownRound(Index(st[u]))' = ownRound(Index(st[u]))
                           \/ ownRound(Index(st[u]))' # st[u] + 1
    <3> SUFFICES ASSUME NEW u \in Thieves
                 PROVE  \/ ownRound(Index(st[u]))' = ownRound(Index(st[u]))
                        \/ ownRound(Index(st[u]))' # st[u] + 1
      OBVIOUS
    <3>1. st[u] + 1 # 0
      BY <1>5
    <3> QED  BY <1>0, <1>3, <1>5, <3>1
  <2>4. Claims'
    <3> HIDE DEF c, q
    <3> QED  BY <1>0, <1>1, <1>3, <1>5, <1>7, <2>2, <2>3 DEF Live, Claims
  <2>5. RoundOfCell'
    BY <1>3, <1>7 DEF Live, RoundOfCell
  <2>6. Pushed' = Pushed /\ NULL \notin Pushed
    BY <1>0, DequeAssumption DEF Pushed, Shape, Items
  <2>7. PushInProgress'
    <3>1. Index(wb) \in Cells
      BY <1>0, IndexIsCell
    <3>2. wpc = "publish" => ownRound(Index(wb))' = ownRound(Index(wb))
      <4> SUFFICES ASSUME wpc = "publish", ownRound(Index(wb)) = q + 1 PROVE FALSE
        BY <1>0, <1>3, <3>1
      <4>1. q + 1 = wb + 1 /\ wb >= top_ /\ q < top_
        BY <1>0, <1>7 DEF Live, PushInProgress, Ahead, Locals, Claims
      <4> QED  BY <1>0, <4>1
    <3> QED  BY <1>0, <1>3, <1>7, <3>1, <3>2 DEF Live, PushInProgress
  <2>8. \A p : Reach(p) => Reach(p)'
    BY <1>0, <1>1, <1>3 DEF Reach
  <2>9. ASSUME NEW x \in Pushed, handed[x] = 0
        PROVE  \E i \in Cells : ownData(i)' = x /\ ownRound(i)' # 0 /\ Reach(ownRound(i) - 1)'
    <3>1. PICK i \in Cells : ownData(i) = x /\ ownRound(i) # 0 /\ Reach(ownRound(i) - 1)
      BY <1>7, <2>9 DEF Live, Kept
    <3>2. ~(i = c /\ ownRound(i) = q + 1)
      <4> SUFFICES ASSUME i = c, ownRound(i) = q + 1 PROVE FALSE
        OBVIOUS
      <4>1. ownData(c) = NULL \/ Filling(c)
        BY <1>0, <1>7 DEF Live, Claims
      <4>2. x = item /\ wpc = "round"
        BY <1>7, <2>6, <3>1, <4>1 DEF Live, PushInProgress, Filling
      <4> QED  BY <4>2 DEF Pushed
    <3>3. ownRound(i)' = ownRound(i)
      BY <1>3, <3>2
    <3> QED  BY <1>3, <2>8, <3>1, <3>3
  <2>10. Kept'
    BY <1>0, <2>6, <2>9 DEF Kept
  <2> QED  BY <2>1, <2>4, <2>5, <2>7, <2>10 DEF Live
<1> QED  BY <1>0, <1>6, <1>7 DEF ReachInv

(* The claim.  Unless it is Withdrawn, the thief finds the item there.     *)
LEMMA StealCasReach ==
  ASSUME Shape, Shape', ReachInv, NEW t \in Thieves, StealCas(t), top_ = st[t]
  PROVE  ReachInv'
<1> DEFINE q == st[t]
           c == Index(q)
<1>0. /\ spc[t] = "cas" /\ spc' = [spc EXCEPT ![t] = "take"] /\ top_' = top_ + 1
      /\ raced' = (raced \/ Withdrawn(q))
      /\ UNCHANGED <<mem, buffer, wpc, wb, wt, item, st, handed>>
      /\ q \in Nat /\ c \in Cells /\ top_ \in Nat /\ wb \in Nat /\ wt \in Nat /\ ownBottom \in Nat
      /\ Capacity \in Nat
  BY IndexIsCell, ViewTypes, DequeAssumption DEF StealCas, Thief, ownerVars, Shape, ViewTyped
<1>1. \A u \in Thieves : spc'[u] = IF u = t THEN "take" ELSE spc[u]
  BY <1>0 DEF Shape
<1>2. OwnSame /\ \A i : Pending("data", i)' = Pending("data", i)
  BY <1>0, SameView, OwnIs, OwnIsNext
<1>3. /\ ownBottom' = ownBottom
      /\ \A i \in Cells : ownData(i)' = ownData(i) /\ ownRound(i)' = ownRound(i)
  BY <1>2 DEF OwnSame
<1>5. \A u \in Thieves : st[u] \in Nat /\ Index(st[u]) \in Cells
  BY IndexIsCell DEF Shape
<1>6. Locals'
  BY <1>0, <1>3 DEF ReachInv, Locals
<1>7. ASSUME Live, Locals, ~Withdrawn(q) PROVE Live'
  <2>0. /\ wpc \in {"look", "cas"} \/ top_ < ownBottom
        /\ Pending("data", c) = {}
    BY <1>0, <1>7 DEF Withdrawn
  <2>1. Ahead'
    BY <1>0, <1>3, <1>7, <2>0 DEF Live, Ahead, Locals
  <2>2. \A i : Filling(i)' <=> Filling(i)
    BY <1>0 DEF Filling
  <2>3. Claims'
    <3> SUFFICES ASSUME NEW u \in Thieves
                 PROVE  /\ spc'[u] \in {"take", "clear"} => st[u] < top_'
                        /\ spc'[u] = "take" => \/ Pending("data", Index(st[u]))' = {}
                                               \/ ownRound(Index(st[u]))' # st[u] + 1
                                               \/ Filling(Index(st[u]))
                        /\ spc'[u] = "clear" => \/ ownData(Index(st[u]))' = NULL
                                                \/ ownRound(Index(st[u]))' # st[u] + 1
                                                \/ Filling(Index(st[u]))
      BY <1>0, <2>2 DEF Claims
    <3>1. CASE u = t
      BY <1>0, <1>1, <1>2, <2>0, <3>1
    <3>2. CASE u # t
      BY <1>0, <1>1, <1>2, <1>3, <1>5, <1>7, <3>2 DEF Live, Claims
    <3> QED  BY <3>1, <3>2
  <2>4. RoundOfCell'
    BY <1>3, <1>7 DEF Live, RoundOfCell
  <2>5. PushInProgress'
    <3>1. Index(wb) \in Cells
      BY <1>0, IndexIsCell
    <3> QED  BY <1>0, <1>3, <1>7, <3>1 DEF Live, PushInProgress
  <2>6. Pushed' = Pushed
    BY <1>0 DEF Pushed
  <2>7. \A p : Reach(p) => Reach(p)'
    <3> SUFFICES ASSUME NEW p, Reach(p) PROVE Reach(p)'
      OBVIOUS
    <3>1. CASE p = q
      BY <1>0, <1>1, <3>1 DEF Reach
    <3>2. CASE p # q
      <4>1. CASE p \in top_ .. ownBottom - 1
        BY <1>0, <1>3, <3>2, <4>1 DEF Reach
      <4>2. CASE wpc \in {"look", "cas", "take"} /\ wb = p /\ p >= top_
        BY <1>0, <3>2, <4>2 DEF Reach
      <4> QED  BY <1>0, <1>1, <4>1, <4>2 DEF Reach
    <3> QED  BY <3>1, <3>2
  <2>8. Kept'
    BY <1>0, <1>3, <1>7, <2>6, <2>7 DEF Live, Kept
  <2> QED  BY <2>1, <2>3, <2>4, <2>5, <2>8 DEF Live
<1> QED  BY <1>0, <1>6, <1>7 DEF ReachInv

(* The steps that the owner and the claims do not notice.                  *)
LEMMA OtherReach ==
  ASSUME Shape, Shape', ReachInv, OwnSame,
         UNCHANGED <<top_, wpc, wb, wt, item, handed, raced>>,
         \A u \in Thieves : /\ spc[u] = "take" <=> spc'[u] = "take"
                            /\ spc[u] = "clear" <=> spc'[u] = "clear"
                            /\ spc[u] \in {"take", "clear"} => st'[u] = st[u]
  PROVE  ReachInv'
<1>1. \A u \in Thieves : Index(st[u]) \in Cells
  BY IndexIsCell DEF Shape
<1>2. Index(wb) \in Cells
  BY IndexIsCell DEF Shape
<1>3. Locals'
  BY DEF ReachInv, Locals, OwnSame
<1>4. ASSUME Live PROVE Live'
  <2>1. Ahead'
    BY <1>4 DEF Live, Ahead, OwnSame
  <2>2. \A i : Filling(i)' <=> Filling(i)
    BY DEF Filling
  <2>3. Claims'
    BY <1>1, <1>4, <2>2 DEF Live, Claims, OwnSame
  <2>4. RoundOfCell'
    BY <1>4 DEF Live, RoundOfCell, OwnSame
  <2>5. PushInProgress'
    BY <1>2, <1>4 DEF Live, PushInProgress, OwnSame
  <2>6. Pushed' = Pushed
    BY DEF Pushed
  <2>7. \A p : Reach(p) => Reach(p)'
    BY DEF Reach, OwnSame
  <2>8. Kept'
    BY <1>4, <2>6, <2>7 DEF Live, Kept, OwnSame
  <2> QED  BY <2>1, <2>3, <2>4, <2>5, <2>8 DEF Live
<1> QED  BY <1>3, <1>4 DEF ReachInv

LEMMA DestroyReach ==
  ASSUME Shape, Shape', ReachInv, Destroy
  PROVE  ReachInv'
<1>0. /\ wpc = "idle" /\ wpc' = "gone" /\ buffer = <<>> /\ \A t \in Thieves : spc[t] = "idle"
      /\ UNCHANGED <<top_, buffer, wb, wt, item, spc, st, raced>>
      /\ mem' = [mem EXCEPT !.data = [i \in Cells |-> NULL]]
  BY DEF Destroy, AtRest, thiefVars, Cells
<1>1. mem'.bottom_ = mem.bottom_ /\ mem'.round = mem.round
  BY <1>0 DEF Shape, Memories
<1>2. \A f, i : Pending(f, i) = {} /\ Pending(f, i)' = {}
  BY <1>0 DEF Pending
<1>3. /\ ownBottom = mem.bottom_ /\ ownBottom' = mem.bottom_
      /\ \A i : ownRound(i)' = ownRound(i) /\ ownData(i) = mem.data[i]
  BY <1>1, <1>2 DEF ownBottom, ownRound, ownData, Load
<1>4. Locals'
  BY <1>0 DEF Locals
<1>5. ASSUME Live PROVE Live'
  <2>1. Ahead'
    BY <1>0, <1>3, <1>5 DEF Live, Ahead
  <2>2. Claims'
    BY <1>0 DEF Claims
  <2>3. RoundOfCell'
    BY <1>3, <1>5 DEF Live, RoundOfCell
  <2>4. PushInProgress'
    BY <1>0 DEF PushInProgress
  <2>5. Pushed' = Pushed /\ Pushed \subseteq Items
    BY <1>0, DequeAssumption DEF Pushed, Shape, Items
  <2>6. ASSUME NEW x \in Pushed PROVE handed'[x] # 0
    <3>1. handed[x] \in Nat /\ (handed[x] # 0 => handed'[x] # 0)
      BY <2>5 DEF Destroy, Shape
    <3>2. CASE handed[x] = 0
      <4>1. PICK i \in Cells : ownData(i) = x /\ ownRound(i) # 0 /\ Reach(ownRound(i) - 1)
        BY <1>5, <3>2 DEF Live, Kept
      <4> DEFINE p == ownRound(i) - 1
      <4>2. p \in top_ .. mem.bottom_ - 1
        BY <1>0, <1>3, <4>1 DEF Reach
      <4>3. Found(p) = x
        BY <1>3, <1>5, <4>1 DEF Live, RoundOfCell, Found
      <4> HIDE DEF p
      <4> QED  BY <2>5, <3>1, <4>2, <4>3 DEF Destroy
    <3> QED  BY <3>1, <3>2
  <2>7. Kept'
    BY <2>5, <2>6 DEF Kept
  <2> QED  BY <2>1, <2>2, <2>3, <2>4, <2>7 DEF Live
<1> QED  BY <1>0, <1>4, <1>5 DEF ReachInv

LEMMA InitReach == Init => ReachInv
<1> SUFFICES ASSUME Init PROVE ReachInv
  OBVIOUS
<1>1. /\ top_ = 0 /\ mem.bottom_ = 0 /\ buffer = <<>> /\ wpc = "idle" /\ item = 0
      /\ \A t \in Thieves : spc[t] = "idle"
      /\ \A i \in Cells : mem.round[i] = 0
  BY DEF Init, Cells
<1>2. \A f, i : Pending(f, i) = {}
  BY <1>1 DEF Pending
<1>3. ownBottom = 0 /\ \A i \in Cells : ownRound(i) = 0
  BY <1>1, <1>2 DEF ownBottom, ownRound, Load
<1>4. Locals /\ Claims /\ RoundOfCell /\ PushInProgress
  BY <1>1, <1>3 DEF Locals, Claims, RoundOfCell, PushInProgress
<1>5. Ahead
  BY <1>1, <1>3, DequeAssumption DEF Ahead
<1>6. Kept
  BY <1>1 DEF Kept, Pushed
<1> QED  BY <1>4, <1>5, <1>6 DEF ReachInv, Live

LEMMA NextReach ==
  ASSUME Shape, Shape', ItemInv, ReachInv, [Next]_vars
  PROVE  ReachInv'
<1>1. CASE UNCHANGED vars
  <2>1. OwnSame
    BY <1>1, SameView DEF vars
  <2> QED  BY <1>1, <2>1, OtherReach DEF vars, ownerVars, thiefVars, history
<1>2. CASE Drain
  <2>1. OwnSame
    BY <1>2, DrainView
  <2> QED  BY <1>2, <2>1, OtherReach DEF Drain, ownerVars, thiefVars, history
<1>3. ASSUME NEW t \in Thieves,
             \/ StealTop(t) \/ StealBottom(t) \/ StealRound(t) \/ StealReturn(t)
             \/ StealCas(t) /\ top_ # st[t]
      PROVE  ReachInv'
  <2>1. UNCHANGED <<top_, mem, buffer, wpc, wb, wt, item, handed, raced>>
    BY <1>3 DEF StealTop, StealBottom, StealRound, StealReturn, StealCas, ownerVars, history
  <2>2. /\ spc[t] \notin {"take", "clear"} /\ spc'[t] \notin {"take", "clear"}
        /\ \A u \in Thieves \ {t} : spc'[u] = spc[u] /\ st'[u] = st[u]
    <3> USE DEF Thief, Shape
    <3>1. CASE StealTop(t)
      BY <3>1 DEF StealTop
    <3>2. CASE StealBottom(t)
      BY <3>2 DEF StealBottom
    <3>3. CASE StealRound(t)
      BY <3>3 DEF StealRound
    <3>4. CASE StealReturn(t)
      BY <3>4 DEF StealReturn
    <3>5. CASE StealCas(t) /\ top_ # st[t]
      BY <3>5 DEF StealCas
    <3> QED  BY <1>3, <3>1, <3>2, <3>3, <3>4, <3>5
  <2>3. \A u \in Thieves : /\ spc[u] = "take" <=> spc'[u] = "take"
                           /\ spc[u] = "clear" <=> spc'[u] = "clear"
                           /\ spc[u] \in {"take", "clear"} => st'[u] = st[u]
    BY <2>2
  <2>4. OwnSame
    BY <2>1, SameView
  <2> QED  BY <2>1, <2>3, <2>4, OtherReach
<1>4. ASSUME NEW t \in Thieves, Steal(t) \/ StealTop(t) PROVE ReachInv'
  BY <1>3, <1>4, StealTakeReach, StealClearReach, StealCasReach DEF Steal
<1> QED
  BY <1>1, <1>2, <1>4, PushLookReach, PushWriteReach, PushRoundReach, PushPublishReach, PopStoreReach,
     PopLookReach, PopBackReach, PopTakeReach, PopClearReach, PopLastCasReach, DestroyReach
  DEF Next, Push, Pop

-----------------------------------------------------------------------------
(* Without a store buffer a thief that has seen bottom_ beyond its position *)
(* is behind bottom_ or top_ still, unless pop is about to look at top_.   *)
InOrder ==
  depth = 0 =>
    /\ buffer = <<>> /\ ~raced
    /\ \A t \in Thieves :
         /\ spc[t] \in {"bottom", "round", "cas"} => st[t] <= top_
         /\ spc[t] \in {"round", "cas"} =>
              \/ st[t] < top_ \/ st[t] < mem.bottom_
              \/ wpc \in {"look", "cas"} /\ st[t] <= mem.bottom_

LEMMA NextInOrder ==
  ASSUME Shape, Shape', ReachInv, InOrder, [Next]_vars
  PROVE  InOrder'
<1> SUFFICES ASSUME depth' = 0 PROVE InOrder'
  BY DEF InOrder
<1>0. depth = 0 /\ buffer = <<>> /\ ~raced /\ Locals /\ Ahead
  BY DEF Next, Push, PushLook, PushWrite, PushRound, PushPublish, PopStore, Pop, PopLook, PopRestore,
     PopTake, PopClear, PopLastCas, PopLost, PopCatchUp, PopLastTake, Drain, Destroy, Steal, StealTop, StealBottom,
     StealRound, StealCas, StealTake, StealClear, StealReturn, vars, InOrder, ReachInv, Live
<1>1. ownBottom = mem.bottom_ /\ ownBottom' = mem'.bottom_ /\ buffer' = <<>> /\ \A f, i : Pending(f, i) = {}
  <2>1. buffer' = <<>>
    BY DEF Shape
  <2> QED  BY <1>0, <2>1 DEF ownBottom, Load, Pending
<1>2. /\ top_ \in Nat /\ wb \in Nat /\ wt \in Nat /\ mem.bottom_ \in Nat /\ mem'.bottom_ \in Nat
      /\ \A t \in Thieves : st[t] \in Nat
  BY DEF Shape, Memories
<1>3. ASSUME NEW t \in Thieves
      PROVE  /\ spc[t] \in {"bottom", "round", "cas"} => st[t] <= top_
             /\ spc[t] \in {"round", "cas"} =>
                  \/ st[t] < top_ \/ st[t] < mem.bottom_
                  \/ wpc \in {"look", "cas"} /\ st[t] <= mem.bottom_
  BY <1>0 DEF InOrder
(* Steps of the owner other than its store to bottom_ and its two looks at  *)
(* top_: bottom_ does not fall.                                            *)
<1>4. ASSUME UNCHANGED <<top_, spc, st, raced>>, mem'.bottom_ >= mem.bottom_, wpc \notin {"look", "cas"}
      PROVE  InOrder'
  BY <1>0, <1>1, <1>2, <1>3, <1>4 DEF InOrder
<1>5. CASE PushLook \/ UNCHANGED vars
  <2>1. CASE PushLook
    BY <1>2, <1>4, <2>1 DEF PushLook, Worker, thiefVars, history
  <2>2. CASE UNCHANGED vars
    BY <2>2 DEF vars, ownerVars, thiefVars, history, InOrder
  <2> QED  BY <1>5, <2>1, <2>2
<1>6. CASE PushWrite
  <2>1. item \in Items /\ Store(Data(wb, item))
    BY <1>6, DequeAssumption DEF PushWrite, Worker, Shape, Items
  <2>2. ownBottom' = ownBottom
    BY <1>2, <2>1, DataStored
  <2> QED  BY <1>1, <1>2, <1>4, <1>6, <2>2 DEF PushWrite, Worker, thiefVars, history
<1>7. CASE PushRound
  <2> DEFINE v == wb + 1
  <2>1. v \in Nat /\ Store(Round(wb, v))
    BY <1>2, <1>7 DEF PushRound
  <2> HIDE DEF v
  <2>2. ownBottom' = ownBottom
    BY <1>2, <2>1, RoundStored
  <2> QED  BY <1>1, <1>2, <1>4, <1>7, <2>2 DEF PushRound, Worker, thiefVars, history
<1>8. CASE PushPublish
  <2> DEFINE v == wb + 1
  <2>1. v \in Nat /\ Store(Bottom(v)) /\ wb = ownBottom /\ wpc = "publish"
    BY <1>0, <1>2, <1>8 DEF PushPublish, Worker, Locals
  <2>2. ownBottom' = v
    <3> HIDE DEF v
    <3> QED  BY <2>1, BottomStored
  <2> QED  BY <1>1, <1>2, <1>4, <1>8, <2>1, <2>2 DEF PushPublish, Worker, thiefVars, history
<1>9. CASE PopStore
  <2> DEFINE v == ownBottom - 1
  <2>1. v \in Nat /\ Store(Bottom(v)) /\ wpc = "idle" /\ wpc' = "look" /\ UNCHANGED <<top_, spc, st, raced>>
    BY <1>1, <1>2, <1>9 DEF PopStore, Worker, thiefVars, history
  <2>2. ownBottom' = v
    <3> HIDE DEF v
    <3> QED  BY <2>1, BottomStored
  <2> QED  BY <1>0, <1>1, <1>2, <1>3, <2>1, <2>2 DEF InOrder
<1>10. CASE PopLook
  <2>1. /\ wpc = "look" /\ wb = mem.bottom_ /\ UNCHANGED <<top_, mem, spc, st, raced>>
        /\ wb # top_ \/ wpc' = "cas"
    BY <1>0, <1>1, <1>2, <1>10 DEF PopLook, Worker, NoCompetition, thiefVars, history, Locals
  <2> QED  BY <1>0, <1>1, <1>2, <1>3, <2>1 DEF InOrder
<1>11. CASE PopRestore \/ PopLost \/ PopCatchUp
  <2> DEFINE v == IF wpc = "restore" THEN wt ELSE wt + 1
  <2>1. v \in Nat /\ Store(Bottom(v)) /\ wpc \in {"restore", "lost", "catchUp"} /\ UNCHANGED <<top_, spc, st, raced>>
    BY <1>2, <1>11 DEF PopRestore, Restored, PopLost, PopCatchUp, CaughtUp, Worker, thiefVars, history
  <2>2. v >= mem.bottom_
    BY <1>0, <1>1, <1>2, <2>1 DEF Locals
  <2>3. ownBottom' = v
    <3> HIDE DEF v
    <3> QED  BY <2>1, BottomStored
  <2> QED  BY <1>1, <1>4, <2>1, <2>2, <2>3
<1>12. CASE PopTake \/ PopLastTake
  <2>1. mem'.bottom_ = mem.bottom_
    BY <1>2, <1>12, EmptiedView DEF PopTake, PopLastTake, Take
  <2> QED  BY <1>2, <1>4, <1>12, <2>1 DEF PopTake, PopLastTake, Worker, thiefVars
<1>13. CASE PopClear
  <2>1. mem'.bottom_ = mem.bottom_
    BY <1>2, <1>13, ClearedView DEF PopClear, OwnCleared
  <2> QED  BY <1>2, <1>4, <1>13, <2>1 DEF PopClear, Worker, thiefVars, history
<1>14. CASE PopLastCas
  <2>1. /\ wpc = "cas" /\ wb = mem.bottom_ /\ wt = wb /\ top_ >= wt /\ UNCHANGED <<mem, spc, st, raced>>
        /\ \/ top_ = wt /\ top_' = top_ + 1
           \/ top_ # wt /\ top_' = top_
    BY <1>0, <1>1, <1>2, <1>14 DEF PopLastCas, Worker, thiefVars, history, Locals
  <2> QED  BY <1>0, <1>1, <1>2, <1>3, <2>1 DEF InOrder
<1>15. CASE Drain
  BY <1>0, <1>15 DEF Drain
<1>16. CASE Destroy
  <2>1. mem'.bottom_ = mem.bottom_
    BY <1>16 DEF Destroy, Shape, Memories
  <2> QED  BY <1>2, <1>4, <1>16, <2>1 DEF Destroy, AtRest, thiefVars
(* Steps of a thief: bottom_ does not change.                              *)
<1>17. ASSUME NEW t \in Thieves, mem'.bottom_ = mem.bottom_, UNCHANGED <<top_, wpc, raced>>,
              \A u \in Thieves \ {t} : spc'[u] = spc[u] /\ st'[u] = st[u],
              spc'[t] \in {"bottom", "round", "cas"} => st'[t] <= top_,
              \/ spc'[t] \notin {"round", "cas"}
              \/ st'[t] < mem.bottom_
              \/ spc[t] \in {"round", "cas"} /\ st'[t] = st[t]
       PROVE  InOrder'
  BY <1>0, <1>1, <1>2, <1>3, <1>17 DEF InOrder
<1>18. ASSUME NEW t \in Thieves, StealTop(t) PROVE InOrder'
  BY <1>2, <1>17, <1>18 DEF StealTop, Thief, Shape, ownerVars, history
<1>19. ASSUME NEW t \in Thieves, StealBottom(t) PROVE InOrder'
  <2>1. st[t] <= top_
    BY <1>3, <1>19 DEF StealBottom, Thief
  <2> QED  BY <1>2, <1>17, <1>19, <2>1 DEF StealBottom, Thief, Shape, ownerVars, history
<1>20. ASSUME NEW t \in Thieves, StealRound(t) PROVE InOrder'
  <2>1. st[t] <= top_
    BY <1>3, <1>20 DEF StealRound, Thief
  <2> QED  BY <1>2, <1>17, <1>20, <2>1 DEF StealRound, Thief, Shape, ownerVars, history
<1>21. ASSUME NEW t \in Thieves, StealReturn(t) PROVE InOrder'
  BY <1>2, <1>17, <1>21 DEF StealReturn, Thief, Shape, ownerVars, history
<1>22. ASSUME NEW t \in Thieves, StealCas(t), top_ # st[t] PROVE InOrder'
  BY <1>2, <1>17, <1>22 DEF StealCas, Thief, Shape, ownerVars
<1>23. ASSUME NEW t \in Thieves, StealCas(t), top_ = st[t] PROVE InOrder'
  <2> DEFINE q == st[t]
  <2>1. /\ spc[t] = "cas" /\ top_' = top_ + 1 /\ raced' = (raced \/ Withdrawn(q))
        /\ UNCHANGED <<mem, st, wpc>> /\ spc' = [spc EXCEPT ![t] = "take"]
    BY <1>23 DEF StealCas, Thief, ownerVars
  <2>2. ~Withdrawn(q)
    <3>1. ~(q >= ownBottom /\ wpc \notin {"look", "cas"})
      BY <1>1, <1>2, <1>3, <1>23, <2>1
    <3> QED  BY <1>1, <3>1 DEF Withdrawn
  <2>3. ~raced'
    BY <1>0, <2>1, <2>2
  <2>4. \A u \in Thieves : spc'[u] = IF u = t THEN "take" ELSE spc[u]
    BY <2>1 DEF Shape
  <2> HIDE DEF q
  <2> QED  BY <1>0, <1>1, <1>2, <1>3, <2>1, <2>3, <2>4 DEF InOrder
<1>24. ASSUME NEW t \in Thieves, StealTake(t) \/ StealClear(t) PROVE InOrder'
  <2> DEFINE q == st[t]
  <2>1. q \in Nat /\ (Exchange(q) \/ ClearRound(q)) /\ UNCHANGED <<top_, buffer, wpc, st, raced>>
    BY <1>2, <1>24 DEF StealTake, StealClear, Take, ownerVars, history
  <2>2. mem'.bottom_ = mem.bottom_
    <3> HIDE DEF q
    <3> QED  BY <2>1, EmptiedView, ClearedView DEF OwnCleared
  <2>3. spc'[t] \in {"clear", "done"} /\ \A u \in Thieves \ {t} : spc'[u] = spc[u]
    BY <1>24 DEF StealTake, StealClear, Thief, Shape
  <2> QED  BY <1>2, <1>17, <2>1, <2>2, <2>3
<1> QED
  BY <1>5, <1>6, <1>7, <1>8, <1>9, <1>10, <1>11, <1>12, <1>13, <1>14, <1>15, <1>16, <1>18, <1>19, <1>20,
     <1>21, <1>22, <1>23, <1>24 DEF Next, Push, Pop, Steal

LEMMA InitInOrder == Init => InOrder
BY DEF Init, InOrder

DequeInv == Shape /\ ItemInv /\ ReachInv /\ InOrder

LEMMA AlwaysDeque == Spec => []DequeInv
<1>1. Init => DequeInv
  BY InitShape, InitItems, InitReach, InitInOrder DEF DequeInv
<1>2. DequeInv /\ [Next]_vars => DequeInv'
  BY NextShape, NextItems, NextReach, NextInOrder DEF DequeInv
<1> QED  BY <1>1, <1>2, PTL DEF Spec

(* An item whose push has returned is handed out, or it is where the owner *)
(* or a thief will find it, unless a thief has claimed a position that the *)
(* owner had withdrawn.  That holds however late a thief is and whatever   *)
(* empty position a pop that lost the last item has left behind.           *)
THEOREM DequeLostOnlyByRace == Spec => []LostOnlyByRace
<1>1. DequeInv => LostOnlyByRace
  <2> SUFFICES ASSUME DequeInv, ~raced, NEW x \in Pushed, handed[x] = 0
               PROVE  \E i \in 0 .. Capacity - 1 : ownData(i) = x /\ InReach(ownRound(i) - 1)
    BY DEF LostOnlyByRace, NothingLost
  <2>1. PICK i \in Cells : ownData(i) = x /\ ownRound(i) # 0 /\ Reach(ownRound(i) - 1)
    BY DEF DequeInv, ReachInv, Live, Kept
  <2>2. \A p : Reach(p) => InReach(p)
    BY DEF Reach, InReach
  <2> QED  BY <2>1, <2>2 DEF Cells
<1> QED  BY <1>1, AlwaysDeque, PTL

(* Under sequential consistency that never happens: pop's store to bottom_ *)
(* and load of top_ exclude it.  With the theorem before, nothing is lost. *)
THEOREM DequeRaceNeedsReordering == Spec => []RaceNeedsReordering
<1>1. DequeInv => RaceNeedsReordering
  BY DEF DequeInv, InOrder, RaceNeedsReordering
<1> QED  BY <1>1, AlwaysDeque, PTL

(* At rest, without such a claim, size() is at most the capacity and every *)
(* item is in a position that size() counts and the destructor visits.     *)
THEOREM DequeSizeAtRest == Spec => []SizeAtRest
<1>1. DequeInv => SizeAtRest
  <2> SUFFICES ASSUME DequeInv, AtRest, ~raced
               PROVE  /\ size <= Capacity
                      /\ ItemsIn \subseteq {Found(p) : p \in top_ .. mem.bottom_ - 1}
    BY DEF SizeAtRest
  <2>0. Shape /\ ItemInv /\ Live /\ buffer = <<>> /\ wpc = "idle" /\ \A t \in Thieves : spc[t] = "idle"
    BY DEF DequeInv, ReachInv, AtRest
  <2>1. \A f, i : Pending(f, i) = {}
    BY <2>0 DEF Pending
  <2>2. ownBottom = mem.bottom_ /\ \A i : ownData(i) = mem.data[i]
    BY <2>1 DEF ownBottom, ownData, Load
  <2>3. size <= Capacity
    BY <2>0, <2>2, DequeAssumption DEF size, Live, Ahead, Shape, Memories
  <2>4. ASSUME NEW x \in ItemsIn PROVE \E p \in top_ .. mem.bottom_ - 1 : Found(p) = x
    <3>1. x \in Items /\ x # NULL /\ \E i \in Cells : mem.data[i] = x
      BY DequeAssumption DEF ItemsIn, Items, Cells
    <3>2. Fresh(x)
      BY <2>0, <3>1 DEF ItemInv
    <3>3. x \in Pushed /\ handed[x] = 0
      BY <2>0, <3>1, <3>2, DequeAssumption DEF Fresh, Unused, Pushed, Shape, Items
    <3>4. PICK i \in Cells : ownData(i) = x /\ ownRound(i) # 0 /\ Reach(ownRound(i) - 1)
      BY <2>0, <3>3 DEF Live, Kept
    <3> DEFINE p == ownRound(i) - 1
    <3>5. p \in top_ .. mem.bottom_ - 1
      BY <2>0, <2>2, <3>4 DEF Reach
    <3>6. Found(p) = x
      BY <2>0, <2>2, <3>4 DEF Live, RoundOfCell, Found
    <3> HIDE DEF p
    <3> QED  BY <3>5, <3>6
  <2> QED  BY <2>3, <2>4
<1> QED  BY <1>1, AlwaysDeque, PTL

=============================================================================
