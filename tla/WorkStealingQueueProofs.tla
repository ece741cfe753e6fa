----------------------- MODULE WorkStealingQueueProofs -----------------------
(***************************************************************************)
(* Theorems about WorkStealingQueue for any finite number of thieves, any  *)
(* initial capacity, any number of pushes and any batch size.              *)
(***************************************************************************)
EXTENDS WorkStealingQueue, LightEpochProofs, IndexArithmetic

(* Every step of the queue is a step of its LightEpoch, or leaves it alone. *)
LEMMA EpochSteps == [QueueNext]_allVars => [Next]_vars
<1> SUFFICES ASSUME [QueueNext]_allVars PROVE [Next]_vars
  OBVIOUS
<1>1. CASE UNCHANGED epochVars
  BY <1>1 DEF epochVars, vars
<1>2. CASE OpenWindow
  BY <1>2 DEF OpenWindow, Next, OwnerStep
<1>3. CASE CloseWindow
  BY <1>3 DEF CloseWindow, Next, OwnerStep
<1>4. ASSUME NEW t \in Thieves, StealEnter(t) \/ StealReturn(t) PROVE [Next]_vars
  BY <1>4 DEF StealEnter, StealReturn, Next, ThiefStep
<1>5. ASSUME NEW t \in Thieves, NEW n \in 0 .. MaxBatch, StealCall(t, n) PROVE [Next]_vars
  BY <1>5 DEF StealCall, Next
<1>6. CASE StoreDrains
  BY <1>6 DEF StoreDrains, Next
<1>7. ASSUME NEW t \in Thieves, Steal(t) PROVE [Next]_vars
  BY <1>1, <1>4, <1>7 DEF Steal, StealTop, StealArray, StealRound, StealCas, StealTake, StealClear
<1>8. CASE Pop \/ Push \/ PushCall \/ PopLook \/ Destroy
  BY <1>1, <1>2, <1>3, <1>8 DEF Pop, PopTake, PopClear, PopLastCas, PopLastTake, PopLastClear, Push,
     PushLook, PushWrite, PushPublish, Grow, PushCall, PopLook, Destroy
<1>9. QED
  BY <1>1, <1>5, <1>6, <1>7, <1>8 DEF QueueNext, allVars

LEMMA AlwaysEpoch == QueueSpec => []EpochInv
<1>1. QueueInit => EpochInv
  BY InitEpoch DEF QueueInit
<1>2. EpochInv /\ [QueueNext]_allVars => EpochInv'
  BY EpochSteps, NextEpoch
<1>3. QED
  BY <1>1, <1>2, PTL DEF QueueSpec

-----------------------------------------------------------------------------
(* Thieves and the array.  A thief past its load of top is inside its      *)
(* Guard, and grow() replaces the array only while nobody is.              *)
InGuard == \A t \in Thieves : spc[t] # "top" => tpc[t] = "inside"

ArrayInv ==
  /\ DOMAIN spc = Thieves /\ DOMAIN sa = Thieves
  /\ InGuard
  /\ NoUseAfterFree

LEMMA NextArray ==
  ASSUME EpochInv, ArrayInv, [QueueNext]_allVars
  PROVE  ArrayInv'
<1>0. DOMAIN tpc = Thieves
  BY DEF EpochInv, Types
<1>1. CASE UNCHANGED <<spc, sa, array_, tpc>>
  BY <1>1 DEF ArrayInv, InGuard, NoUseAfterFree
<1>2. ASSUME NEW t \in Thieves, StealEnter(t) \/ \E n \in 0 .. MaxBatch : StealCall(t, n)
      PROVE  ArrayInv'
  <2>1. UNCHANGED <<spc, sa, array_>> /\ \A u \in Thieves : tpc[u] = "inside" => tpc'[u] = "inside"
    BY <1>0, <1>2 DEF StealEnter, CheckGate, Register, RecheckGate, Undo, StealCall, Enter, Thief,
                      queueVars, thiefVars
  <2>2. QED
    BY <2>1 DEF ArrayInv, InGuard, NoUseAfterFree
<1>3. ASSUME NEW t \in Thieves, Steal(t), ~StealEnter(t) PROVE ArrayInv'
  <2>1. /\ array_' = array_ /\ tpc[t] = "inside"
        /\ \E l : spc' = [spc EXCEPT ![t] = l]
    BY <1>3 DEF Steal, StealTop, StealArray, StealRound, StealCas, StealTake, StealClear,
                StealReturn, Steals
  <2>2. \A u \in Thieves : u # t => spc'[u] = spc[u]
    BY <2>1 DEF ArrayInv
  <2>3. CASE StealReturn(t)
    <3>1. spc'[t] = "top" /\ \A u \in Thieves : u # t => tpc'[u] = tpc[u] /\ sa'[u] = sa[u]
      BY <1>0, <2>3 DEF StealReturn, Steals, Exit, Thief, ArrayInv
    <3>2. DOMAIN spc' = Thieves /\ DOMAIN sa' = Thieves
      BY <2>3 DEF StealReturn, Steals, ArrayInv
    <3>3. QED
      BY <2>1, <2>2, <3>1, <3>2 DEF ArrayInv, InGuard, NoUseAfterFree
  <2>4. CASE StealArray(t)
    <3>1. /\ spc'[t] = "round" /\ sa'[t] = array_ /\ tpc' = tpc
          /\ \A u \in Thieves : u # t => sa'[u] = sa[u]
          /\ DOMAIN spc' = Thieves /\ DOMAIN sa' = Thieves
      BY <2>4 DEF StealArray, Steals, ArrayInv, epochVars
    <3>2. QED
      BY <2>1, <2>2, <3>1 DEF ArrayInv, InGuard, NoUseAfterFree
  <2>5. CASE StealTop(t) \/ StealRound(t) \/ StealCas(t) \/ StealTake(t) \/ StealClear(t)
    <3>1. tpc' = tpc /\ sa' = sa /\ DOMAIN spc' = Thieves
      BY <2>5 DEF StealTop, StealRound, StealCas, StealTake, StealClear, Steals, ArrayInv, epochVars
    <3>2. \/ spc'[t] \in {"array", "top", "done"}
          \/ spc[t] \in {"round", "cas", "take", "clear"}
      BY <2>5 DEF StealTop, StealRound, StealCas, StealTake, StealClear, Steals, ArrayInv
    <3>3. QED
      BY <2>1, <2>2, <3>1, <3>2 DEF ArrayInv, InGuard, NoUseAfterFree
  <2>6. QED
    BY <1>3, <2>3, <2>4, <2>5 DEF Steal
<1>4. CASE Grow
  <2>1. \A t \in Thieves : spc[t] = "top"
    BY <1>4 DEF Grow, EpochInv, NoThiefInWindow, Inside, ArrayInv, InGuard
  <2>2. UNCHANGED <<spc, sa>>
    BY <1>4 DEF Grow, thiefVars
  <2>3. QED
    BY <2>1, <2>2 DEF ArrayInv, InGuard, NoUseAfterFree
<1>5. CASE (Pop \/ Push \/ PushCall \/ PopLook \/ Destroy \/ StoreDrains) /\ ~Grow
  <2>1. UNCHANGED <<spc, sa, array_, tpc>>
    BY <1>5 DEF Pop, PopTake, PopClear, PopLastCas, PopLastTake, PopLastClear, Push, PushLook,
       PushWrite, PushPublish, OpenWindow, CloseWindow, PushCall, PopLook, Destroy, StoreDrains, Close,
       Fence, AwaitQuiet, Open, Drain, epochVars, thiefVars, queueVars
  <2>2. QED
    BY <1>1, <2>1
<1>6. CASE UNCHANGED allVars
  BY <1>1, <1>6 DEF allVars, epochVars, queueVars, thiefVars
<1>7. QED
  BY <1>2, <1>3, <1>4, <1>5, <1>6 DEF QueueNext, Push

(* A thief that holds the pointer it read from array_ holds the current    *)
(* array, however long it is delayed and however often the owner grows.    *)
THEOREM QueueNoUseAfterFree == QueueSpec => []NoUseAfterFree
<1>1. QueueInit => ArrayInv
  BY DEF QueueInit, ArrayInv, InGuard, NoUseAfterFree
<1>2. EpochInv /\ ArrayInv /\ [QueueNext]_allVars => ArrayInv'
  BY NextArray
<1>3. ArrayInv => NoUseAfterFree
  BY DEF ArrayInv
<1>4. QED
  BY <1>1, <1>2, <1>3, AlwaysEpoch, PTL DEF QueueSpec

-----------------------------------------------------------------------------
(* Items and cells.  An item the owner is still to write is nowhere; one   *)
(* it has written is in one cell until exactly one exchange gets it.  That *)
(* grow() does not copy an item twice needs the positions of [top,         *)
(* bottom_) to have different cells, so it needs the bound on their number. *)

Shape ==
  /\ capacity \in Nat \ {0}
  /\ cells \in [0 .. capacity - 1 -> [data : Items \cup {NULL}, round : Int]]
  /\ handed \in [Items -> Nat]

Fresh(x) == handed[x] = 0 /\ \A i \in DOMAIN cells : cells[i].data # x

Unused ==
  /\ item \in 0 .. MaxPush
  /\ wpc \in {"push", "write", "grow", "grown"} => item \in Items
  /\ \A x \in Items :
       x > item \/ (x = item /\ wpc \in {"push", "write", "grow", "grown"}) => Fresh(x)

Positions ==
  /\ top \in Int /\ bottom_ \in Int /\ wt \in Int /\ st \in [Thieves -> Int]
  /\ bottom_ - top <= capacity
  /\ wpc \in {"write", "publish"} => bottom_ - top < capacity
  /\ wpc = "lastTake" => wt < top

ItemInv == Shape /\ TakenOnce /\ Unused /\ Positions

LEMMA IndexInside == ASSUME Shape, NEW p \in Int PROVE Index(p) \in DOMAIN cells
<1>1. capacity \in Nat \ {0} /\ DOMAIN cells = 0 .. capacity - 1
  BY DEF Shape
<1> HIDE DEF capacity
<1>2. QED
  BY <1>1 DEF Index

LEMMA SizeKept == ASSUME DOMAIN cells' = DOMAIN cells PROVE capacity' = capacity
  BY DEF capacity

(* A step that touches no data and hands nothing out.                      *)
LEMMA DataKept ==
  ASSUME Shape, TakenOnce, handed' = handed, DOMAIN cells' = DOMAIN cells,
         \A i \in DOMAIN cells : cells'[i].data = cells[i].data
  PROVE  TakenOnce' /\ \A x \in Items : Fresh(x) => Fresh(x)'
<1>1. TakenOnce'
  BY DEF TakenOnce
<1>2. \A x \in Items : Fresh(x) => Fresh(x)'
  BY DEF Fresh
<1>3. QED
  BY <1>1, <1>2

(* clear of a round.                                                       *)
LEMMA Clears ==
  ASSUME Shape, NEW p \in Int, ClearRound(p)
  PROVE  /\ DOMAIN cells' = DOMAIN cells /\ \A i \in DOMAIN cells : cells'[i].data = cells[i].data
         /\ cells' \in [0 .. capacity - 1 -> [data : Items \cup {NULL}, round : Int]]
<1> DEFINE k == Index(p)
<1>1. k \in DOMAIN cells
  BY IndexInside
<1>2. cells' = cells \/ cells' = [cells EXCEPT ![k].round = 0]
  BY DEF ClearRound
<1> HIDE DEF k
<1>3. CASE cells' = cells
  BY <1>3 DEF Shape
<1>4. CASE cells' = [cells EXCEPT ![k].round = 0]
  <2>1. cells' \in [0 .. capacity - 1 -> [data : Items \cup {NULL}, round : Int]]
    BY <1>1, <1>4 DEF Shape
  <2>2. DOMAIN cells' = DOMAIN cells /\ \A i \in DOMAIN cells : cells'[i].data = cells[i].data
    BY <1>1, <1>4 DEF Shape
  <2>3. QED
    BY <2>1, <2>2
<1>5. QED
  BY <1>2, <1>3, <1>4

(* The exchange of a consumer.                                             *)
LEMMA Takes ==
  ASSUME Shape, TakenOnce, NEW p \in Int, Take(p)
  PROVE  /\ DOMAIN cells' = DOMAIN cells /\ Shape' /\ TakenOnce'
         /\ \A x \in Items : Fresh(x) => Fresh(x)'
<1> DEFINE k == Index(p)
           y == cells[k].data
<1>1. k \in DOMAIN cells
  BY IndexInside
<1>2. /\ cells' = [cells EXCEPT ![k].data = NULL]
      /\ handed' = [x \in Items |-> handed[x] + (IF x = y THEN 1 ELSE 0)]
  BY DEF Take, Exchange, At
<1> HIDE DEF k
<1>3. DOMAIN cells' = DOMAIN cells
  BY <1>2
<1>4. /\ cells'[k].data = NULL
      /\ \A i \in DOMAIN cells : i # k => cells'[i].data = cells[i].data
  BY <1>1, <1>2 DEF Shape
<1>5. cells' \in [0 .. capacity - 1 -> [data : Items \cup {NULL}, round : Int]]
  BY <1>1, <1>2 DEF Shape
<1>6. handed' \in [Items -> Nat]
  BY <1>2 DEF Shape
<1>7. Shape'
  BY <1>3, <1>5, <1>6, SizeKept DEF Shape
<1>8. y \in Items => handed[y] = 0 /\ \A j \in DOMAIN cells : cells[j].data = y => j = k
  BY <1>1, NullIsNoItem DEF TakenOnce, Items
<1>9. \A x \in Items : handed'[x] = IF x = y THEN handed[x] + 1 ELSE handed[x]
  BY <1>2 DEF Shape
<1> HIDE DEF y
<1>10. \A x \in Items : handed'[x] <= 1
  BY <1>8, <1>9 DEF TakenOnce, Shape
<1>11. ASSUME NEW i \in DOMAIN cells, cells'[i].data # NULL
       PROVE  /\ handed'[cells'[i].data] = 0
              /\ \A j \in DOMAIN cells : cells'[j].data = cells'[i].data => i = j
  <2>1. i # k /\ cells'[i].data = cells[i].data /\ cells[i].data # NULL /\ cells[i].data \in Items
    BY <1>4, <1>11 DEF Shape
  <2>2. cells[i].data # y
    BY <1>8, <2>1
  <2>3. handed'[cells[i].data] = 0
    BY <1>9, <2>1, <2>2 DEF TakenOnce
  <2>4. \A j \in DOMAIN cells : cells'[j].data = cells'[i].data => i = j
    BY <1>4, <2>1 DEF TakenOnce
  <2>5. QED
    BY <2>1, <2>3, <2>4
<1>12. TakenOnce'
  BY <1>3, <1>10, <1>11 DEF TakenOnce
<1>13. \A x \in Items : Fresh(x) => Fresh(x)'
  <2> SUFFICES ASSUME NEW x \in Items, Fresh(x) PROVE Fresh(x)'
    OBVIOUS
  <2>1. x # y /\ x # NULL
    BY <1>1, NullIsNoItem DEF Fresh, Items, y
  <2>2. handed'[x] = 0
    BY <1>9, <2>1 DEF Fresh
  <2>3. \A i \in DOMAIN cells : cells'[i].data # x
    BY <1>4, <2>1 DEF Fresh
  <2>4. QED
    BY <1>3, <2>2, <2>3 DEF Fresh
<1>14. QED
  BY <1>3, <1>7, <1>12, <1>13

(* The cells of the array grow() fills.                                    *)
LEMMA MovedCell ==
  ASSUME Shape, Positions, NEW i \in 0 .. 2 * capacity - 1
  PROVE  \/ Moved(i) = [data |-> NULL, round |-> 0]
         \/ \E p \in top .. bottom_ - 1 :
              /\ p % (2 * capacity) = i /\ At(p).data # NULL
              /\ Moved(i) = [data |-> At(p).data, round |-> p + 1]
<1> DEFINE here == {p \in MovedPositions : p % (2 * capacity) = i /\ At(p).data # NULL}
           q == CHOOSE p \in here : TRUE
<1>1. CASE here = {}
  BY <1>1 DEF Moved, Empty
<1>2. CASE here # {}
  <2>1. q \in here
    BY <1>2
  <2>2. Moved(i) = [data |-> At(q).data, round |-> q + 1]
    BY <1>2 DEF Moved
  <2> HIDE DEF q
  <2>3. q \in top .. bottom_ - 1 /\ q % (2 * capacity) = i /\ At(q).data # NULL
    BY <2>1 DEF MovedPositions
  <2>4. QED
    BY <2>2, <2>3
<1>3. QED
  BY <1>1, <1>2

(* grow() copies each item of [top, bottom_) once, whatever index it had.  *)
LEMMA Grows ==
  ASSUME Shape, TakenOnce, Positions, handed' = handed,
         cells' = [i \in 0 .. 2 * capacity - 1 |-> Moved(i)]
  PROVE  /\ capacity' = 2 * capacity /\ Shape' /\ TakenOnce'
         /\ \A x \in Items : Fresh(x) => Fresh(x)'
<1> DEFINE C == capacity
<1>1. C \in Nat \ {0} /\ 2 * C \in Nat \ {0}
  BY DEF Shape
<1>2. capacity' = 2 * C
  <2>1. DOMAIN cells' = 0 .. 2 * C - 1
    OBVIOUS
  <2> HIDE DEF C
  <2>2. Cardinality(0 .. 2 * C - 1) = 2 * C
    BY <1>1, FS_Interval
  <2>3. QED
    BY <2>1, <2>2 DEF capacity
<1>3. ASSUME NEW i \in 0 .. 2 * C - 1
      PROVE  \/ Moved(i) = Empty
             \/ \E p \in top .. bottom_ - 1 : /\ p % (2 * C) = i /\ At(p).data # NULL
                                              /\ Moved(i) = [data |-> At(p).data, round |-> p + 1]
  BY MovedCell DEF Empty
<1>4. \A p \in top .. bottom_ - 1 : p \in Int /\ Index(p) \in DOMAIN cells
  BY IndexInside DEF Positions
<1>5. ASSUME NEW i \in 0 .. 2 * C - 1
      PROVE  Moved(i) \in [data : Items \cup {NULL}, round : Int]
  <2>1. CASE Moved(i) = Empty
    BY <2>1 DEF Empty
  <2>2. ASSUME NEW p \in top .. bottom_ - 1, Moved(i) = [data |-> At(p).data, round |-> p + 1]
        PROVE  Moved(i) \in [data : Items \cup {NULL}, round : Int]
    <3>1. At(p).data \in Items \cup {NULL} /\ p \in Int
      BY <1>4, <2>2 DEF At, Shape
    <3>2. QED
      BY <2>2, <3>1
  <2>3. QED
    BY <1>3, <2>1, <2>2
<1>6. Shape'
  <2>1. cells' \in [0 .. 2 * C - 1 -> [data : Items \cup {NULL}, round : Int]]
    BY <1>5
  <2>2. QED
    BY <1>1, <1>2, <2>1 DEF Shape
<1>7. ASSUME NEW i \in DOMAIN cells', cells'[i].data # NULL
      PROVE  \E p \in top .. bottom_ - 1 : /\ p % (2 * C) = i /\ At(p).data # NULL
                                           /\ cells'[i].data = At(p).data
  <2>1. i \in 0 .. 2 * C - 1 /\ cells'[i] = Moved(i)
    OBVIOUS
  <2>2. Moved(i) # Empty
    BY <1>7, <2>1 DEF Empty
  <2>3. PICK p \in top .. bottom_ - 1 : /\ p % (2 * C) = i /\ At(p).data # NULL
                                        /\ Moved(i) = [data |-> At(p).data, round |-> p + 1]
    BY <1>3, <2>1, <2>2
  <2>4. QED
    BY <2>1, <2>3
<1>8. ASSUME NEW p \in top .. bottom_ - 1, NEW q \in top .. bottom_ - 1,
             At(p).data = At(q).data, At(p).data # NULL
      PROVE  p = q
  <2>1. Index(p) = Index(q)
    BY <1>4, <1>8 DEF TakenOnce, At
  <2>2. p \in Int /\ q \in Int /\ p < q + C /\ q < p + C
    BY <1>1 DEF Positions
  <2>3. p % C = q % C
    BY <2>1 DEF Index
  <2> HIDE DEF C
  <2>4. QED
    BY <1>1, <2>2, <2>3, SlotsDistinct
<1>9. ASSUME NEW i \in DOMAIN cells', cells'[i].data # NULL
      PROVE  /\ handed[cells'[i].data] = 0
             /\ \A j \in DOMAIN cells' : cells'[j].data = cells'[i].data => i = j
  <2>1. PICK p \in top .. bottom_ - 1 : /\ p % (2 * C) = i /\ At(p).data # NULL
                                        /\ cells'[i].data = At(p).data
    BY <1>7, <1>9
  <2>2. handed[At(p).data] = 0
    BY <1>4, <2>1 DEF At, TakenOnce
  <2>3. ASSUME NEW j \in DOMAIN cells', cells'[j].data = cells'[i].data PROVE i = j
    <3>1. PICK q \in top .. bottom_ - 1 : /\ q % (2 * C) = j /\ At(q).data # NULL
                                          /\ cells'[j].data = At(q).data
      BY <1>7, <1>9, <2>3
    <3>2. p = q
      BY <1>8, <2>1, <2>3, <3>1
    <3>3. QED
      BY <2>1, <3>1, <3>2
  <2>4. QED
    BY <2>1, <2>2, <2>3
<1>10. TakenOnce'
  BY <1>9 DEF TakenOnce
<1>11. \A x \in Items : Fresh(x) => Fresh(x)'
  <2> SUFFICES ASSUME NEW x \in Items, Fresh(x), NEW i \in DOMAIN cells', cells'[i].data = x
               PROVE  FALSE
    BY DEF Fresh
  <2>1. x # NULL
    BY NullIsNoItem DEF Items
  <2>2. PICK p \in top .. bottom_ - 1 : x = At(p).data
    BY <1>7, <2>1
  <2>3. QED
    BY <1>4, <2>2 DEF Fresh, At
<1>12. QED
  BY <1>2, <1>6, <1>10, <1>11

(* A step that keeps fresh items fresh and starts no push.                 *)
LEMMA StillUnused ==
  ASSUME Unused, item' = item, \A x \in Items : Fresh(x) => Fresh(x)',
         wpc' \in {"push", "write", "grow", "grown"} => wpc \in {"push", "write", "grow", "grown"}
  PROVE  Unused'
<1>1. \A x \in Items :
        x > item' \/ (x = item' /\ wpc' \in {"push", "write", "grow", "grown"}) => Fresh(x)'
  BY DEF Unused
<1>2. QED
  BY <1>1 DEF Unused

(* A step that leaves the cells' data alone.                               *)
LEMMA QuietStep ==
  ASSUME Shape, TakenOnce, Unused, UNCHANGED <<cells, handed, item>>,
         wpc' \in {"push", "write", "grow", "grown"} => wpc \in {"push", "write", "grow", "grown"}
  PROVE  Shape' /\ TakenOnce' /\ Unused' /\ capacity' = capacity
<1>1. capacity' = capacity
  BY SizeKept
<1>2. Shape'
  BY <1>1 DEF Shape
<1>3. TakenOnce' /\ \A x \in Items : Fresh(x) => Fresh(x)'
  BY DataKept
<1>4. QED
  BY <1>1, <1>2, <1>3, StillUnused

LEMMA OwnerItems ==
  ASSUME ItemInv, PushCall \/ Push \/ PopLook \/ Pop \/ Destroy
  PROVE  ItemInv'
<1> USE DEF Worker, thiefVars, history, ownerVars
<1>0. Shape /\ TakenOnce /\ Unused /\ Positions /\ capacity \in Int
  BY DEF ItemInv, Shape
<1>1. CASE PushCall
  <2>1. capacity' = capacity
    BY <1>1, SizeKept DEF PushCall
  <2>2. Shape' /\ Positions'
    BY <1>0, <1>1, <2>1 DEF PushCall, Shape, Positions
  <2>3. TakenOnce' /\ \A x \in Items : Fresh(x) => Fresh(x)'
    BY <1>0, <1>1, DataKept DEF PushCall
  <2>4. item' = item + 1 /\ item \in 0 .. MaxPush /\ item < MaxPush /\ wpc' = "push"
    BY <1>0, <1>1 DEF PushCall, Unused
  <2>5. item' \in Items /\ item' \in 0 .. MaxPush /\ \A x \in Items : x >= item' => x > item
    BY <2>4, BoundsNatural DEF Items
  <2>6. \A x \in Items :
          x > item' \/ (x = item' /\ wpc' \in {"push", "write", "grow", "grown"}) => Fresh(x)'
    BY <1>0, <2>3, <2>4, <2>5, BoundsNatural DEF Unused, Items
  <2>7. Unused'
    BY <2>5, <2>6 DEF Unused
  <2>8. QED
    BY <2>2, <2>3, <2>7 DEF ItemInv
<1>2. CASE PushLook \/ PopLook \/ PopLastCas
  <2>1. UNCHANGED <<cells, handed, item, st>>
    BY <1>2 DEF PushLook, PopLook, PopLastCas
  <2>2. wpc' \in {"push", "write", "grow", "grown"} => wpc \in {"push", "write", "grow", "grown"}
    BY <1>2 DEF PushLook, PopLook, PopLastCas
  <2>3. Shape' /\ TakenOnce' /\ Unused' /\ capacity' = capacity
    BY <1>0, <2>1, <2>2, QuietStep
  <2>4. Positions'
    BY <1>0, <1>2, <2>1, <2>3 DEF PushLook, PopLook, PopLastCas, Positions
  <2>5. QED
    BY <2>3, <2>4 DEF ItemInv
<1>3. CASE PushWrite
  <2> DEFINE k == Index(bottom_)
  <2>1. k \in DOMAIN cells /\ item \in Items /\ Fresh(item)
    BY <1>0, <1>3, IndexInside DEF PushWrite, Positions, Unused
  <2>2. /\ cells' = [cells EXCEPT ![k].data = item] /\ cells[k].data = NULL
        /\ UNCHANGED <<top, bottom_, wt, st, item, handed>> /\ wpc = "write" /\ wpc' = "publish"
    BY <1>3 DEF PushWrite, At
  <2> HIDE DEF k
  <2>3. DOMAIN cells' = DOMAIN cells
    BY <2>2
  <2>4. /\ cells'[k].data = item
        /\ \A i \in DOMAIN cells : i # k => cells'[i].data = cells[i].data
    BY <1>0, <2>1, <2>2 DEF Shape
  <2>5. capacity' = capacity
    BY <2>3, SizeKept
  <2>6. cells' \in [0 .. capacity - 1 -> [data : Items \cup {NULL}, round : Int]]
    BY <1>0, <2>1, <2>2 DEF Shape
  <2>7. Shape'
    BY <1>0, <2>2, <2>5, <2>6 DEF Shape
  <2>8. ASSUME NEW i \in DOMAIN cells, cells'[i].data # NULL
        PROVE  /\ handed[cells'[i].data] = 0
               /\ \A j \in DOMAIN cells : cells'[j].data = cells'[i].data => i = j
    <3>1. CASE i = k
      BY <2>1, <2>4, <3>1 DEF Fresh
    <3>2. CASE i # k
      BY <1>0, <2>1, <2>4, <2>8, <3>2 DEF Fresh, TakenOnce
    <3>3. QED
      BY <3>1, <3>2
  <2>9. TakenOnce'
    BY <1>0, <2>2, <2>3, <2>8 DEF TakenOnce
  <2>10. \A x \in Items : x # item /\ Fresh(x) => Fresh(x)'
    BY <2>2, <2>3, <2>4 DEF Fresh
  <2>11. Unused'
    <3>1. \A x \in Items : x > item => Fresh(x) /\ x # item
      BY <1>0, BoundsNatural DEF Unused, Items
    <3>2. \A x \in Items : x > item => Fresh(x)'
      BY <2>10, <3>1
    <3>3. QED
      BY <1>0, <2>2, <3>2 DEF Unused
  <2>12. Positions'
    BY <1>0, <2>2, <2>5 DEF Positions
  <2>13. QED
    BY <2>7, <2>9, <2>11, <2>12 DEF ItemInv
<1>4. CASE PushPublish
  <2> DEFINE k == Index(bottom_)
  <2>1. k \in DOMAIN cells /\ bottom_ + 1 \in Int
    BY <1>0, IndexInside DEF Positions
  <2>2. /\ cells' = [cells EXCEPT ![k].round = bottom_ + 1]
        /\ UNCHANGED <<top, wt, st, item, handed>> /\ wpc = "publish" /\ wpc' = "idle"
        /\ bottom_' = bottom_ + 1
    BY <1>4 DEF PushPublish
  <2> HIDE DEF k
  <2>3. DOMAIN cells' = DOMAIN cells
    BY <2>2
  <2>4. \A i \in DOMAIN cells : cells'[i].data = cells[i].data
    BY <1>0, <2>1, <2>2 DEF Shape
  <2>5. capacity' = capacity
    BY <2>3, SizeKept
  <2>6. cells' \in [0 .. capacity - 1 -> [data : Items \cup {NULL}, round : Int]]
    BY <1>0, <2>1, <2>2 DEF Shape
  <2>7. Shape'
    BY <1>0, <2>2, <2>5, <2>6 DEF Shape
  <2>8. TakenOnce' /\ \A x \in Items : Fresh(x) => Fresh(x)'
    BY <1>0, <2>2, <2>3, <2>4, DataKept
  <2>9. Unused'
    BY <1>0, <2>2, <2>8, StillUnused
  <2>10. Positions'
    BY <1>0, <2>2, <2>5 DEF Positions
  <2>11. QED
    BY <2>7, <2>8, <2>9, <2>10 DEF ItemInv
<1>5. CASE OpenWindow \/ CloseWindow
  <2>1. /\ UNCHANGED <<cells, handed, item, st, top, bottom_, wt>>
        /\ wpc \in {"grow", "grown"} /\ wpc' \in {"grow", "push"}
    BY <1>5 DEF OpenWindow, CloseWindow, queueVars
  <2>2. Shape' /\ TakenOnce' /\ Unused' /\ capacity' = capacity
    BY <1>0, <2>1, QuietStep
  <2>3. Positions'
    BY <1>0, <2>1, <2>2 DEF Positions
  <2>4. QED
    BY <2>2, <2>3 DEF ItemInv
<1>6. CASE Grow
  <2>1. /\ UNCHANGED <<handed, item, st, top, bottom_, wt>> /\ wpc = "grow" /\ wpc' = "grown"
        /\ cells' = [i \in 0 .. 2 * capacity - 1 |-> Moved(i)]
    BY <1>6 DEF Grow
  <2>2. /\ capacity' = 2 * capacity /\ Shape' /\ TakenOnce'
        /\ \A x \in Items : Fresh(x) => Fresh(x)'
    BY <1>0, <2>1, Grows
  <2>3. Unused'
    BY <1>0, <2>1, <2>2, StillUnused
  <2>4. capacity \in Nat
    BY <1>0 DEF Shape
  <2>5. Positions'
    BY <1>0, <2>1, <2>2, <2>4 DEF Positions
  <2>6. QED
    BY <2>2, <2>3, <2>5 DEF ItemInv
<1>7. CASE PopTake \/ PopLastTake
  <2>1. \E p \in Int : Take(p)
    BY <1>0, <1>7 DEF PopTake, PopLastTake, Positions
  <2>2. /\ DOMAIN cells' = DOMAIN cells /\ Shape' /\ TakenOnce'
        /\ \A x \in Items : Fresh(x) => Fresh(x)'
    BY <1>0, <2>1, Takes
  <2>3. /\ UNCHANGED <<top, item, st>> /\ wpc' \in {"idle", "clear", "lastClear"}
        /\ bottom_' = bottom_ \/ (wpc = "lastTake" /\ bottom_' = wt + 1)
        /\ wt' = 0 \/ wt' = wt
    BY <1>7 DEF PopTake, PopLastTake
  <2>4. Unused'
    BY <1>0, <2>2, <2>3, StillUnused
  <2>5. capacity' = capacity /\ capacity \in Nat \ {0}
    BY <1>0, <2>2, SizeKept DEF Shape
  <2>6. Positions'
    BY <1>0, <2>3, <2>5 DEF Positions
  <2>7. QED
    BY <2>2, <2>4, <2>6 DEF ItemInv
<1>8. CASE PopClear \/ PopLastClear
  <2>1. \E p \in Int : ClearRound(p)
    BY <1>0, <1>8 DEF PopClear, PopLastClear, Positions
  <2>2. /\ DOMAIN cells' = DOMAIN cells /\ \A i \in DOMAIN cells : cells'[i].data = cells[i].data
        /\ cells' \in [0 .. capacity - 1 -> [data : Items \cup {NULL}, round : Int]]
    BY <1>0, <2>1, Clears
  <2>3. /\ UNCHANGED <<top, item, st, handed>> /\ wpc' = "idle"
        /\ bottom_' = bottom_ \/ bottom_' = bottom_ - 1
        /\ wt' = 0 \/ wt' = wt
    BY <1>8 DEF PopClear, PopLastClear
  <2>4. capacity' = capacity
    BY <2>2, SizeKept
  <2>5. Shape'
    BY <1>0, <2>2, <2>3, <2>4 DEF Shape
  <2>6. TakenOnce' /\ \A x \in Items : Fresh(x) => Fresh(x)'
    BY <1>0, <2>2, <2>3, DataKept
  <2>7. Unused'
    BY <1>0, <2>3, <2>6, StillUnused
  <2>8. Positions'
    BY <1>0, <2>3, <2>4 DEF Positions
  <2>9. QED
    BY <2>5, <2>6, <2>7, <2>8 DEF ItemInv
<1>9. CASE Destroy
  <2>1. /\ UNCHANGED <<top, bottom_, wt, st, item>> /\ wpc' = "gone"
        /\ handed' = [x \in Items |->
             handed[x] + (IF \E i \in DOMAIN cells : cells[i].data = x THEN 1 ELSE 0)]
        /\ cells' = [i \in DOMAIN cells |-> [cells[i] EXCEPT !.data = NULL]]
    BY <1>9 DEF Destroy
  <2>2. DOMAIN cells' = DOMAIN cells /\ \A i \in DOMAIN cells : cells'[i].data = NULL
    BY <1>0, <2>1 DEF Shape
  <2>3. cells' \in [0 .. capacity - 1 -> [data : Items \cup {NULL}, round : Int]]
    BY <1>0, <2>1 DEF Shape
  <2>4. capacity' = capacity
    BY <2>2, SizeKept
  <2>5. handed' \in [Items -> Nat]
    BY <1>0, <2>1 DEF Shape
  <2>6. Shape'
    BY <1>0, <2>3, <2>4, <2>5 DEF Shape
  <2>7. \A x \in Items : handed'[x] =
          IF \E i \in DOMAIN cells : cells[i].data = x THEN handed[x] + 1 ELSE handed[x]
    BY <1>0, <2>1 DEF Shape
  <2>8. \A x \in Items : (\E i \in DOMAIN cells : cells[i].data = x) => handed[x] = 0
    BY <1>0, NullIsNoItem DEF TakenOnce, Items
  <2>9. \A x \in Items : handed'[x] <= 1
    BY <1>0, <2>7, <2>8 DEF TakenOnce
  <2>10. TakenOnce'
    BY <2>2, <2>9 DEF TakenOnce
  <2>11. \A x \in Items : Fresh(x) => Fresh(x)'
    <3>1. \A x \in Items : x # NULL
      BY NullIsNoItem DEF Items
    <3>2. QED
      BY <2>2, <2>7, <3>1 DEF Fresh
  <2>12. Unused'
    BY <1>0, <2>1, <2>11, StillUnused
  <2>13. Positions'
    BY <1>0, <2>1, <2>4 DEF Positions
  <2>14. QED
    BY <2>6, <2>10, <2>12, <2>13 DEF ItemInv
<1>10. QED
  BY <1>1, <1>2, <1>3, <1>4, <1>5, <1>6, <1>7, <1>8, <1>9 DEF Push, Pop

LEMMA Shorter ==
  ASSUME NEW b \in Int, NEW from \in Int, NEW to \in Int, from <= to, NEW c \in Int
  PROVE  (b - from <= c => b - to <= c) /\ (b - from < c => b - to < c)
OBVIOUS

(* A thief's step leaves the owner's bounds intact: top only grows.        *)
LEMMA BoundsKept ==
  ASSUME Positions, capacity \in Int, capacity' = capacity, UNCHANGED <<bottom_, wpc, wt>>,
         top' \in Int, top <= top', st' \in [Thieves -> Int]
  PROVE  Positions'
<1>1. top \in Int /\ bottom_ \in Int /\ wt \in Int
  BY DEF Positions
<1>2. /\ bottom_ - top <= capacity => bottom_ - top' <= capacity
      /\ bottom_ - top < capacity => bottom_ - top' < capacity
  BY <1>1, Shorter
<1>3. wt < top => wt < top'
  BY <1>1
<1>4. QED
  BY <1>1, <1>2, <1>3 DEF Positions

LEMMA ThiefItems ==
  ASSUME ItemInv, NEW t \in Thieves, Steal(t) \/ \E n \in 0 .. MaxBatch : StealCall(t, n)
  PROVE  ItemInv'
<1> USE DEF ownerVars, history, queueVars, thiefVars
<1>0. Shape /\ TakenOnce /\ Unused /\ Positions /\ capacity \in Int
  BY DEF ItemInv, Shape
<1>1. UNCHANGED <<bottom_, wpc, wt, item>>
  BY DEF Steal, StealEnter, StealTop, StealArray, StealRound, StealCas, StealTake, StealClear,
         StealReturn, StealCall
<1>2. /\ top' \in Int /\ top <= top'
      /\ st' \in [Thieves -> Int]
  <2>1. top' = top \/ top' = top + 1
    BY DEF Steal, StealEnter, StealTop, StealArray, StealRound, StealCas, StealTake, StealClear,
           StealReturn, StealCall
  <2>2. st' = st \/ st' = [st EXCEPT ![t] = top] \/ st' = [st EXCEPT ![t] = 0]
    BY DEF Steal, StealEnter, StealTop, StealArray, StealRound, StealCas, StealTake, StealClear,
           StealReturn, StealCall
  <2>3. QED
    BY <1>0, <2>1, <2>2 DEF Positions
<1>3. ASSUME Shape', TakenOnce', capacity' = capacity, \A x \in Items : Fresh(x) => Fresh(x)'
      PROVE  ItemInv'
  <2>1. Unused'
    BY <1>0, <1>1, <1>3, StillUnused
  <2>2. Positions'
    BY <1>0, <1>1, <1>2, <1>3, BoundsKept
  <2>3. QED
    BY <1>3, <2>1, <2>2 DEF ItemInv
<1>4. CASE StealTake(t)
  <2>1. \E p \in Int : Take(p)
    BY <1>0, <1>4 DEF StealTake, Positions
  <2>2. QED
    BY <1>0, <1>3, <2>1, Takes, SizeKept
<1>5. CASE StealClear(t)
  <2>1. (\E p \in Int : ClearRound(p)) /\ handed' = handed
    BY <1>0, <1>5 DEF StealClear, Positions
  <2>2. /\ DOMAIN cells' = DOMAIN cells /\ \A i \in DOMAIN cells : cells'[i].data = cells[i].data
        /\ cells' \in [0 .. capacity - 1 -> [data : Items \cup {NULL}, round : Int]]
    BY <1>0, <2>1, Clears
  <2>3. capacity' = capacity
    BY <2>2, SizeKept
  <2>4. Shape'
    BY <1>0, <2>1, <2>2, <2>3 DEF Shape
  <2>5. QED
    BY <1>0, <1>3, <2>1, <2>2, <2>3, <2>4, DataKept
<1>6. CASE ~(StealTake(t) \/ StealClear(t))
  <2>1. UNCHANGED <<cells, handed>>
    BY <1>6 DEF Steal, StealEnter, StealTop, StealArray, StealRound, StealCas, StealReturn, StealCall
  <2>2. Shape' /\ TakenOnce' /\ Unused' /\ capacity' = capacity
    BY <1>0, <1>1, <2>1, QuietStep
  <2>3. Positions'
    BY <1>0, <1>1, <1>2, <2>2, BoundsKept
  <2>4. QED
    BY <2>2, <2>3 DEF ItemInv
<1>7. QED
  BY <1>4, <1>5, <1>6

LEMMA InitItems == QueueInit => ItemInv
<1> SUFFICES ASSUME QueueInit PROVE ItemInv
  OBVIOUS
<1>1. InitialCapacity \in Nat \ {0}
  BY InitialCapacityPositive
<1>2. DOMAIN cells = 0 .. InitialCapacity - 1
  BY DEF QueueInit
<1>3. capacity = InitialCapacity
  BY <1>1, <1>2, FS_Interval DEF capacity
<1>4. \A i \in DOMAIN cells : cells[i] = [data |-> NULL, round |-> 0]
  BY DEF QueueInit, Empty
<1>5. Shape
  <2>1. cells \in [0 .. capacity - 1 -> [data : Items \cup {NULL}, round : Int]]
    BY <1>2, <1>3, <1>4 DEF QueueInit, Empty
  <2>2. handed \in [Items -> Nat]
    BY DEF QueueInit
  <2>3. QED
    BY <1>1, <1>3, <2>1, <2>2 DEF Shape
<1>6. \A x \in Items : handed[x] = 0
  BY DEF QueueInit
<1>7. \A x \in Items : x # NULL
  BY NullIsNoItem DEF Items
<1>8. TakenOnce /\ \A x \in Items : Fresh(x)
  BY <1>4, <1>6, <1>7 DEF TakenOnce, Fresh
<1>9. Unused
  BY <1>8, BoundsNatural DEF Unused, QueueInit
<1>10. Positions
  BY <1>1, <1>3 DEF Positions, QueueInit
<1>11. QED
  BY <1>5, <1>8, <1>9, <1>10 DEF ItemInv

LEMMA NextItems == ItemInv /\ [QueueNext]_allVars => ItemInv'
<1> SUFFICES ASSUME ItemInv, [QueueNext]_allVars PROVE ItemInv'
  OBVIOUS
<1>1. CASE UNCHANGED queueVars
  <2>1. UNCHANGED <<cells, handed, item, st, top, bottom_, wt, wpc>>
    BY <1>1 DEF queueVars, ownerVars, thiefVars, history
  <2>2. Shape' /\ TakenOnce' /\ Unused' /\ capacity' = capacity
    BY <2>1, QuietStep DEF ItemInv
  <2>3. QED
    BY <2>1, <2>2 DEF ItemInv, Positions
<1>2. CASE PushCall \/ Push \/ PopLook \/ Pop \/ Destroy
  BY <1>2, OwnerItems
<1>3. CASE \E t \in Thieves : Steal(t) \/ \E n \in 0 .. MaxBatch : StealCall(t, n)
  BY <1>3, ThiefItems
<1>4. QED
  BY <1>1, <1>2, <1>3 DEF QueueNext, StoreDrains, allVars

(* An item is handed out at most once, by pop, by one thief or to the      *)
(* destructor's delete, and is in no cell afterwards, nor in two before,   *)
(* through growth, wrap-around and races for the last item.                *)
THEOREM QueueTakenOnce == QueueSpec => []TakenOnce
<1>1. ItemInv => TakenOnce
  BY DEF ItemInv
<1>2. QED
  BY <1>1, InitItems, NextItems, PTL DEF QueueSpec

-----------------------------------------------------------------------------
(* Nothing is lost while no pop has raced a thief.  An item is found at    *)
(* the position its cell's round tells; that a claim, a withdrawal or a    *)
(* late clearing of a round never strands one rests on how far top may be  *)
(* ahead of bottom_ and on what a thief's stale position can still match.  *)

(* Index as a function, so that it can be compared across a step.          *)
cellOf == [p \in Int |-> Index(p)]

LEMMA CellOf ==
  ASSUME Shape
  PROVE  /\ cellOf \in [Int -> DOMAIN cells]
         /\ \A p \in Int : Index(p) = cellOf[p] /\ At(p) = cells[cellOf[p]]
<1>1. \A p \in Int : Index(p) \in DOMAIN cells
  BY IndexInside
<1>2. QED
  BY <1>1 DEF cellOf, At

LEMMA CellOfKept == ASSUME DOMAIN cells' = DOMAIN cells PROVE cellOf' = cellOf
<1>1. capacity' = capacity
  BY SizeKept
<1>2. QED
  BY <1>1 DEF cellOf, Index

(* What the owner and the thieves remember.                                *)
Locals ==
  /\ top \in Nat /\ bottom_ \in Nat /\ wt \in Nat /\ st \in [Thieves -> Nat]
  /\ \A t \in Thieves : spc[t] # "top" => st[t] <= top
  /\ wpc \in {"take", "clear"} => bottom_ > 0
  /\ wpc \in {"cas", "lastTake", "lastClear"} => bottom_ = wt + 1

(* A round belongs to its cell and to a position below bottom_.            *)
Rounds ==
  \A i \in DOMAIN cells : cells[i].round # 0 =>
    cells[i].round \in 1 .. bottom_ /\ cellOf[cells[i].round - 1] = i

(* A position is claimed by one thief.                                     *)
Claiming(t) == spc[t] \in {"take", "clear"}

Claims ==
  \A t \in Thieves : Claiming(t) =>
    st[t] < top /\ \A u \in Thieves : Claiming(u) /\ st[u] = st[t] => u = t

(* A thief about to claim is at most at the position the owner withdrew.   *)
CasInReach ==
  \A t \in Thieves : spc[t] = "cas" /\ st[t] = top =>
    /\ st[t] <= bottom_
    /\ wpc \in {"take", "clear"} => st[t] < bottom_

TakerOf(p) == \E t \in Thieves : spc[t] = "take" /\ st[t] = p

(* top passes bottom_ only by a thief that claimed the position the owner  *)
(* has withdrawn and fills again, or by one that has emptied that cell.    *)
Ahead ==
  \/ top <= bottom_
  \/ /\ top = bottom_ + 1
     /\ TakerOf(bottom_) \/ (wpc = "publish" /\ cells[cellOf[bottom_]].data = NULL)

OwnerHas ==
  /\ wpc = "publish" => cells[cellOf[bottom_]].data \in {item, NULL}
  /\ wpc = "lastClear" => cells[cellOf[wt]].data = NULL
  /\ wpc = "clear" => /\ cells[cellOf[bottom_ - 1]].data = NULL
                      /\ top < bottom_ \/ (top = bottom_ /\ TakerOf(bottom_ - 1))

Filling(i) == wpc = "publish" /\ i = cellOf[bottom_]

Settled(i) == cells[i].data # NULL /\ ~Filling(i)

(* An item in the cell a thief goes for is of its position or a later one, *)
(* and a thief clears the round of no item.                                *)
ThiefHas ==
  \A t \in Thieves : \A i \in DOMAIN cells : i = cellOf[st[t]] /\ Settled(i) =>
    /\ spc[t] = "take" \/ (spc[t] = "cas" /\ st[t] = top) => cells[i].round > st[t]
    /\ spc[t] = "clear" => cells[i].round # st[t] + 1

Stored == \A x \in Pushed : handed[x] = 0 => \E i \in DOMAIN cells : cells[i].data = x

Reached == \A i \in DOMAIN cells : Settled(i) => InReach(cells[i].round - 1)

Calm == Claims /\ CasInReach /\ Ahead /\ OwnerHas /\ ThiefHas /\ Stored /\ Reached

KeepInv == Locals /\ Rounds /\ (raced \/ Calm)

LEMMA CalmKeeps == ASSUME Shape, Locals, Calm PROVE NothingLost
<1>1. Index(bottom_) = cellOf[bottom_]
  BY CellOf DEF Locals
<1>2. \A i \in DOMAIN cells : Writing(i) <=> Filling(i)
  BY <1>1 DEF Writing, Filling
<1>3. QED
  BY <1>2 DEF Calm, Stored, Reached, Settled, NothingLost

(* The effect of a consumer's exchange and of a clearing on the cells.     *)
LEMMA TakeEffect ==
  ASSUME Shape, NEW p \in Int, Take(p)
  PROVE  /\ DOMAIN cells' = DOMAIN cells /\ cellOf' = cellOf /\ cellOf[p] \in DOMAIN cells
         /\ cells'[cellOf[p]].data = NULL
         /\ \A i \in DOMAIN cells : /\ cells'[i].round = cells[i].round
                                    /\ i # cellOf[p] => cells'[i].data = cells[i].data
         /\ \A x \in Items : handed'[x] = 0 => handed[x] = 0 /\ x # cells[cellOf[p]].data
<1> DEFINE k == cellOf[p]
<1>1. Index(p) = k /\ At(p) = cells[k] /\ k \in DOMAIN cells
  BY CellOf
<1>2. cells' = [cells EXCEPT ![k].data = NULL]
  BY <1>1 DEF Take, Exchange
<1>3. handed' = [x \in Items |-> handed[x] + (IF x = cells[k].data THEN 1 ELSE 0)]
  BY <1>1 DEF Take
<1>4. DOMAIN cells' = DOMAIN cells
  BY <1>2
<1>5. cellOf' = cellOf
  BY <1>4, CellOfKept
<1> HIDE DEF k
<1>6. /\ cells'[k].data = NULL
      /\ \A i \in DOMAIN cells : /\ cells'[i].round = cells[i].round
                                 /\ i # k => cells'[i].data = cells[i].data
  BY <1>1, <1>2 DEF Shape
<1>7. \A x \in Items : handed'[x] = 0 => handed[x] = 0 /\ x # cells[k].data
  BY <1>3 DEF Shape
<1>8. QED
  BY <1>1, <1>4, <1>5, <1>6, <1>7 DEF k

LEMMA ClearEffect ==
  ASSUME Shape, NEW p \in Int, ClearRound(p)
  PROVE  /\ DOMAIN cells' = DOMAIN cells /\ cellOf' = cellOf /\ cellOf[p] \in DOMAIN cells
         /\ \A i \in DOMAIN cells :
              /\ cells'[i].data = cells[i].data
              /\ cells'[i].round = IF i = cellOf[p] /\ cells[i].round = p + 1 THEN 0 ELSE cells[i].round
<1> DEFINE k == cellOf[p]
<1>1. Index(p) = k /\ At(p) = cells[k] /\ k \in DOMAIN cells
  BY CellOf
<1>2. cells' = IF cells[k].round = p + 1 THEN [cells EXCEPT ![k].round = 0] ELSE cells
  BY <1>1 DEF ClearRound
<1>3. DOMAIN cells' = DOMAIN cells
  BY <1>2
<1>4. cellOf' = cellOf
  BY <1>3, CellOfKept
<1> HIDE DEF k
<1>5. ASSUME NEW i \in DOMAIN cells
      PROVE  /\ cells'[i].data = cells[i].data
             /\ cells'[i].round = IF i = k /\ cells[i].round = p + 1 THEN 0 ELSE cells[i].round
  <2>1. CASE cells[k].round = p + 1
    <3>1. cells' = [cells EXCEPT ![k].round = 0]
      BY <1>2, <2>1
    <3>2. QED
      BY <1>1, <2>1, <3>1 DEF Shape
  <2>2. CASE cells[k].round # p + 1
    BY <1>2, <2>2
  <2>3. QED
    BY <2>1, <2>2
<1>6. QED
  BY <1>1, <1>3, <1>4, <1>5 DEF k

LEMMA LocalsStep ==
  ASSUME ItemInv, ArrayInv, Locals, [QueueNext]_allVars
  PROVE  Locals'
<1> USE DEF ownerVars, history, queueVars, thiefVars
<1>0. DOMAIN spc = Thieves
  BY DEF ArrayInv
<1>1. CASE UNCHANGED <<top, bottom_, wpc, wt, st, spc>>
  BY <1>1 DEF Locals
<1>2. CASE PushCall \/ PushLook \/ PushWrite \/ PushPublish \/ OpenWindow \/ Grow \/ CloseWindow
  <2>1. /\ UNCHANGED <<top, wt, st, spc>> /\ (bottom_' = bottom_ \/ bottom_' = bottom_ + 1)
        /\ wpc' \in {"push", "grow", "write", "publish", "idle", "grown"}
    BY <1>2 DEF PushCall, PushLook, PushWrite, PushPublish, OpenWindow, Grow, CloseWindow, Worker
  <2>2. QED
    BY <2>1 DEF Locals
<1>3. CASE PopLook
  BY <1>3 DEF PopLook, NoCompetition, Worker, Locals
<1>4. CASE PopTake \/ PopClear
  BY <1>4 DEF PopTake, PopClear, Worker, Locals
<1>5. CASE PopLastCas
  BY <1>5 DEF PopLastCas, Worker, Locals
<1>6. CASE PopLastTake \/ PopLastClear
  BY <1>6 DEF PopLastTake, PopLastClear, Worker, Locals
<1>7. CASE Destroy
  BY <1>7 DEF Destroy, Worker, Locals
<1>8. ASSUME NEW t \in Thieves, Steal(t) \/ \E n \in 0 .. MaxBatch : StealCall(t, n)
      PROVE  Locals'
  <2>1. CASE StealEnter(t) \/ \E n \in 0 .. MaxBatch : StealCall(t, n)
    BY <1>1, <2>1 DEF StealEnter, StealCall
  <2>2. CASE StealTop(t)
    BY <1>0, <2>2 DEF StealTop, Steals, Locals
  <2>3. CASE StealArray(t) \/ StealRound(t) \/ StealTake(t) \/ StealClear(t)
    <3>1. /\ UNCHANGED <<top, bottom_, wpc, wt, st>> /\ spc[t] # "top"
          /\ \A u \in Thieves : u # t => spc'[u] = spc[u]
      BY <1>0, <2>3 DEF StealArray, StealRound, StealTake, StealClear, Steals
    <3>2. QED
      BY <3>1 DEF Locals
  <2>4. CASE StealCas(t)
    <3>1. /\ UNCHANGED <<bottom_, wpc, wt, st>> /\ spc[t] # "top" /\ (top' = top \/ top' = top + 1)
          /\ \A u \in Thieves : u # t => spc'[u] = spc[u]
      BY <1>0, <2>4 DEF StealCas, Steals
    <3>2. QED
      BY <3>1 DEF Locals
  <2>5. CASE StealReturn(t)
    BY <1>0, <2>5 DEF StealReturn, Steals, Locals
  <2>6. QED
    BY <1>8, <2>1, <2>2, <2>3, <2>4, <2>5 DEF Steal
<1>9. CASE StoreDrains \/ UNCHANGED allVars
  BY <1>1, <1>9 DEF StoreDrains, allVars
<1>10. QED
  BY <1>2, <1>3, <1>4, <1>5, <1>6, <1>7, <1>8, <1>9 DEF QueueNext, Push, Pop

LEMMA RoundsStep ==
  ASSUME ItemInv, Locals, Rounds, [QueueNext]_allVars
  PROVE  Rounds'
<1> USE DEF ownerVars, history, queueVars, thiefVars
<1>0. /\ Shape /\ Positions /\ cellOf \in [Int -> DOMAIN cells] /\ bottom_ \in Nat /\ wt \in Nat
      /\ \A p \in Int : Index(p) = cellOf[p] /\ At(p) = cells[cellOf[p]]
      /\ \A i \in DOMAIN cells : cells[i].round \in Int
  BY CellOf DEF ItemInv, Locals, Shape
<1>1. CASE UNCHANGED <<cells, bottom_>>
  BY <1>1, CellOfKept DEF Rounds
<1>2. CASE PushWrite
  <2> DEFINE k == cellOf[bottom_]
  <2>0. k \in DOMAIN cells /\ Index(bottom_) = k
    BY <1>0
  <2>1. k \in DOMAIN cells /\ cells' = [cells EXCEPT ![k].data = item] /\ bottom_' = bottom_
    BY <2>0, <1>2 DEF PushWrite
  <2> HIDE DEF k
  <2>2. DOMAIN cells' = DOMAIN cells /\ \A i \in DOMAIN cells : cells'[i].round = cells[i].round
    BY <1>0, <2>1 DEF Shape
  <2>3. QED
    BY <2>1, <2>2, CellOfKept DEF Rounds
<1>3. CASE PushPublish
  <2> DEFINE k == cellOf[bottom_]
  <2>0. k \in DOMAIN cells /\ Index(bottom_) = k
    BY <1>0
  <2>1. k \in DOMAIN cells /\ cells' = [cells EXCEPT ![k].round = bottom_ + 1] /\ bottom_' = bottom_ + 1
    BY <2>0, <1>3 DEF PushPublish
  <2>2. k = cellOf[bottom_]
    OBVIOUS
  <2> HIDE DEF k
  <2>3. /\ DOMAIN cells' = DOMAIN cells /\ cells'[k].round = bottom_ + 1
        /\ \A i \in DOMAIN cells : i # k => cells'[i].round = cells[i].round
    BY <1>0, <2>1 DEF Shape
  <2>4. cellOf' = cellOf
    BY <2>3, CellOfKept
  <2>5. ASSUME NEW i \in DOMAIN cells, cells'[i].round # 0
        PROVE  cells'[i].round \in 1 .. bottom_ + 1 /\ cellOf[cells'[i].round - 1] = i
    <3>1. CASE i = k
      <4>1. cells'[i].round - 1 = bottom_
        BY <1>0, <2>3, <3>1
      <4>2. QED
        BY <1>0, <2>2, <2>3, <3>1, <4>1
    <3>2. CASE i # k
      BY <1>0, <2>3, <2>5, <3>2 DEF Rounds
    <3>3. QED
      BY <3>1, <3>2
  <2>6. QED
    BY <2>1, <2>3, <2>4, <2>5 DEF Rounds
<1>4. CASE Grow
  <2>1. /\ cells' = [i \in 0 .. 2 * capacity - 1 |-> Moved(i)] /\ handed' = handed
        /\ UNCHANGED <<top, bottom_>>
    BY <1>4 DEF Grow
  <2>2. capacity' = 2 * capacity
    BY <2>1, Grows DEF ItemInv
  <2>3. \A p \in Int : cellOf'[p] = p % (2 * capacity)
    BY <2>2 DEF cellOf, Index
  <2>4. top \in Nat
    BY DEF Locals
  <2>5. ASSUME NEW i \in DOMAIN cells', cells'[i].round # 0
        PROVE  cells'[i].round \in 1 .. bottom_ /\ cellOf'[cells'[i].round - 1] = i
    <3>1. i \in 0 .. 2 * capacity - 1 /\ cells'[i] = Moved(i)
      BY <2>1
    <3>2. PICK p \in top .. bottom_ - 1 :
            p % (2 * capacity) = i /\ Moved(i) = [data |-> At(p).data, round |-> p + 1]
      BY <1>0, <2>5, <3>1, MovedCell
    <3>3. cells'[i].round = p + 1
      BY <3>1, <3>2
    <3>4. p \in Int /\ cells'[i].round - 1 = p
      BY <3>2, <3>3, <1>0, <2>4
    <3>5. cells'[i].round \in 1 .. bottom_
      BY <1>0, <2>4, <3>3
    <3>6. QED
      BY <2>3, <3>2, <3>4, <3>5
  <2>6. QED
    BY <2>1, <2>5 DEF Rounds
<1>5. CASE PopTake \/ PopLastTake \/ \E t \in Thieves : StealTake(t)
  <2>1. \E p \in Int : Take(p)
    BY <1>0, <1>5 DEF PopTake, PopLastTake, StealTake, Locals
  <2>2. /\ DOMAIN cells' = DOMAIN cells /\ cellOf' = cellOf
        /\ \A i \in DOMAIN cells : cells'[i].round = cells[i].round
    BY <1>0, <2>1, TakeEffect
  <2>3. bottom_' = bottom_
    BY <1>5 DEF PopTake, PopLastTake, StealTake, Worker, Locals
  <2>4. QED
    BY <2>2, <2>3 DEF Rounds
<1>6. CASE PopLastClear \/ \E t \in Thieves : StealClear(t)
  <2>1. (\E p \in Int : ClearRound(p)) /\ bottom_' = bottom_
    BY <1>0, <1>6 DEF PopLastClear, StealClear, Locals
  <2>2. /\ DOMAIN cells' = DOMAIN cells /\ cellOf' = cellOf
        /\ \A i \in DOMAIN cells : cells'[i].round = 0 \/ cells'[i].round = cells[i].round
    BY <1>0, <2>1, ClearEffect
  <2>3. QED
    BY <2>1, <2>2 DEF Rounds
<1>7. CASE PopClear
  <2>1. PICK p \in Int : p = bottom_ - 1
    BY <1>0
  <2>2. ClearRound(p) /\ bottom_' = bottom_ - 1 /\ bottom_ > 0
    BY <1>7, <2>1 DEF PopClear, Worker, Locals
  <2>3. /\ DOMAIN cells' = DOMAIN cells /\ cellOf' = cellOf
        /\ \A i \in DOMAIN cells : cells'[i].round =
              IF i = cellOf[p] /\ cells[i].round = p + 1 THEN 0 ELSE cells[i].round
    BY <1>0, <2>2, ClearEffect
  <2>4. ASSUME NEW i \in DOMAIN cells, cells'[i].round # 0
        PROVE  cells'[i].round \in 1 .. bottom_ - 1 /\ cellOf[cells'[i].round - 1] = i
    <3>1. /\ cells'[i].round = cells[i].round /\ cells[i].round \in 1 .. bottom_
          /\ cellOf[cells[i].round - 1] = i
      BY <2>3, <2>4 DEF Rounds
    <3>2. cells[i].round # bottom_
      <4> SUFFICES ASSUME cells[i].round = bottom_ PROVE FALSE
        OBVIOUS
      <4>1. i = cellOf[p] /\ cells[i].round = p + 1
        BY <1>0, <2>1, <3>1
      <4>2. QED
        BY <2>3, <2>4, <4>1
    <3>3. QED
      BY <1>0, <3>1, <3>2
  <2>5. QED
    BY <2>2, <2>3, <2>4 DEF Rounds
<1>8. CASE Destroy
  <2>1. cells' = [i \in DOMAIN cells |-> [cells[i] EXCEPT !.data = NULL]] /\ bottom_' = bottom_
    BY <1>8 DEF Destroy
  <2>2. DOMAIN cells' = DOMAIN cells /\ \A i \in DOMAIN cells : cells'[i].round = cells[i].round
    BY <1>0, <2>1 DEF Shape
  <2>3. QED
    BY <2>1, <2>2, CellOfKept DEF Rounds
<1>9. CASE \/ PushCall \/ PushLook \/ OpenWindow \/ CloseWindow \/ PopLook \/ PopLastCas \/ StoreDrains
           \/ UNCHANGED allVars
  BY <1>1, <1>9 DEF PushCall, PushLook, OpenWindow, CloseWindow, PopLook, PopLastCas, StoreDrains, allVars
<1>10. CASE \E t \in Thieves : \/ StealEnter(t) \/ StealTop(t) \/ StealArray(t) \/ StealRound(t)
                               \/ StealCas(t) \/ StealReturn(t)
                               \/ \E n \in 0 .. MaxBatch : StealCall(t, n)
  BY <1>1, <1>10 DEF StealEnter, StealTop, StealArray, StealRound, StealCas, StealReturn, StealCall
<1>11. QED
  BY <1>2, <1>3, <1>4, <1>5, <1>6, <1>7, <1>8, <1>9, <1>10 DEF QueueNext, Push, Pop, Steal

(* What a consumer takes is handed out; nothing else leaves the cells.     *)
LEMMA StoredTake ==
  ASSUME Shape, Unused, Stored, NEW p \in Int, Take(p), \A x \in Pushed' : x \in Pushed
  PROVE  Stored'
<1> SUFFICES ASSUME NEW x \in Pushed', handed'[x] = 0
             PROVE  \E i \in DOMAIN cells' : cells'[i].data = x
  BY DEF Stored
<1>1. x \in Pushed /\ x \in Items
  BY BoundsNatural DEF Pushed, Items, Unused
<1>2. handed[x] = 0 /\ x # cells[cellOf[p]].data
  BY <1>1, TakeEffect
<1>3. PICK i \in DOMAIN cells : cells[i].data = x
  BY <1>1, <1>2 DEF Stored
<1>4. DOMAIN cells' = DOMAIN cells /\ i # cellOf[p] /\ cells'[i].data = cells[i].data
  BY <1>2, <1>3, TakeEffect
<1>5. QED
  BY <1>3, <1>4

LEMMA StoredData ==
  ASSUME Stored, handed' = handed, \A x \in Pushed' : x \in Pushed, DOMAIN cells' = DOMAIN cells,
         \A i \in DOMAIN cells : cells'[i].data = cells[i].data
  PROVE  Stored'
BY DEF Stored

(* A step of the owner that touches neither top nor the cells.             *)
LEMMA OwnerMoves ==
  ASSUME Calm, UNCHANGED <<top, cells, bottom_, spc, st, handed>>,
         wpc \notin {"publish", "clear", "lastTake", "lastClear"},
         wpc' \notin {"publish", "clear", "lastTake", "lastClear"},
         wpc' = "take" => wpc = "take" \/ top < bottom_,
         \A x \in Pushed' : x \in Pushed
  PROVE  Calm'
<1>1. cellOf' = cellOf
  BY CellOfKept
<1>2. Claims'
  BY DEF Calm, Claims, Claiming
<1>3. CasInReach'
  BY DEF Calm, CasInReach
<1>4. Ahead' /\ OwnerHas'
  BY DEF Calm, Ahead, OwnerHas, TakerOf
<1>5. \A i \in DOMAIN cells : Settled(i)' => Settled(i)
  BY DEF Settled, Filling
<1>6. ThiefHas'
  BY <1>1, <1>5 DEF Calm, ThiefHas
<1>7. Stored'
  BY StoredData DEF Calm
<1>8. Reached'
  <2> SUFFICES ASSUME NEW i \in DOMAIN cells, Settled(i)' PROVE InReach(cells[i].round - 1)'
    BY DEF Reached
  <2>1. InReach(cells[i].round - 1)
    BY <1>5 DEF Calm, Reached
  <2>2. QED
    BY <2>1 DEF InReach
<1>9. QED
  BY <1>2, <1>3, <1>4, <1>6, <1>7, <1>8 DEF Calm

(* A step of a thief that claims nothing, holds no claim and touches       *)
(* neither top nor the cells; it goes on only if the cell is filled.       *)
LEMMA ThiefMoves ==
  ASSUME Shape, Locals, Rounds, Calm, NEW t \in Thieves,
         UNCHANGED <<top, cells, bottom_, wpc, wt, item, handed>>,
         \A u \in Thieves : u # t => spc'[u] = spc[u] /\ st'[u] = st[u],
         spc[t] \notin {"take", "clear"}, spc'[t] \notin {"take", "clear"},
         spc'[t] = "cas" => st'[t] = st[t] /\ cells[cellOf[st[t]]].round = st[t] + 1
  PROVE  Calm'
<1>1. cellOf' = cellOf /\ cellOf \in [Int -> DOMAIN cells]
  BY CellOfKept, CellOf
<1>2. Claims'
  BY DEF Calm, Claims, Claiming
<1>3. spc'[t] = "cas" => st[t] < bottom_
  <2> SUFFICES ASSUME spc'[t] = "cas" PROVE st[t] < bottom_
    OBVIOUS
  <2>1. st[t] \in Nat /\ cellOf[st[t]] \in DOMAIN cells
    BY <1>1 DEF Locals
  <2>2. st[t] + 1 \in 1 .. bottom_
    BY <2>1 DEF Rounds
  <2>3. QED
    BY <2>1, <2>2 DEF Locals
<1>4. CasInReach'
  BY <1>3 DEF Calm, CasInReach, Locals
<1>6. Ahead' /\ OwnerHas'
  <2>1. TakerOf(bottom_)' <=> TakerOf(bottom_)
    BY DEF TakerOf
  <2>2. TakerOf(bottom_ - 1)' <=> TakerOf(bottom_ - 1)
    BY DEF TakerOf
  <2>3. QED
    BY <1>1, <2>1, <2>2 DEF Calm, Ahead, OwnerHas
<1>7. \A i \in DOMAIN cells : Settled(i)' <=> Settled(i)
  BY <1>1 DEF Settled, Filling
<1>8. ThiefHas'
  <2> SUFFICES ASSUME NEW u \in Thieves, NEW i \in DOMAIN cells, i = cellOf[st'[u]], Settled(i)
               PROVE  /\ spc'[u] = "take" \/ (spc'[u] = "cas" /\ st'[u] = top) => cells[i].round > st'[u]
                      /\ spc'[u] = "clear" => cells[i].round # st'[u] + 1
    BY <1>1, <1>7 DEF ThiefHas
  <2>1. CASE u # t
    BY <2>1 DEF Calm, ThiefHas
  <2>2. CASE u = t
    <3>1. st[t] \in Nat
      BY DEF Locals
    <3>2. QED
      BY <2>2, <3>1
  <2>3. QED
    BY <2>1, <2>2
<1>9. Stored'
  <2>1. Pushed' = Pushed
    BY DEF Pushed
  <2>2. QED
    BY <2>1, StoredData DEF Calm
<1>10. Reached'
  <2> SUFFICES ASSUME NEW i \in DOMAIN cells, Settled(i)' PROVE InReach(cells[i].round - 1)'
    BY DEF Reached
  <2>1. InReach(cells[i].round - 1)
    BY <1>7 DEF Calm, Reached
  <2>2. QED
    BY <2>1 DEF InReach
<1>11. QED
  BY <1>2, <1>4, <1>6, <1>8, <1>9, <1>10 DEF Calm

(* A thief claims the position top.                                        *)
LEMMA CalmStealCas ==
  ASSUME Shape, Locals, Calm, DOMAIN spc = Thieves, NEW t \in Thieves, top = st[t],
         spc[t] = "cas", spc' = [spc EXCEPT ![t] = "take"], top' = top + 1,
         UNCHANGED <<cells, bottom_, wpc, wt, item, st, handed>>
  PROVE  Calm'
<1>1. cellOf' = cellOf
  BY CellOfKept
<1>2. /\ spc'[t] = "take" /\ \A u \in Thieves : u # t => spc'[u] = spc[u]
      /\ \A u \in Thieves : st[u] \in Nat /\ (spc[u] # "top" => st[u] <= top)
      /\ top \in Nat /\ bottom_ \in Nat
  BY DEF Locals
<1>3. Claims'
  BY <1>2 DEF Calm, Claims, Claiming
<1>4. CasInReach' /\ \A u \in Thieves : ~(spc'[u] = "cas" /\ st[u] = top')
  BY <1>2 DEF CasInReach
<1>5. top <= bottom_ /\ (wpc \in {"take", "clear"} => top < bottom_)
  BY DEF Calm, CasInReach
<1>6. \A p : TakerOf(p) => TakerOf(p)'
  BY <1>2 DEF TakerOf
<1>7. Ahead'
  <2>1. CASE top < bottom_
    BY <1>2, <2>1 DEF Ahead
  <2>2. CASE top = bottom_
    BY <1>2, <2>2 DEF Ahead, TakerOf
  <2>3. QED
    BY <1>2, <1>5, <2>1, <2>2
<1>8. OwnerHas'
  <2>1. wpc = "clear" => top' < bottom_ \/ (top' = bottom_ /\ TakerOf(bottom_ - 1)')
    BY <1>2, <1>5 DEF TakerOf
  <2>2. QED
    BY <1>1, <2>1 DEF Calm, OwnerHas
<1>9. \A i \in DOMAIN cells : Settled(i)' <=> Settled(i)
  BY <1>1 DEF Settled, Filling
<1>10. ThiefHas'
  <2> SUFFICES ASSUME NEW u \in Thieves, NEW i \in DOMAIN cells, i = cellOf[st[u]], Settled(i)
               PROVE  /\ spc'[u] = "take" => cells[i].round > st[u]
                      /\ spc'[u] = "clear" => cells[i].round # st[u] + 1
    BY <1>1, <1>4, <1>9 DEF ThiefHas
  <2>1. QED
    BY <1>2 DEF Calm, ThiefHas
<1>11. Stored'
  <2>1. Pushed' = Pushed
    BY DEF Pushed
  <2>2. QED
    BY <2>1, StoredData DEF Calm
<1>12. Reached'
  <2> SUFFICES ASSUME NEW i \in DOMAIN cells, Settled(i)' PROVE InReach(cells[i].round - 1)'
    BY DEF Reached
  <2>1. InReach(cells[i].round - 1) /\ cells[i].round \in Int
    BY <1>9 DEF Calm, Reached, Shape
  <2>2. QED
    BY <1>2, <2>1 DEF InReach
<1>13. QED
  BY <1>3, <1>4, <1>7, <1>8, <1>10, <1>11, <1>12 DEF Calm

(* A thief finds an item in the cell of its claim.                         *)
LEMMA CalmStealTake ==
  ASSUME Shape, Unused, Locals, Rounds, Calm, DOMAIN spc = Thieves, NEW t \in Thieves,
         spc[t] = "take", spc' = [spc EXCEPT ![t] = "clear"], NEW p \in Int, p = st[t], Take(p),
         cells[cellOf[p]].data # NULL, UNCHANGED <<top, bottom_, wpc, wt, item, st>>
  PROVE  Calm'
<1> DEFINE k == cellOf[p]
<1>1. /\ DOMAIN cells' = DOMAIN cells /\ cellOf' = cellOf /\ k \in DOMAIN cells
      /\ cells'[k].data = NULL
      /\ \A i \in DOMAIN cells : /\ cells'[i].round = cells[i].round
                                 /\ i # k => cells'[i].data = cells[i].data
  BY TakeEffect
<1>2. k = cellOf[p] /\ cells[k].data # NULL
  OBVIOUS
<1> HIDE DEF k
<1>3. /\ spc'[t] = "clear" /\ \A u \in Thieves : u # t => spc'[u] = spc[u]
      /\ \A u \in Thieves : st[u] \in Nat
      /\ top \in Nat /\ bottom_ \in Nat /\ wt \in Nat
  BY DEF Locals
<1>4. Claims'
  BY <1>3 DEF Calm, Claims, Claiming
<1>5. CasInReach'
  BY <1>3 DEF Calm, CasInReach
<1>6. \A i \in DOMAIN cells : Settled(i)' => Settled(i) /\ i # k
  BY <1>1 DEF Settled, Filling
<1>7. \A i \in DOMAIN cells : cells[i].data = NULL => cells'[i].data = NULL
  BY <1>1
<1>8. cellOf \in [Int -> DOMAIN cells]
  BY CellOf
<1>9. \A q : q # p /\ TakerOf(q) => TakerOf(q)'
  BY <1>3 DEF TakerOf
<1>10. Ahead'
  <2>1. CASE top <= bottom_
    BY <2>1 DEF Ahead
  <2>2. CASE top = bottom_ + 1 /\ TakerOf(bottom_) /\ p # bottom_
    <3>1. TakerOf(bottom_)'
      BY <1>3, <2>2 DEF TakerOf
    <3>2. QED
      BY <2>2, <3>1 DEF Ahead
  <2>3. CASE top = bottom_ + 1 /\ p = bottom_
    <3>1. wpc = "publish"
      <4> SUFFICES ASSUME wpc # "publish" PROVE FALSE
        OBVIOUS
      <4>1. Settled(k)
        BY <1>2 DEF Settled, Filling
      <4>2. cells[k].round > bottom_
        BY <1>1, <1>2, <2>3, <4>1, ZenonT(40) DEF Calm, ThiefHas
      <4>3. cells[k].round \in 1 .. bottom_
        BY <1>1, <1>3, <4>2 DEF Rounds, Shape
      <4>4. QED
        BY <1>3, <4>2, <4>3
    <3>2. QED
      BY <1>1, <1>2, <2>3, <3>1 DEF Ahead
  <2>4. CASE top = bottom_ + 1 /\ wpc = "publish" /\ cells[cellOf[bottom_]].data = NULL
    BY <1>1, <1>3, <1>7, <1>8, <2>4 DEF Ahead
  <2>5. QED
    BY <2>1, <2>2, <2>3, <2>4 DEF Calm, Ahead
<1>11. OwnerHas'
  <2>1. wpc = "publish" => cells'[cellOf[bottom_]].data \in {item, NULL}
    BY <1>1, <1>3, <1>8 DEF Calm, OwnerHas
  <2>2. wpc = "lastClear" => cells'[cellOf[wt]].data = NULL
    BY <1>3, <1>7, <1>8 DEF Calm, OwnerHas
  <2>3. ASSUME wpc = "clear"
        PROVE  /\ cells'[cellOf[bottom_ - 1]].data = NULL
               /\ top < bottom_ \/ (top = bottom_ /\ TakerOf(bottom_ - 1)')
    <3>1. /\ cells[cellOf[bottom_ - 1]].data = NULL
          /\ top < bottom_ \/ (top = bottom_ /\ TakerOf(bottom_ - 1))
      BY <2>3 DEF Calm, OwnerHas
    <3>2. p # bottom_ - 1
      BY <1>2, <3>1
    <3>3. TakerOf(bottom_ - 1) => TakerOf(bottom_ - 1)'
      BY <1>3, <3>2 DEF TakerOf
    <3>4. QED
      BY <1>3, <1>7, <1>8, <3>1, <3>3
  <2>4. QED
    BY <1>1, <2>1, <2>2, <2>3 DEF OwnerHas
<1>12. ThiefHas'
  <2> SUFFICES ASSUME NEW u \in Thieves, NEW i \in DOMAIN cells, i = cellOf[st[u]], Settled(i), i # k
               PROVE  /\ spc'[u] = "take" \/ (spc'[u] = "cas" /\ st[u] = top) => cells[i].round > st[u]
                      /\ spc'[u] = "clear" => cells[i].round # st[u] + 1
    BY <1>1, <1>6 DEF ThiefHas
  <2>1. u # t
    BY <1>2
  <2>2. QED
    BY <1>3, <2>1 DEF Calm, ThiefHas
<1>13. Stored'
  <2>1. Pushed' = Pushed
    BY DEF Pushed
  <2>2. QED
    BY <2>1, StoredTake DEF Calm
<1>14. Reached'
  <2> SUFFICES ASSUME NEW i \in DOMAIN cells, Settled(i), i # k PROVE InReach(cells[i].round - 1)'
    BY <1>1, <1>6 DEF Reached
  <2>1. InReach(cells[i].round - 1) /\ cells[i].round \in Int /\ cells'[i].round = cells[i].round
    BY <1>1 DEF Calm, Reached, Shape
  <2>2. cells[i].round - 1 # p
    BY <1>2, <1>3, <2>1 DEF Rounds
  <2>3. QED
    BY <1>3, <2>1, <2>2 DEF InReach
<1>15. QED
  BY <1>4, <1>5, <1>10, <1>11, <1>12, <1>13, <1>14 DEF Calm

(* The clearing of a round that is no item's.                              *)
LEMMA SettledClear ==
  ASSUME Shape, NEW p \in Int, ClearRound(p), UNCHANGED bottom_ \/ wpc # "publish",
         wpc' = "publish" <=> wpc = "publish",
         Settled(cellOf[p]) => cells[cellOf[p]].round # p + 1
  PROVE  /\ DOMAIN cells' = DOMAIN cells /\ cellOf' = cellOf
         /\ \A i \in DOMAIN cells : cells'[i].data = cells[i].data
         /\ \A i \in DOMAIN cells : Settled(i)' => Settled(i) /\ cells'[i].round = cells[i].round
<1>1. /\ DOMAIN cells' = DOMAIN cells /\ cellOf' = cellOf
      /\ \A i \in DOMAIN cells :
           /\ cells'[i].data = cells[i].data
           /\ cells'[i].round = IF i = cellOf[p] /\ cells[i].round = p + 1 THEN 0 ELSE cells[i].round
  BY ClearEffect
<1>2. \A i \in DOMAIN cells : Settled(i)' => Settled(i)
  BY <1>1 DEF Settled, Filling
<1>3. QED
  BY <1>1, <1>2

LEMMA CalmStealClear ==
  ASSUME Shape, Locals, Calm, DOMAIN spc = Thieves, NEW t \in Thieves, spc[t] = "clear",
         spc' = [spc EXCEPT ![t] = "top"] \/ spc' = [spc EXCEPT ![t] = "done"],
         NEW p \in Int, p = st[t], ClearRound(p),
         UNCHANGED <<top, bottom_, wpc, wt, item, st, handed>>
  PROVE  Calm'
<1>1. cellOf \in [Int -> DOMAIN cells]
  BY CellOf
<1>2. Settled(cellOf[p]) => cells[cellOf[p]].round # p + 1
  BY <1>1 DEF Calm, ThiefHas
<1>3. /\ DOMAIN cells' = DOMAIN cells /\ cellOf' = cellOf
      /\ \A i \in DOMAIN cells : cells'[i].data = cells[i].data
      /\ \A i \in DOMAIN cells : Settled(i)' => Settled(i) /\ cells'[i].round = cells[i].round
  BY <1>2, SettledClear
<1>4. /\ spc'[t] \in {"top", "done"} /\ \A u \in Thieves : u # t => spc'[u] = spc[u]
      /\ bottom_ \in Nat /\ wt \in Nat
  BY DEF Locals
<1>5. Claims'
  BY <1>4 DEF Calm, Claims, Claiming
<1>6. CasInReach'
  BY <1>4 DEF Calm, CasInReach
<1>7. Ahead' /\ OwnerHas'
  <2>1. TakerOf(bottom_)' <=> TakerOf(bottom_)
    BY <1>4 DEF TakerOf
  <2>2. TakerOf(bottom_ - 1)' <=> TakerOf(bottom_ - 1)
    BY <1>4 DEF TakerOf
  <2>3. /\ cells'[cellOf[bottom_]].data = cells[cellOf[bottom_]].data
        /\ cells'[cellOf[bottom_ - 1]].data = cells[cellOf[bottom_ - 1]].data
        /\ cells'[cellOf[wt]].data = cells[cellOf[wt]].data
    BY <1>1, <1>3, <1>4
  <2>4. QED
    BY <1>3, <2>1, <2>2, <2>3 DEF Calm, Ahead, OwnerHas
<1>8. ThiefHas'
  BY <1>3, <1>4 DEF Calm, ThiefHas
<1>9. Stored'
  <2>1. Pushed' = Pushed
    BY DEF Pushed
  <2>2. QED
    BY <1>3, <2>1, StoredData DEF Calm
<1>10. Reached'
  <2> SUFFICES ASSUME NEW i \in DOMAIN cells, Settled(i), cells'[i].round = cells[i].round
               PROVE  InReach(cells[i].round - 1)'
    BY <1>3 DEF Reached
  <2>1. InReach(cells[i].round - 1)
    BY DEF Calm, Reached
  <2>2. QED
    BY <1>4, <2>1 DEF InReach
<1>11. QED
  BY <1>5, <1>6, <1>7, <1>8, <1>9, <1>10 DEF Calm

LEMMA CalmPushWrite ==
  ASSUME Shape, Unused, Locals, Calm, PushWrite
  PROVE  Calm'
<1> DEFINE k == cellOf[bottom_]
<1>1. Index(bottom_) = k /\ At(bottom_) = cells[k] /\ k \in DOMAIN cells
  BY CellOf DEF Locals
<1>2. /\ cells' = [cells EXCEPT ![k].data = item] /\ cells[k].data = NULL
      /\ UNCHANGED <<top, bottom_, wt, item, spc, st, handed>> /\ wpc = "write" /\ wpc' = "publish"
  BY <1>1 DEF PushWrite, Worker, thiefVars, history
<1>3. DOMAIN cells' = DOMAIN cells
  BY <1>2
<1>4. cellOf' = cellOf /\ k = cellOf[bottom_]
  BY <1>3, CellOfKept
<1> HIDE DEF k
<1>5. /\ cells'[k].data = item
      /\ \A i \in DOMAIN cells : /\ cells'[i].round = cells[i].round
                                 /\ i # k => cells'[i].data = cells[i].data
  BY <1>1, <1>2 DEF Shape
<1>6. \A i \in DOMAIN cells : Settled(i)' => Settled(i)
  BY <1>2, <1>4, <1>5 DEF Settled, Filling
<1>7. Claims' /\ CasInReach'
  BY <1>2 DEF Calm, Claims, Claiming, CasInReach
<1>8. Ahead' /\ OwnerHas'
  BY <1>2, <1>4, <1>5 DEF Calm, Ahead, OwnerHas, TakerOf
<1>9. ThiefHas'
  BY <1>2, <1>3, <1>4, <1>5, <1>6 DEF Calm, ThiefHas
<1>10. Stored'
  <2> SUFFICES ASSUME NEW x \in Pushed', handed[x] = 0 PROVE \E i \in DOMAIN cells : cells'[i].data = x
    BY <1>2, <1>3 DEF Stored
  <2>1. CASE x = item
    BY <1>1, <1>5, <2>1
  <2>2. CASE x # item
    <3>1. x \in Pushed /\ x # NULL
      BY <1>2, <2>2, BoundsNatural, NullIsNoItem DEF Pushed, Unused
    <3>2. PICK i \in DOMAIN cells : cells[i].data = x
      BY <3>1 DEF Calm, Stored
    <3>3. QED
      BY <1>2, <1>5, <3>1, <3>2
  <2>3. QED
    BY <2>1, <2>2
<1>11. Reached'
  <2> SUFFICES ASSUME NEW i \in DOMAIN cells, Settled(i) PROVE InReach(cells[i].round - 1)'
    BY <1>3, <1>6 DEF Reached
  <2>1. InReach(cells[i].round - 1) /\ cells'[i].round = cells[i].round
    BY <1>5 DEF Calm, Reached
  <2>2. QED
    BY <1>2, <2>1 DEF InReach
<1>12. QED
  BY <1>7, <1>8, <1>9, <1>10, <1>11 DEF Calm

(* The item is published at the position bottom_, or a thief that had      *)
(* claimed that position has already taken it.                             *)
LEMMA CalmPushPublish ==
  ASSUME Shape, Locals, Calm, PushPublish
  PROVE  Calm'
<1> DEFINE k == cellOf[bottom_]
<1>1. Index(bottom_) = k /\ k \in DOMAIN cells
  BY CellOf DEF Locals
<1>2. /\ cells' = [cells EXCEPT ![k].round = bottom_ + 1] /\ bottom_' = bottom_ + 1
      /\ UNCHANGED <<top, wt, item, spc, st, handed>> /\ wpc = "publish" /\ wpc' = "idle"
  BY <1>1 DEF PushPublish, Worker, thiefVars, history
<1>3. DOMAIN cells' = DOMAIN cells
  BY <1>2
<1>4. cellOf' = cellOf /\ k = cellOf[bottom_]
  BY <1>3, CellOfKept
<1> HIDE DEF k
<1>5. /\ cells'[k].round = bottom_ + 1
      /\ \A i \in DOMAIN cells : /\ cells'[i].data = cells[i].data
                                 /\ i # k => cells'[i].round = cells[i].round
  BY <1>1, <1>2 DEF Shape
<1>6. \A i \in DOMAIN cells : Settled(i)' => cells[i].data # NULL /\ (i # k => Settled(i))
  BY <1>2, <1>4, <1>5 DEF Settled, Filling
<1>7. /\ top \in Nat /\ bottom_ \in Nat
      /\ \A t \in Thieves : st[t] \in Nat
  BY DEF Locals
<1>8. Claims' /\ CasInReach'
  BY <1>2, <1>7 DEF Calm, Claims, Claiming, CasInReach
<1>9. top <= bottom_ + 1
  BY <1>7 DEF Calm, Ahead
<1>10. Ahead' /\ OwnerHas'
  BY <1>2, <1>7, <1>9 DEF Ahead, OwnerHas
<1>11. ThiefHas'
  <2> SUFFICES ASSUME NEW t \in Thieves, NEW i \in DOMAIN cells, i = cellOf[st[t]], Settled(i)'
               PROVE  /\ spc[t] = "take" \/ (spc[t] = "cas" /\ st[t] = top) => cells'[i].round > st[t]
                      /\ spc[t] = "clear" => cells'[i].round # st[t] + 1
    BY <1>2, <1>3, <1>4 DEF ThiefHas
  <2>1. CASE i # k
    BY <1>5, <1>6, <2>1 DEF Calm, ThiefHas
  <2>2. CASE i = k
    <3>1. cells'[i].round = bottom_ + 1 /\ cells[k].data # NULL
      BY <1>5, <1>6, <2>2
    <3>2. ASSUME spc[t] = "take" \/ (spc[t] = "cas" /\ st[t] = top) PROVE st[t] < bottom_ + 1
      BY <1>7, <1>9, <3>2 DEF Calm, Claims, Claiming, CasInReach
    <3>3. ASSUME spc[t] = "clear", st[t] = bottom_ PROVE FALSE
      <4>1. st[t] < top /\ \A u \in Thieves : spc[u] = "take" => st[u] # st[t]
        BY <3>3 DEF Calm, Claims, Claiming
      <4>2. ~TakerOf(bottom_)
        BY <3>3, <4>1 DEF TakerOf
      <4>3. ~(top <= bottom_)
        BY <1>7, <3>3, <4>1
      <4>4. QED
        BY <1>4, <3>1, <4>2, <4>3 DEF Calm, Ahead
    <3>4. QED
      BY <1>7, <3>1, <3>2, <3>3
  <2>3. QED
    BY <2>1, <2>2
<1>12. Stored'
  <2>1. \A x \in Pushed' : x \in Pushed
    BY <1>2 DEF Pushed
  <2>2. QED
    BY <1>2, <1>3, <1>5, <2>1, StoredData DEF Calm
<1>13. Reached'
  <2> SUFFICES ASSUME NEW i \in DOMAIN cells, Settled(i)' PROVE InReach(cells[i].round - 1)'
    BY <1>3 DEF Reached
  <2>1. CASE i # k
    <3>1. InReach(cells[i].round - 1) /\ cells'[i].round = cells[i].round /\ cells[i].round \in Int
      BY <1>5, <1>6, <2>1 DEF Calm, Reached, Shape
    <3>2. QED
      BY <1>2, <1>7, <3>1 DEF InReach
  <2>2. CASE i = k
    <3>1. cells'[i].round - 1 = bottom_ /\ cells[k].data # NULL
      BY <1>5, <1>6, <1>7, <2>2
    <3>2. top <= bottom_ \/ TakerOf(bottom_)
      BY <1>4, <3>1 DEF Calm, Ahead
    <3>3. QED
      BY <1>2, <1>7, <3>1, <3>2 DEF InReach, TakerOf
  <2>3. QED
    BY <2>1, <2>2
<1>14. QED
  BY <1>8, <1>10, <1>11, <1>12, <1>13 DEF Calm

LEMMA MovedItem ==
  ASSUME Shape, Positions, NEW p \in top .. bottom_ - 1, At(p).data # NULL
  PROVE  /\ p % (2 * capacity) \in 0 .. 2 * capacity - 1
         /\ Moved(p % (2 * capacity)).data = At(p).data
<1> DEFINE D == 2 * capacity
           j == p % D
           here == {q \in MovedPositions : q % (2 * capacity) = j /\ At(q).data # NULL}
           q == CHOOSE r \in here : TRUE
<1>1. D \in Nat \ {0} /\ top \in Int /\ bottom_ \in Int /\ p \in Int /\ bottom_ - top < D
  BY DEF Shape, Positions
<1>2. p \in here
  BY DEF MovedPositions
<1>3. q \in here
  BY <1>2
<1>4. Moved(j) = [data |-> At(q).data, round |-> q + 1]
  BY <1>2 DEF Moved
<1>5. q \in top .. bottom_ - 1 /\ q % D = p % D
  BY <1>3 DEF MovedPositions
<1> HIDE DEF q, D
<1>6. q \in Int /\ p < q + D /\ q < p + D
  BY <1>1, <1>5
<1>7. p = q
  BY <1>1, <1>5, <1>6, SlotsDistinct
<1>8. j \in 0 .. D - 1
  BY <1>1
<1>9. QED
  BY <1>4, <1>7, <1>8 DEF D

(* grow(): no thief is inside, so every item is in [top, bottom_) and is   *)
(* copied to the cell of its position.                                     *)
LEMMA CalmGrow ==
  ASSUME Shape, Unused, Positions, Locals, Rounds, Calm, Grow, \A t \in Thieves : spc[t] = "top"
  PROVE  Calm'
<1>1. /\ cells' = [i \in 0 .. 2 * capacity - 1 |-> Moved(i)] /\ wpc = "grow" /\ wpc' = "grown"
      /\ UNCHANGED <<top, bottom_, wt, item, spc, st, handed>>
  BY DEF Grow, Worker, thiefVars, history
<1>2. /\ top \in Nat /\ bottom_ \in Nat /\ capacity \in Nat \ {0} /\ bottom_ - top <= capacity
      /\ cellOf \in [Int -> DOMAIN cells]
      /\ \A p \in Int : Index(p) = cellOf[p] /\ At(p) = cells[cellOf[p]]
  BY CellOf DEF Locals, Shape, Positions
<1>3. Claims' /\ CasInReach' /\ OwnerHas' /\ ThiefHas'
  BY <1>1 DEF Claims, Claiming, CasInReach, OwnerHas, ThiefHas
<1>4. Ahead'
  BY <1>1 DEF Calm, Ahead, TakerOf
<1>5. Stored'
  <2> SUFFICES ASSUME NEW x \in Pushed', handed[x] = 0 PROVE \E i \in DOMAIN cells' : cells'[i].data = x
    BY <1>1 DEF Stored
  <2>1. x \in Pushed
    BY <1>1 DEF Pushed
  <2>2. PICK i \in DOMAIN cells : cells[i].data = x
    BY <2>1 DEF Calm, Stored
  <2>3. x # NULL
    BY <2>1, BoundsNatural, NullIsNoItem DEF Pushed, Unused
  <2>4. InReach(cells[i].round - 1) /\ cells[i].round \in Int
    BY <1>1, <2>2, <2>3 DEF Calm, Reached, Settled, Filling, Shape
  <2>5. PICK p \in top .. bottom_ - 1 : p = cells[i].round - 1
    BY <1>1, <2>4 DEF InReach
  <2>6. cellOf[p] = i
    BY <1>2, <2>4, <2>5 DEF Rounds
  <2>7. At(p).data = x
    BY <1>2, <2>2, <2>6
  <2>8. /\ p % (2 * capacity) \in 0 .. 2 * capacity - 1
        /\ Moved(p % (2 * capacity)).data = x
    BY <2>3, <2>7, MovedItem
  <2>9. QED
    BY <1>1, <2>8
<1>6. Reached'
  <2> SUFFICES ASSUME NEW i \in DOMAIN cells', cells'[i].data # NULL PROVE InReach(cells[i].round - 1)'
    BY DEF Reached, Settled
  <2>1. i \in 0 .. 2 * capacity - 1 /\ cells'[i] = Moved(i)
    BY <1>1
  <2>2. PICK p \in top .. bottom_ - 1 : Moved(i) = [data |-> At(p).data, round |-> p + 1]
    BY <2>1, MovedCell
  <2>3. cells'[i].round - 1 = p
    BY <1>2, <2>1, <2>2
  <2>4. QED
    BY <1>1, <2>3 DEF InReach
<1>7. QED
  BY <1>3, <1>4, <1>5, <1>6 DEF Calm

(* pop takes the item at bottom_ - 1 and no thief has claimed it.          *)
LEMMA CalmPopTake ==
  ASSUME Shape, Unused, Locals, Calm, PopTake, ~raced'
  PROVE  Calm'
<1>1. PICK p \in Int : p = bottom_ - 1
  BY DEF Locals
<1> DEFINE k == cellOf[p]
<1>2. Take(p) /\ At(p) = cells[k]
  BY <1>1, CellOf DEF PopTake
<1>3. /\ DOMAIN cells' = DOMAIN cells /\ cellOf' = cellOf /\ k \in DOMAIN cells
      /\ cells'[k].data = NULL
      /\ \A i \in DOMAIN cells : /\ cells'[i].round = cells[i].round
                                 /\ i # k => cells'[i].data = cells[i].data
  BY <1>2, TakeEffect
<1>4. k = cellOf[bottom_ - 1] /\ k = cellOf[p]
  BY <1>1
<1> HIDE DEF k
<1>5. /\ wpc = "take" /\ wpc' = IF cells[k].data = NULL THEN "idle" ELSE "clear"
      /\ UNCHANGED <<top, bottom_, item, spc, st>>
      /\ cells[k].data # NULL => ~(top > p)
  BY <1>1, <1>2 DEF PopTake, Worker, thiefVars
<1>6. top \in Nat /\ bottom_ \in Nat
  BY DEF Locals
<1>7. \A i \in DOMAIN cells : Settled(i)' => Settled(i)
  BY <1>3, <1>5 DEF Settled, Filling
<1>8. Claims' /\ CasInReach'
  BY <1>5 DEF Calm, Claims, Claiming, CasInReach
<1>9. Ahead'
  BY <1>5 DEF Calm, Ahead, TakerOf
<1>10. OwnerHas'
  <2>1. wpc' = "clear" => top < bottom_
    BY <1>1, <1>5, <1>6
  <2>2. QED
    BY <1>3, <1>4, <1>5, <2>1 DEF OwnerHas
<1>11. ThiefHas'
  BY <1>3, <1>5, <1>7 DEF Calm, ThiefHas
<1>12. Stored'
  <2>1. \A x \in Pushed' : x \in Pushed
    BY <1>5 DEF Pushed
  <2>2. QED
    BY <1>2, <2>1, StoredTake DEF Calm
<1>13. Reached'
  <2> SUFFICES ASSUME NEW i \in DOMAIN cells, Settled(i) PROVE InReach(cells[i].round - 1)'
    BY <1>3, <1>7 DEF Reached
  <2>1. InReach(cells[i].round - 1) /\ cells'[i].round = cells[i].round
    BY <1>3 DEF Calm, Reached
  <2>2. QED
    BY <1>5, <2>1 DEF InReach
<1>14. QED
  BY <1>8, <1>9, <1>10, <1>11, <1>12, <1>13 DEF Calm

(* pop withdraws the position it has emptied.                              *)
LEMMA CalmPopClear ==
  ASSUME Shape, Locals, Rounds, Calm, PopClear
  PROVE  Calm'
<1>1. PICK p \in Int : p = bottom_ - 1
  BY DEF Locals
<1>2. /\ ClearRound(p) /\ wpc = "clear" /\ wpc' = "idle" /\ bottom_' = bottom_ - 1
      /\ UNCHANGED <<top, wt, item, spc, st, handed>>
  BY <1>1 DEF PopClear, Worker, thiefVars, history
<1>3. cells[cellOf[p]].data = NULL /\ (top < bottom_ \/ (top = bottom_ /\ TakerOf(bottom_ - 1)))
  BY <1>1, <1>2 DEF Calm, OwnerHas
<1>4. ~Settled(cellOf[p])
  BY <1>3 DEF Settled
<1>5. /\ DOMAIN cells' = DOMAIN cells /\ cellOf' = cellOf
      /\ \A i \in DOMAIN cells : cells'[i].data = cells[i].data
      /\ \A i \in DOMAIN cells : Settled(i)' => Settled(i) /\ cells'[i].round = cells[i].round
  BY <1>2, <1>4, SettledClear
<1>6. /\ top \in Nat /\ bottom_ \in Nat /\ bottom_ > 0
      /\ \A t \in Thieves : st[t] \in Nat
  BY <1>2 DEF Locals
<1>7. Claims'
  BY <1>2 DEF Calm, Claims, Claiming
<1>8. CasInReach'
  BY <1>2, <1>6 DEF Calm, CasInReach
<1>9. Ahead'
  <2>1. TakerOf(bottom_ - 1) => TakerOf(bottom_)'
    BY <1>2 DEF TakerOf
  <2>2. QED
    BY <1>2, <1>3, <1>6, <2>1 DEF Ahead
<1>10. OwnerHas'
  BY <1>2 DEF OwnerHas
<1>11. ThiefHas'
  BY <1>2, <1>5 DEF Calm, ThiefHas
<1>12. Stored'
  <2>1. \A x \in Pushed' : x \in Pushed
    BY <1>2 DEF Pushed
  <2>2. QED
    BY <1>2, <1>5, <2>1, StoredData DEF Calm
<1>13. Reached'
  <2> SUFFICES ASSUME NEW i \in DOMAIN cells, Settled(i), cells'[i].round = cells[i].round
               PROVE  InReach(cells[i].round - 1)'
    BY <1>5 DEF Reached
  <2>1. InReach(cells[i].round - 1) /\ cells[i].round \in Int
    BY DEF Calm, Reached, Shape
  <2>2. cells[i].round - 1 # p
    <3> SUFFICES ASSUME cells[i].round - 1 = p PROVE FALSE
      OBVIOUS
    <3>1. cellOf[p] = i
      BY <1>1, <1>6, <2>1 DEF Rounds
    <3>2. QED
      BY <1>4, <3>1
  <2>3. QED
    BY <1>1, <1>2, <1>6, <2>1, <2>2 DEF InReach
<1>14. QED
  BY <1>7, <1>8, <1>9, <1>10, <1>11, <1>12, <1>13 DEF Calm

(* The last item: pop has advanced top past it.                            *)
LEMMA CalmPopLastCas ==
  ASSUME Shape, Locals, Calm, top = wt, wpc = "cas", wpc' = "lastTake", top' = top + 1,
         UNCHANGED <<cells, bottom_, wt, item, spc, st, handed>>
  PROVE  Calm'
<1>1. cellOf' = cellOf
  BY CellOfKept
<1>2. /\ top \in Nat /\ bottom_ \in Nat /\ wt \in Nat /\ bottom_ = wt + 1
      /\ \A t \in Thieves : st[t] \in Nat /\ (spc[t] # "top" => st[t] <= top)
  BY DEF Locals
<1>3. Claims'
  BY <1>2 DEF Calm, Claims, Claiming
<1>4. CasInReach' /\ \A t \in Thieves : ~(spc[t] = "cas" /\ st[t] = top')
  BY <1>2 DEF CasInReach
<1>5. Ahead' /\ OwnerHas'
  BY <1>2 DEF Ahead, OwnerHas
<1>6. \A i \in DOMAIN cells : Settled(i)' => Settled(i)
  BY DEF Settled, Filling
<1>7. ThiefHas'
  BY <1>1, <1>4, <1>6 DEF Calm, ThiefHas
<1>8. Stored'
  <2>1. \A x \in Pushed' : x \in Pushed
    BY DEF Pushed
  <2>2. QED
    BY <2>1, StoredData DEF Calm
<1>9. Reached'
  <2> SUFFICES ASSUME NEW i \in DOMAIN cells, Settled(i) PROVE InReach(cells[i].round - 1)'
    BY <1>6 DEF Reached
  <2>1. InReach(cells[i].round - 1) /\ cells[i].round \in Int
    BY DEF Calm, Reached, Shape
  <2>2. QED
    BY <1>2, <2>1 DEF InReach
<1>10. QED
  BY <1>3, <1>4, <1>5, <1>7, <1>8, <1>9 DEF Calm

LEMMA CalmPopLastTake ==
  ASSUME Shape, Unused, Locals, Rounds, Calm, PopLastTake
  PROVE  Calm'
<1>1. PICK p \in Int : p = wt
  BY DEF Locals
<1> DEFINE k == cellOf[p]
<1>2. Take(p)
  BY <1>1 DEF PopLastTake
<1>3. /\ DOMAIN cells' = DOMAIN cells /\ cellOf' = cellOf /\ k \in DOMAIN cells
      /\ cells'[k].data = NULL
      /\ \A i \in DOMAIN cells : /\ cells'[i].round = cells[i].round
                                 /\ i # k => cells'[i].data = cells[i].data
  BY <1>2, TakeEffect
<1>4. k = cellOf[wt] /\ k = cellOf[p]
  BY <1>1
<1> HIDE DEF k
<1>5. /\ wpc = "lastTake" /\ wpc' \in {"idle", "lastClear"} /\ (wpc' = "lastClear" => wt' = wt)
      /\ UNCHANGED <<top, bottom_, item, spc, st>>
  BY DEF PopLastTake, Worker, thiefVars, Locals
<1>6. top \in Nat /\ bottom_ \in Nat /\ p \in Nat
  BY <1>1 DEF Locals
<1>7. \A i \in DOMAIN cells : Settled(i)' => Settled(i) /\ i # k
  BY <1>3, <1>5 DEF Settled, Filling
<1>8. Claims' /\ CasInReach'
  BY <1>5 DEF Calm, Claims, Claiming, CasInReach
<1>9. Ahead'
  BY <1>5 DEF Calm, Ahead, TakerOf
<1>10. OwnerHas'
  BY <1>3, <1>4, <1>5 DEF OwnerHas
<1>11. ThiefHas'
  BY <1>3, <1>5, <1>7 DEF Calm, ThiefHas
<1>12. Stored'
  <2>1. \A x \in Pushed' : x \in Pushed
    BY <1>5 DEF Pushed
  <2>2. QED
    BY <1>2, <2>1, StoredTake DEF Calm
<1>13. Reached'
  <2> SUFFICES ASSUME NEW i \in DOMAIN cells, Settled(i), i # k PROVE InReach(cells[i].round - 1)'
    BY <1>3, <1>7 DEF Reached
  <2>1. InReach(cells[i].round - 1) /\ cells'[i].round = cells[i].round /\ cells[i].round \in Int
    BY <1>3 DEF Calm, Reached, Shape
  <2>2. cells[i].round - 1 # wt
    <3> SUFFICES ASSUME cells[i].round - 1 = p PROVE FALSE
      BY <1>1
    <3>1. cellOf[p] = i
      BY <1>6, <2>1 DEF Rounds
    <3>2. QED
      BY <1>4, <3>1
  <2>3. QED
    BY <1>5, <2>1, <2>2 DEF InReach
<1>14. QED
  BY <1>8, <1>9, <1>10, <1>11, <1>12, <1>13 DEF Calm

LEMMA CalmPopLastClear ==
  ASSUME Shape, Locals, Calm, PopLastClear
  PROVE  Calm'
<1>1. PICK p \in Int : p = wt
  BY DEF Locals
<1>2. /\ ClearRound(p) /\ wpc = "lastClear" /\ wpc' = "idle"
      /\ UNCHANGED <<top, bottom_, item, spc, st, handed>>
  BY <1>1 DEF PopLastClear, Worker, thiefVars, history
<1>3. ~Settled(cellOf[p])
  BY <1>1, <1>2 DEF Calm, OwnerHas, Settled
<1>4. /\ DOMAIN cells' = DOMAIN cells /\ cellOf' = cellOf
      /\ \A i \in DOMAIN cells : cells'[i].data = cells[i].data
      /\ \A i \in DOMAIN cells : Settled(i)' => Settled(i) /\ cells'[i].round = cells[i].round
  BY <1>2, <1>3, SettledClear
<1>5. Claims' /\ CasInReach'
  BY <1>2 DEF Calm, Claims, Claiming, CasInReach
<1>6. Ahead' /\ OwnerHas'
  BY <1>2 DEF Calm, Ahead, OwnerHas, TakerOf
<1>7. ThiefHas'
  BY <1>2, <1>4 DEF Calm, ThiefHas
<1>8. Stored'
  <2>1. \A x \in Pushed' : x \in Pushed
    BY <1>2 DEF Pushed
  <2>2. QED
    BY <1>2, <1>4, <2>1, StoredData DEF Calm
<1>9. Reached'
  <2> SUFFICES ASSUME NEW i \in DOMAIN cells, Settled(i), cells'[i].round = cells[i].round
               PROVE  InReach(cells[i].round - 1)'
    BY <1>4 DEF Reached
  <2>1. InReach(cells[i].round - 1)
    BY DEF Calm, Reached
  <2>2. QED
    BY <1>2, <2>1 DEF InReach
<1>10. QED
  BY <1>5, <1>6, <1>7, <1>8, <1>9 DEF Calm

LEMMA CalmDestroy ==
  ASSUME Shape, Unused, Calm, Destroy, \A t \in Thieves : spc[t] = "top"
  PROVE  Calm'
<1>1. /\ wpc = "idle" /\ wpc' = "gone" /\ UNCHANGED <<top, bottom_, wt, item, spc, st>>
      /\ handed' = [x \in Items |->
           handed[x] + (IF \E i \in DOMAIN cells : cells[i].data = x THEN 1 ELSE 0)]
      /\ cells' = [i \in DOMAIN cells |-> [cells[i] EXCEPT !.data = NULL]]
  BY DEF Destroy, Worker, thiefVars
<1>2. DOMAIN cells' = DOMAIN cells /\ \A i \in DOMAIN cells : cells'[i].data = NULL
  BY <1>1 DEF Shape
<1>3. Claims' /\ CasInReach' /\ OwnerHas' /\ ThiefHas'
  BY <1>1 DEF Claims, Claiming, CasInReach, OwnerHas, ThiefHas
<1>4. Ahead'
  BY <1>1 DEF Calm, Ahead, TakerOf
<1>5. Stored'
  <2> SUFFICES ASSUME NEW x \in Pushed' PROVE handed'[x] # 0
    BY DEF Stored
  <2>1. x \in Pushed /\ x \in Items
    BY <1>1, BoundsNatural DEF Pushed, Items, Unused
  <2>2. CASE handed[x] = 0
    BY <1>1, <2>1, <2>2 DEF Calm, Stored
  <2>3. CASE handed[x] # 0
    BY <1>1, <2>1, <2>3 DEF Shape
  <2>4. QED
    BY <2>2, <2>3
<1>6. Reached'
  BY <1>2 DEF Reached, Settled
<1>7. QED
  BY <1>3, <1>4, <1>5, <1>6 DEF Calm

LEMMA CalmOwner ==
  ASSUME ItemInv, EpochInv, ArrayInv, Locals, Rounds, Calm, ~raced',
         PushCall \/ Push \/ PopLook \/ Pop \/ Destroy
  PROVE  Calm'
<1> USE DEF ownerVars, thiefVars, history, queueVars, Worker
<1>0. Shape /\ Unused /\ Positions
  BY DEF ItemInv
<1>1. CASE PushCall
  <2>1. \A x \in Pushed' : x \in Pushed
    BY <1>0, <1>1 DEF PushCall, Pushed, Unused
  <2>2. QED
    BY <1>1, <2>1, OwnerMoves DEF PushCall
<1>2. CASE PushLook \/ CloseWindow
  <2>1. \A x \in Pushed' : x \in Pushed
    BY <1>2 DEF PushLook, CloseWindow, Pushed
  <2>2. /\ UNCHANGED <<top, cells, bottom_, spc, st, handed>>
        /\ wpc \in {"push", "grown"} /\ wpc' \in {"grow", "write", "push"}
    BY <1>2 DEF PushLook, CloseWindow
  <2>3. QED
    BY <2>1, <2>2, OwnerMoves
<1>3. CASE OpenWindow
  <2>1. \A x \in Pushed' : x \in Pushed
    BY <1>3 DEF OpenWindow, Pushed
  <2>2. UNCHANGED <<top, cells, bottom_, spc, st, handed>> /\ wpc = "grow" /\ wpc' = "grow"
    BY <1>3 DEF OpenWindow
  <2>3. QED
    BY <2>1, <2>2, OwnerMoves
<1>4. CASE Grow
  <2>1. \A t \in Thieves : spc[t] = "top"
    BY <1>4 DEF Grow, EpochInv, NoThiefInWindow, Inside, ArrayInv, InGuard
  <2>2. QED
    BY <1>0, <1>4, <2>1, CalmGrow
<1>5. CASE PopLook
  <2>1. \A x \in Pushed' : x \in Pushed
    BY <1>5 DEF PopLook, Pushed
  <2>2. wpc' = "take" => top < bottom_
    BY <1>5 DEF PopLook, NoCompetition, Locals
  <2>3. /\ UNCHANGED <<top, cells, bottom_, spc, st, handed>>
        /\ wpc = "idle" /\ wpc' \in {"take", "cas"}
    BY <1>5 DEF PopLook
  <2>4. QED
    BY <2>1, <2>2, <2>3, OwnerMoves
<1>6. CASE PopLastCas
  <2>1. CASE top = wt
    BY <1>0, <1>6, <2>1, CalmPopLastCas DEF PopLastCas
  <2>2. CASE top # wt
    <3>1. \A x \in Pushed' : x \in Pushed
      BY <1>6, <2>2 DEF PopLastCas, Pushed
    <3>2. UNCHANGED <<top, cells, bottom_, spc, st, handed>> /\ wpc = "cas" /\ wpc' = "idle"
      BY <1>6, <2>2 DEF PopLastCas
    <3>3. QED
      BY <3>1, <3>2, OwnerMoves
  <2>3. QED
    BY <2>1, <2>2
<1>7. CASE Destroy
  <2>1. \A t \in Thieves : spc[t] = "top"
    BY <1>7 DEF Destroy, ArrayInv, InGuard
  <2>2. QED
    BY <1>0, <1>7, <2>1, CalmDestroy
<1>8. QED
  BY <1>0, <1>1, <1>2, <1>3, <1>4, <1>5, <1>6, <1>7, CalmPushWrite, CalmPushPublish, CalmPopTake,
     CalmPopClear, CalmPopLastTake, CalmPopLastClear DEF Push, Pop

LEMMA CalmThief ==
  ASSUME ItemInv, ArrayInv, Locals, Rounds, Calm, ~raced', NEW t \in Thieves, Steal(t), ~StealEnter(t)
  PROVE  Calm'
<1> USE DEF ownerVars, thiefVars, history
<1>0. /\ Shape /\ Unused /\ DOMAIN spc = Thieves /\ DOMAIN st = Thieves
      /\ st[t] \in Int /\ At(st[t]) = cells[cellOf[st[t]]]
  BY CellOf DEF ItemInv, ArrayInv, Locals
<1>1. CASE StealTop(t) \/ StealArray(t) \/ StealRound(t) \/ StealReturn(t)
  <2>1. /\ UNCHANGED <<top, cells, bottom_, wpc, wt, item, handed>>
        /\ \A u \in Thieves : u # t => spc'[u] = spc[u] /\ st'[u] = st[u]
    BY <1>0, <1>1 DEF StealTop, StealArray, StealRound, StealReturn, Steals
  <2>2. spc[t] \notin {"take", "clear"} /\ spc'[t] \notin {"take", "clear"}
    BY <1>0, <1>1 DEF StealTop, StealArray, StealRound, StealReturn, Steals
  <2>3. spc'[t] = "cas" => st'[t] = st[t] /\ cells[cellOf[st[t]]].round = st[t] + 1
    BY <1>0, <1>1 DEF StealTop, StealArray, StealRound, StealReturn, Steals
  <2>4. QED
    BY <1>0, <2>1, <2>2, <2>3, ThiefMoves
<1>2. CASE StealCas(t)
  <2>1. CASE top = st[t]
    BY <1>0, <1>2, <2>1, CalmStealCas DEF StealCas, Steals
  <2>2. CASE top # st[t]
    <3>1. /\ UNCHANGED <<top, cells, bottom_, wpc, wt, item, handed>>
          /\ \A u \in Thieves : u # t => spc'[u] = spc[u] /\ st'[u] = st[u]
          /\ spc[t] = "cas" /\ spc'[t] = "done"
      BY <1>0, <1>2, <2>2 DEF StealCas, Steals
    <3>2. QED
      BY <1>0, <3>1, ThiefMoves
  <2>3. QED
    BY <2>1, <2>2
<1>3. CASE StealTake(t)
  <2>1. PICK p \in Int : p = st[t]
    BY <1>0
  <2>2. /\ Take(p) /\ cells[cellOf[p]].data # NULL
        /\ spc[t] = "take" /\ spc' = [spc EXCEPT ![t] = "clear"]
        /\ UNCHANGED <<top, bottom_, wpc, wt, item, st>>
    BY <1>0, <1>3, <2>1 DEF StealTake, Steals
  <2>3. QED
    BY <1>0, <2>1, <2>2, CalmStealTake
<1>4. CASE StealClear(t)
  <2>1. PICK p \in Int : p = st[t]
    BY <1>0
  <2>2. /\ ClearRound(p) /\ spc[t] = "clear"
        /\ spc' = [spc EXCEPT ![t] = "top"] \/ spc' = [spc EXCEPT ![t] = "done"]
        /\ UNCHANGED <<top, bottom_, wpc, wt, item, st, handed>>
    BY <1>4, <2>1 DEF StealClear, Steals
  <2>3. QED
    BY <1>0, <2>1, <2>2, CalmStealClear
<1>5. QED
  BY <1>1, <1>2, <1>3, <1>4 DEF Steal

LEMMA CalmFrame ==
  ASSUME Calm, UNCHANGED <<top, cells, bottom_, wpc, wt, item, spc, st, handed>>
  PROVE  Calm'
<1>1. cellOf' = cellOf
  BY CellOfKept
<1>2. Claims' /\ CasInReach' /\ Ahead' /\ OwnerHas'
  BY <1>1 DEF Calm, Claims, Claiming, CasInReach, Ahead, OwnerHas, TakerOf
<1>3. \A i \in DOMAIN cells : Settled(i)' <=> Settled(i)
  BY <1>1 DEF Settled, Filling
<1>4. ThiefHas'
  BY <1>1, <1>3 DEF Calm, ThiefHas
<1>5. Stored'
  <2>1. Pushed' = Pushed
    BY DEF Pushed
  <2>2. QED
    BY <2>1, StoredData DEF Calm
<1>6. Reached'
  <2> SUFFICES ASSUME NEW i \in DOMAIN cells, Settled(i) PROVE InReach(cells[i].round - 1)'
    BY <1>3 DEF Reached
  <2>1. InReach(cells[i].round - 1)
    BY DEF Calm, Reached
  <2>2. QED
    BY <2>1 DEF InReach
<1>7. QED
  BY <1>2, <1>4, <1>5, <1>6 DEF Calm

LEMMA NextKeep ==
  EpochInv /\ ArrayInv /\ ItemInv /\ KeepInv /\ [QueueNext]_allVars => KeepInv'
<1> SUFFICES ASSUME EpochInv, ArrayInv, ItemInv, KeepInv, [QueueNext]_allVars PROVE KeepInv'
  OBVIOUS
<1>1. Locals /\ Rounds /\ Locals' /\ Rounds'
  BY LocalsStep, RoundsStep DEF KeepInv
<1> SUFFICES ASSUME ~raced' PROVE Calm'
  BY <1>1 DEF KeepInv
<1>2. ~raced
  BY DEF QueueNext, PushCall, Push, PushLook, PushWrite, PushPublish, OpenWindow, Grow, CloseWindow,
     PopLook, Pop, PopTake, PopClear, PopLastCas, PopLastTake, PopLastClear, Destroy, Steal,
     StealEnter, StealTop, StealArray, StealRound, StealCas, StealTake, StealClear, StealReturn,
     StealCall, StoreDrains, allVars, queueVars, history
<1>3. Calm
  BY <1>2 DEF KeepInv
<1>4. CASE UNCHANGED <<top, cells, bottom_, wpc, wt, item, spc, st, handed>>
  BY <1>3, <1>4, CalmFrame
<1>5. CASE PushCall \/ Push \/ PopLook \/ Pop \/ Destroy
  BY <1>1, <1>3, <1>5, CalmOwner
<1>6. ASSUME NEW t \in Thieves, Steal(t), ~StealEnter(t) PROVE Calm'
  BY <1>1, <1>3, <1>6, CalmThief
<1>7. ASSUME NEW t \in Thieves, StealEnter(t) \/ \E n \in 0 .. MaxBatch : StealCall(t, n) PROVE Calm'
  <2>1. UNCHANGED <<top, cells, bottom_, wpc, wt, item, spc, st, handed>>
    BY <1>7 DEF StealEnter, StealCall, queueVars, ownerVars, thiefVars, history
  <2>2. QED
    BY <1>4, <2>1
<1>8. CASE StoreDrains \/ UNCHANGED allVars
  <2>1. UNCHANGED <<top, cells, bottom_, wpc, wt, item, spc, st, handed>>
    BY <1>8 DEF StoreDrains, allVars, queueVars, ownerVars, thiefVars, history
  <2>2. QED
    BY <1>4, <2>1
<1>9. QED
  BY <1>5, <1>6, <1>7, <1>8 DEF QueueNext

LEMMA InitKeep == QueueInit => KeepInv
<1> SUFFICES ASSUME QueueInit PROVE KeepInv
  OBVIOUS
<1>1. /\ \A i \in DOMAIN cells : cells[i].data = NULL /\ cells[i].round = 0
      /\ \A t \in Thieves : spc[t] = "top"
      /\ top = 0 /\ bottom_ = 0 /\ wpc = "idle" /\ wt = 0 /\ item = 0
      /\ st = [t \in Thieves |-> 0]
  BY DEF QueueInit, Empty
<1>2. Locals /\ Rounds
  BY <1>1 DEF Locals, Rounds
<1>3. Claims /\ CasInReach /\ Ahead /\ OwnerHas /\ ThiefHas
  BY <1>1 DEF Claims, Claiming, CasInReach, Ahead, OwnerHas, ThiefHas
<1>4. Stored /\ Reached
  BY <1>1 DEF Stored, Reached, Settled, Pushed
<1>5. QED
  BY <1>2, <1>3, <1>4 DEF KeepInv, Calm

(* Every item pushed and not handed out is in a cell where the owner or a  *)
(* thief will find it, through growth, wrap-around and races for the last  *)
(* item, unless a pop that looked at top too early took an item a thief    *)
(* had claimed.                                                            *)
THEOREM QueueLostOnlyByStalePop == QueueSpec => []LostOnlyByStalePop
<1>1. QueueInit => ArrayInv
  BY DEF QueueInit, ArrayInv, InGuard, NoUseAfterFree
<1>2. EpochInv /\ ArrayInv /\ [QueueNext]_allVars => ArrayInv'
  BY NextArray
<1>3. ItemInv /\ KeepInv => LostOnlyByStalePop
  BY CalmKeeps DEF ItemInv, KeepInv, LostOnlyByStalePop
<1>4. QED
  BY <1>1, <1>2, <1>3, AlwaysEpoch, InitItems, NextItems, InitKeep, NextKeep, PTL DEF QueueSpec
=============================================================================
