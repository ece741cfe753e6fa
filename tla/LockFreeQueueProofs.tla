------------------------ MODULE LockFreeQueueProofs --------------------------
(***************************************************************************)
(* LockFreeQueue, for any number of producers, consumers and items and     *)
(* every capacity above one: no two threads touch the data of one cell at  *)
(* a time, and the queue is a bounded FIFO.  With one slot the sequence    *)
(* number of a published cell is the one of a free cell of the next round, *)
(* and neither holds.                                                      *)
(***************************************************************************)
EXTENDS LockFreeQueue, IndexArithmetic

(* The cell of position n; cell(t) is Cell(pos[t]).                        *)
Cell(n) == n % Capacity

Writes(p) == pc[p] \in {"write", "publish"}
Reads(c) == pc[c] \in {"read", "release"}
Writer(n) == \E p \in Producers : Writes(p) /\ pos[p] = n
Reader(n) == \E c \in Consumers : Reads(c) /\ pos[c] = n

(* The last Capacity positions that were claimed for a push, or would have *)
(* been by a queue that starts full of popped items: one for each cell.    *)
Window == tail_ - Capacity .. tail_ - 1

QueueTypes ==
  /\ tail_ \in Nat /\ head_ \in Nat
  /\ head_ <= tail_ /\ tail_ <= head_ + Capacity
  /\ sequence \in [Slots -> Int]
  /\ data \in [Slots -> Items \cup {NULL}]
  /\ pc \in [Threads -> {"out", "look", "claim", "write", "publish", "read", "release"}]
  /\ \A p \in Producers : pc[p] \notin {"read", "release"}
  /\ \A c \in Consumers : pc[c] \notin {"write", "publish"}
  /\ pos \in [Threads -> Nat]
  /\ \A p \in Producers : pos[p] <= tail_
  /\ \A c \in Consumers : pos[c] <= head_
  /\ item \in [Threads -> Items \cup {NULL}]
  /\ \A p \in Producers : pc[p] # "out" => item[p] \in Items
  /\ todo \subseteq Items
  /\ order \in Seq(Items) /\ Len(order) = tail_

(* A claim is for a position of the window that nobody else has claimed.   *)
Claims ==
  /\ \A p \in Producers : Writes(p) => head_ <= pos[p] /\ pos[p] < tail_
  /\ \A c \in Consumers : Reads(c) => tail_ - Capacity <= pos[c] /\ pos[c] < head_
  /\ \A p, q \in Producers : Writes(p) /\ Writes(q) /\ pos[p] = pos[q] => p = q
  /\ \A c, d \in Consumers : Reads(c) /\ Reads(d) /\ pos[c] = pos[d] => c = d

(* A cell's sequence number tells how far its position of the window is:   *)
(* claimed by a push, published, claimed by a pop (which leaves it), free. *)
Stage(n) == IF n >= head_ THEN IF Writer(n) THEN n ELSE n + 1
                          ELSE IF Reader(n) THEN n + 1 ELSE n + Capacity

Stages == \A n \in Window : sequence[Cell(n)] = Stage(n)

(* What a thread has seen before its compare_exchange is still so if that  *)
(* succeeds.                                                               *)
Ready ==
  /\ \A p \in Producers : pc[p] = "claim" /\ pos[p] = tail_ => sequence[Cell(tail_)] = tail_
  /\ \A c \in Consumers : pc[c] = "claim" /\ pos[c] = head_ => sequence[Cell(head_)] = head_ + 1

QueueInv == QueueTypes /\ Claims /\ Stages /\ Ready

-----------------------------------------------------------------------------
LEMMA CellType == \A n \in Int : Cell(n) \in Slots
  BY CapacityPositive, DivMod DEF Cell, Slots

LEMMA CellDistinct ==
  \A m, n \in Int : m < n + Capacity /\ n < m + Capacity /\ m # n => Cell(m) # Cell(n)
  BY CapacityPositive, SlotsDistinct DEF Cell

LEMMA CellWraps == \A n \in Int : n - Capacity \in Int /\ Cell(n - Capacity) = Cell(n)
<1> SUFFICES ASSUME NEW n \in Int PROVE n - Capacity \in Int /\ Cell(n - Capacity) = Cell(n)
  OBVIOUS
<1>1. Capacity \in Nat \ {0} /\ -1 \in Int /\ n + Capacity * (-1) = n - Capacity
  BY CapacityPositive
<1>2. (n + Capacity * (-1)) % Capacity = n % Capacity
  BY <1>1, SameSlot
<1>3. QED
  BY <1>1, <1>2 DEF Cell

LEMMA CellOfThread == \A t : cell(t) = Cell(pos[t])
  BY DEF cell, Cell

(* Two claimed cells differ.                                               *)
LEMMA InvExclusive == QueueInv => CellExclusive
<1> SUFFICES ASSUME QueueInv, NEW t \in Threads, NEW u \in Threads, t # u,
                    pc[t] \in {"write", "publish", "read", "release"},
                    pc[u] \in {"write", "publish", "read", "release"}
             PROVE  cell(t) # cell(u)
  BY DEF CellExclusive
<1>1. /\ pos[t] # pos[u] /\ pos[t] \in Window /\ pos[u] \in Window
      /\ pos[t] \in Int /\ pos[u] \in Int
  BY CapacityPositive DEF QueueInv, QueueTypes, Claims, Writes, Reads, Threads, Window
<1>2. pos[t] < pos[u] + Capacity /\ pos[u] < pos[t] + Capacity
  BY <1>1, CapacityPositive DEF QueueInv, QueueTypes, Window
<1>3. QED
  BY <1>1, <1>2, CellDistinct, CellOfThread

(* A cell that is free for position tail_ was popped and handed back.      *)
LEMMA FreeCell ==
  ASSUME QueueInv, Capacity > 1, sequence[Cell(tail_)] = tail_
  PROVE  /\ tail_ - Capacity < head_
         /\ ~Reader(tail_ - Capacity)
         /\ ~Writer(tail_ - Capacity)
<1> DEFINE n == tail_ - Capacity
<1>1. n \in Window /\ n \in Int /\ Cell(n) = Cell(tail_) /\ n + Capacity = tail_
  BY CapacityPositive, CellWraps DEF QueueInv, QueueTypes, Window
<1>2. Stage(n) = n + Capacity /\ Capacity \in Nat
  BY <1>1, CapacityPositive DEF QueueInv, Stages
<1>3. n < head_ /\ ~Reader(n)
  BY <1>1, <1>2 DEF Stage, QueueInv, QueueTypes
<1>4. ~Writer(n)
  BY <1>1, <1>3 DEF Writer, QueueInv, QueueTypes, Claims
<1>5. QED
  BY <1>3, <1>4

(* A cell that is filled for position head_ was pushed and published.      *)
LEMMA FilledCell ==
  ASSUME QueueInv, Capacity > 1, sequence[Cell(head_)] = head_ + 1
  PROVE  head_ < tail_ /\ ~Writer(head_) /\ head_ \in Window
<1>0. Capacity \in Nat /\ head_ \in Nat /\ tail_ \in Nat
  BY CapacityPositive DEF QueueInv, QueueTypes
<1>1. ASSUME head_ = tail_ PROVE FALSE
  <2> DEFINE n == tail_ - Capacity
  <2>1. n \in Window /\ n \in Int /\ Cell(n) = Cell(tail_) /\ n < head_
    BY <1>0, <1>1, CellWraps DEF Window
  <2>2. Stage(n) = head_ + 1
    BY <1>1, <2>1 DEF QueueInv, Stages
  <2>3. QED
    BY <1>0, <1>1, <2>1, <2>2 DEF Stage
<1>2. head_ < tail_ /\ head_ \in Window
  BY <1>0, <1>1 DEF QueueInv, QueueTypes, Window
<1>3. Stage(head_) = head_ + 1
  BY <1>2 DEF QueueInv, Stages
<1>4. QED
  BY <1>0, <1>2, <1>3 DEF Stage

-----------------------------------------------------------------------------
LEMMA InitQueue == Init => QueueInv
<1> SUFFICES ASSUME Init PROVE QueueInv
  OBVIOUS
<1>1. QueueTypes
  BY CapacityPositive DEF Init, QueueTypes, Threads, Slots
<1>2. Claims /\ Ready
  BY DEF Init, Claims, Ready, Writes, Reads, Threads
<1>3. Stages
  <2> SUFFICES ASSUME NEW n \in Window PROVE sequence[Cell(n)] = Stage(n)
    BY DEF Stages
  <2>1. n \in Int /\ n < 0 /\ n + Capacity \in 0 .. Capacity - 1
    BY CapacityPositive DEF Init, Window
  <2>2. Stage(n) = n + Capacity
    BY <2>1 DEF Init, Stage, Reader, Reads, Threads
  <2>3. Cell(n) = n + Capacity
    <3> DEFINE m == n + Capacity
    <3>1. m \in 0 .. Capacity - 1 /\ m \in Int /\ m - Capacity = n
      BY <2>1, CapacityPositive
    <3> HIDE DEF m
    <3>2. Cell(m) = m
      BY <3>1, CapacityPositive, ModSmall DEF Cell
    <3>3. Cell(m - Capacity) = Cell(m)
      BY <3>1, CellWraps
    <3>4. QED
      BY <3>1, <3>2, <3>3 DEF m
  <2>4. QED
    BY <2>1, <2>2, <2>3 DEF Init, Slots
<1>4. QED
  BY <1>1, <1>2, <1>3 DEF QueueInv

-----------------------------------------------------------------------------
(* A step of t that claims and releases nothing.                           *)
LEMMA NoClaim ==
  ASSUME QueueInv, QueueTypes', Ready', UNCHANGED <<tail_, head_, sequence>>, NEW t \in Threads,
         \A u \in Threads : u # t => pc'[u] = pc[u] /\ pos'[u] = pos[u],
         pc'[t] \in {"write", "publish"} <=> pc[t] \in {"write", "publish"},
         pc'[t] \in {"read", "release"} <=> pc[t] \in {"read", "release"},
         pc[t] \in {"write", "publish", "read", "release"} => pos'[t] = pos[t]
  PROVE  QueueInv'
<1>1. \A u \in Threads :
        /\ pc'[u] \in {"write", "publish"} <=> Writes(u)
        /\ pc'[u] \in {"read", "release"} <=> Reads(u)
        /\ Writes(u) \/ Reads(u) => pos'[u] = pos[u]
  BY DEF Writes, Reads
<1>2. Claims'
  BY <1>1 DEF QueueInv, Claims, Threads, Writes, Reads
<1>3. \A n : (Writer(n)' <=> Writer(n)) /\ (Reader(n)' <=> Reader(n))
  BY <1>1 DEF Writer, Reader, Writes, Reads, Threads
<1>4. Stages'
  BY <1>3 DEF QueueInv, Stages, Stage, Window
<1>5. QED
  BY <1>2, <1>4 DEF QueueInv

LEMMA CallsKeepInv ==
  ASSUME QueueInv,
         \/ \E p \in Producers, x \in Items : PushCall(p, x)
         \/ \E c \in Consumers : PopCall(c)
  PROVE  QueueInv'
<1> USE RolesDisjoint DEF Threads, Goto
<1>1. ASSUME NEW p \in Producers, NEW x \in Items, PushCall(p, x) PROVE QueueInv'
  <2>1. QueueTypes'
    BY <1>1 DEF PushCall, QueueInv, QueueTypes
  <2>2. Ready'
    BY <1>1 DEF PushCall, Ready, QueueInv, QueueTypes
  <2>3. /\ p \in Threads /\ UNCHANGED <<tail_, head_, sequence>>
        /\ pc[p] = "out" /\ pc'[p] = "look"
        /\ \A u \in Threads : u # p => pc'[u] = pc[u] /\ pos'[u] = pos[u]
    BY <1>1 DEF PushCall, QueueInv, QueueTypes
  <2>4. QED
    BY <2>1, <2>2, <2>3, NoClaim
<1>2. ASSUME NEW c \in Consumers, PopCall(c) PROVE QueueInv'
  <2>1. QueueTypes'
    BY <1>2 DEF PopCall, QueueInv, QueueTypes
  <2>2. Ready'
    BY <1>2 DEF PopCall, Ready, QueueInv, QueueTypes
  <2>3. /\ c \in Threads /\ UNCHANGED <<tail_, head_, sequence>>
        /\ pc[c] = "out" /\ pc'[c] = "look"
        /\ \A u \in Threads : u # c => pc'[u] = pc[u] /\ pos'[u] = pos[u]
    BY <1>2 DEF PopCall, QueueInv, QueueTypes
  <2>4. QED
    BY <2>1, <2>2, <2>3, NoClaim
<1>3. QED
  BY <1>1, <1>2

LEMMA LooksKeepInv ==
  ASSUME QueueInv, NEW t \in Threads, PushLook(t) \/ PopLook(t)
  PROVE  QueueInv'
<1> USE RolesDisjoint DEF Threads, Goto
<1>1. /\ cell(t) \in Slots /\ cell(t) = Cell(pos[t]) /\ pos[t] \in Nat
      /\ sequence[cell(t)] \in Int
  BY CellType, CellOfThread DEF QueueInv, QueueTypes
<1>2. /\ pc[t] = "look" /\ UNCHANGED <<tail_, head_, sequence, data, order>>
      /\ \E l \in {"out", "look", "claim"} : pc' = [pc EXCEPT ![t] = l]
      /\ pos' = pos \/ pos' = [pos EXCEPT ![t] = IF t \in Producers THEN tail_ ELSE head_]
      /\ t \in Consumers => item' = item /\ todo' = todo
      /\ t \in Producers => \/ item' = item /\ todo' = todo
                            \/ /\ item' = [item EXCEPT ![t] = NULL] /\ pc'[t] = "out"
                               /\ todo' = todo \cup {item[t]}
      /\ t \in Producers /\ pc'[t] = "claim" => sequence[cell(t)] = pos[t] /\ pos' = pos
      /\ t \in Consumers /\ pc'[t] = "claim" => sequence[cell(t)] = pos[t] + 1 /\ pos' = pos
  <2>1. CASE PushLook(t)
    BY <1>1, <2>1 DEF PushLook, QueueInv, QueueTypes
  <2>2. CASE PopLook(t)
    BY <1>1, <2>2 DEF PopLook, QueueInv, QueueTypes
  <2>3. QED
    BY <2>1, <2>2
<1>3. QueueTypes'
  <2>1. /\ pos' \in [Threads -> Nat]
        /\ \A p \in Producers : pos'[p] <= tail_
        /\ \A c \in Consumers : pos'[c] <= head_
    <3>1. CASE pos' = pos
      BY <3>1 DEF QueueInv, QueueTypes
    <3>2. CASE t \in Producers /\ pos' = [pos EXCEPT ![t] = tail_]
      BY <3>2 DEF QueueInv, QueueTypes
    <3>3. CASE t \in Consumers /\ pos' = [pos EXCEPT ![t] = head_]
      BY <3>3 DEF QueueInv, QueueTypes
    <3>4. QED
      BY <1>2, <3>1, <3>2, <3>3
  <2>2. /\ item' \in [Threads -> Items \cup {NULL}] /\ todo' \subseteq Items
        /\ \A p \in Producers : pc'[p] # "out" => item'[p] \in Items
    BY <1>2 DEF QueueInv, QueueTypes
  <2>3. /\ pc' \in [Threads -> {"out", "look", "claim", "write", "publish", "read", "release"}]
        /\ \A p \in Producers : pc'[p] \notin {"read", "release"}
        /\ \A c \in Consumers : pc'[c] \notin {"write", "publish"}
    BY <1>2 DEF QueueInv, QueueTypes
  <2>4. QED
    BY <1>2, <2>1, <2>2, <2>3 DEF QueueInv, QueueTypes
<1>4. Ready'
  BY <1>1, <1>2 DEF QueueInv, QueueTypes, Ready
<1>5. /\ \A u \in Threads : u # t => pc'[u] = pc[u] /\ pos'[u] = pos[u]
      /\ pc'[t] \in {"out", "look", "claim"}
  BY <1>2 DEF QueueInv, QueueTypes
<1>6. QED
  BY <1>2, <1>3, <1>4, <1>5, NoClaim

(* A compare_exchange that fails.                                          *)
LEMMA RetriesKeepInv ==
  ASSUME QueueInv, NEW t \in Threads, pc[t] = "claim",
         pos' = [pos EXCEPT ![t] = IF t \in Producers THEN tail_ ELSE head_],
         Goto(t, "look"), UNCHANGED <<tail_, head_, sequence, data, item, todo, order>>
  PROVE  QueueInv'
<1> USE RolesDisjoint DEF Threads, Goto
<1>1. QueueTypes'
  BY DEF QueueInv, QueueTypes
<1>2. Ready'
  BY DEF QueueInv, QueueTypes, Ready
<1>3. pc'[t] = "look" /\ \A u \in Threads : u # t => pc'[u] = pc[u] /\ pos'[u] = pos[u]
  BY DEF QueueInv, QueueTypes
<1>4. QED
  BY <1>1, <1>2, <1>3, NoClaim

-----------------------------------------------------------------------------
(* A push claims position tail_: the window moves on by one cell.          *)
LEMMA PushClaimKeepsInv ==
  ASSUME QueueInv, Capacity > 1, NEW p \in Producers, PushClaim(p)
  PROVE  QueueInv'
<1> USE RolesDisjoint DEF QueueInv, QueueTypes, Threads, Goto, Writes, Reads
<1>1. CASE tail_' # tail_
  <2>1. /\ tail_ = pos[p] /\ tail_' = tail_ + 1 /\ pc[p] = "claim"
        /\ pc' = [pc EXCEPT ![p] = "write"] /\ order' = Append(order, item[p])
        /\ UNCHANGED <<head_, sequence, data, pos, item, todo>>
    BY <1>1 DEF PushClaim
  <2>2. sequence[Cell(tail_)] = tail_
    BY <2>1 DEF Ready
  <2>3. tail_ - Capacity < head_ /\ ~Reader(tail_ - Capacity) /\ ~Writer(tail_ - Capacity)
    BY <2>2, FreeCell
  <2>4. Capacity \in Nat
    BY CapacityPositive
  <2>5. QueueTypes'
    BY <2>1, <2>3, <2>4
  <2>6. /\ \A n : Reader(n)' <=> Reader(n)
        /\ \A n : Writer(n)' <=> Writer(n) \/ n = tail_
    BY <2>1 DEF Reader, Writer
  <2>7. Claims'
    BY <2>1, <2>3, <2>4 DEF Claims, Reader
  <2>8. Stages'
    <3> SUFFICES ASSUME NEW n \in Window' PROVE sequence'[Cell(n)] = Stage(n)'
      BY DEF Stages
    <3>1. CASE n = tail_
      BY <2>1, <2>2, <2>6, <3>1 DEF Stage
    <3>2. CASE n # tail_
      <4>1. n \in Window /\ sequence[Cell(n)] = Stage(n)
        BY <2>1, <2>4, <3>2 DEF Stages, Window
      <4>2. Stage(n)' = Stage(n)
        BY <2>1, <2>6, <3>2 DEF Stage
      <4>3. QED
        BY <2>1, <4>1, <4>2
    <3>3. QED
      BY <3>1, <3>2
  <2>9. Ready'
    BY <2>1 DEF Ready
  <2>10. QED
    BY <2>5, <2>7, <2>8, <2>9
<1>2. CASE tail_' = tail_
  <2>1. /\ pc[p] = "claim" /\ pos' = [pos EXCEPT ![p] = tail_] /\ Goto(p, "look")
        /\ p \in Threads /\ UNCHANGED <<tail_, head_, sequence, data, item, todo, order>>
    BY <1>2 DEF PushClaim
  <2> HIDE DEF QueueInv, QueueTypes, Goto
  <2>2. QED
    BY <2>1, RetriesKeepInv
<1>3. QED
  BY <1>1, <1>2

LEMMA PopClaimKeepsInv ==
  ASSUME QueueInv, Capacity > 1, NEW c \in Consumers, PopClaim(c)
  PROVE  QueueInv'
<1> USE RolesDisjoint DEF QueueInv, QueueTypes, Threads, Goto, Writes, Reads
<1>1. CASE head_' # head_
  <2>1. /\ head_ = pos[c] /\ head_' = head_ + 1 /\ pc[c] = "claim"
        /\ pc' = [pc EXCEPT ![c] = "read"]
        /\ UNCHANGED <<tail_, sequence, data, pos, item, todo, order>>
    BY <1>1 DEF PopClaim
  <2>2. sequence[Cell(head_)] = head_ + 1
    BY <2>1 DEF Ready
  <2>3. head_ < tail_ /\ ~Writer(head_) /\ head_ \in Window
    BY <2>2, FilledCell
  <2>4. Capacity \in Nat
    BY CapacityPositive
  <2>5. QueueTypes'
    BY <2>1, <2>3, <2>4
  <2>6. /\ \A n : Reader(n)' <=> Reader(n) \/ n = head_
        /\ \A n : Writer(n)' <=> Writer(n)
    BY <2>1 DEF Reader, Writer
  <2>7. Claims'
    BY <2>1, <2>3, <2>4 DEF Claims, Writer, Window
  <2>8. Stages'
    <3> SUFFICES ASSUME NEW n \in Window PROVE sequence'[Cell(n)] = Stage(n)'
      BY <2>1 DEF Stages, Window
    <3>1. CASE n = head_
      BY <2>1, <2>2, <2>6, <3>1 DEF Stage
    <3>2. CASE n # head_
      BY <2>1, <2>4, <2>6, <3>2 DEF Stages, Stage, Window
    <3>3. QED
      BY <3>1, <3>2
  <2>9. Ready'
    BY <2>1 DEF Ready
  <2>10. QED
    BY <2>5, <2>7, <2>8, <2>9
<1>2. CASE head_' = head_
  <2>1. /\ pc[c] = "claim" /\ pos' = [pos EXCEPT ![c] = head_] /\ Goto(c, "look")
        /\ c \in Threads /\ UNCHANGED <<tail_, head_, sequence, data, item, todo, order>>
    BY <1>2 DEF PopClaim
  <2> HIDE DEF QueueInv, QueueTypes, Goto
  <2>2. QED
    BY <2>1, RetriesKeepInv
<1>3. QED
  BY <1>1, <1>2

-----------------------------------------------------------------------------
LEMMA PushWriteKeepsInv ==
  ASSUME QueueInv, NEW p \in Producers, PushWrite(p)
  PROVE  QueueInv'
<1> USE RolesDisjoint DEF QueueInv, QueueTypes, Threads, Goto, Writes, Reads
<1>1. QueueTypes'
  <2>1. cell(p) \in Slots /\ item[p] \in Items
    BY CellType, CellOfThread DEF PushWrite
  <2>2. data' \in [Slots -> Items \cup {NULL}]
    BY <2>1 DEF PushWrite
  <2>3. UNCHANGED <<tail_, head_, sequence, pos, item, todo, order>> /\ pc' = [pc EXCEPT ![p] = "publish"]
    BY DEF PushWrite
  <2>4. /\ pc' \in [Threads -> {"out", "look", "claim", "write", "publish", "read", "release"}]
        /\ \A u \in Producers : pc'[u] \notin {"read", "release"}
        /\ \A d \in Consumers : pc'[d] = pc[d]
    BY <2>3
  <2>5. \A u \in Producers : pc'[u] # "out" => item'[u] \in Items
    BY <2>1, <2>3
  <2>6. QED
    BY <2>2, <2>3, <2>4, <2>5
<1>2. Ready'
  BY DEF PushWrite, Ready
<1>3. /\ p \in Threads /\ UNCHANGED <<tail_, head_, sequence>> /\ pos' = pos
      /\ \A u \in Threads : u # p => pc'[u] = pc[u]
      /\ pc'[p] \in {"publish"} /\ pc[p] \in {"write"}
  BY DEF PushWrite
<1> HIDE DEF QueueInv, QueueTypes
<1>4. QED
  BY <1>1, <1>2, <1>3, NoClaim

LEMMA PopReadKeepsInv ==
  ASSUME QueueInv, NEW c \in Consumers, PopRead(c)
  PROVE  QueueInv'
<1> USE RolesDisjoint DEF QueueInv, QueueTypes, Threads, Goto, Writes, Reads
<1>1. QueueTypes'
  <2>1. cell(c) \in Slots /\ c \in Threads
    BY CellType, CellOfThread DEF PopRead
  <2>2. data[cell(c)] \in Items \cup {NULL}
    BY <2>1
  <2>3. item' = [item EXCEPT ![c] = data[cell(c)]]
    BY DEF PopRead
  <2>4. /\ item' \in [Threads -> Items \cup {NULL}]
        /\ \A p \in Producers : item'[p] = item[p]
    BY <2>1, <2>2, <2>3
  <2>5. /\ UNCHANGED <<tail_, head_, sequence, data, pos, todo, order>>
        /\ pc' = [pc EXCEPT ![c] = "release"]
    BY DEF PopRead
  <2>6. /\ pc' \in [Threads -> {"out", "look", "claim", "write", "publish", "read", "release"}]
        /\ \A p \in Producers : pc'[p] = pc[p]
        /\ \A d \in Consumers : pc'[d] \notin {"write", "publish"}
    BY <2>1, <2>5
  <2>7. QED
    BY <2>4, <2>5, <2>6
<1>2. Ready'
  BY DEF PopRead, Ready
<1>3. /\ c \in Threads /\ UNCHANGED <<tail_, head_, sequence>> /\ pos' = pos
      /\ \A u \in Threads : u # c => pc'[u] = pc[u]
      /\ pc'[c] \in {"release"} /\ pc[c] \in {"read"}
  BY DEF PopRead
<1> HIDE DEF QueueInv, QueueTypes
<1>4. QED
  BY <1>1, <1>2, <1>3, NoClaim

(* The store of sequence by a claimer touches its own cell only.           *)
LEMMA StoreIsLocal ==
  ASSUME QueueInv, NEW n \in Window, NEW v \in Int,
         sequence' = [sequence EXCEPT ![Cell(n)] = v]
  PROVE  /\ sequence' \in [Slots -> Int]
         /\ sequence'[Cell(n)] = v
         /\ \A m \in Window : m # n => sequence'[Cell(m)] = sequence[Cell(m)]
<1>1. Capacity \in Nat /\ tail_ \in Nat /\ Window \subseteq Int
  BY CapacityPositive DEF QueueInv, QueueTypes, Window
<1>2. \A m \in Window : m < n + Capacity /\ n < m + Capacity
  BY <1>1 DEF Window
<1>3. \A m \in Window : Cell(m) \in Slots /\ (m # n => Cell(m) # Cell(n))
  BY <1>1, <1>2, CellType, CellDistinct
<1>4. QED
  BY <1>3 DEF QueueInv, QueueTypes

LEMMA PushPublishKeepsInv ==
  ASSUME QueueInv, Capacity > 1, NEW p \in Producers, PushPublish(p)
  PROVE  QueueInv'
<1> USE RolesDisjoint DEF QueueInv, QueueTypes, Threads, Goto, Writes, Reads
<1> DEFINE n == pos[p]
<1>1. /\ pc[p] = "publish" /\ pc' = [pc EXCEPT ![p] = "out"]
      /\ sequence' = [sequence EXCEPT ![Cell(n)] = n + 1]
      /\ item' = [item EXCEPT ![p] = NULL]
      /\ UNCHANGED <<tail_, head_, data, pos, todo, order>>
  BY CellOfThread DEF PushPublish
<1>2. Capacity \in Nat /\ n \in Nat /\ head_ <= n /\ n < tail_ /\ n \in Window
  BY <1>1, CapacityPositive DEF Claims, Window
<1>3. Writer(n) /\ sequence[Cell(n)] = n
  BY <1>1, <1>2 DEF Writer, Stages, Stage
<1>4. /\ sequence' \in [Slots -> Int] /\ sequence'[Cell(n)] = n + 1
      /\ \A m \in Window : m # n => sequence'[Cell(m)] = sequence[Cell(m)]
  <2> DEFINE v == n + 1
  <2>1. v \in Int
    BY <1>2
  <2> HIDE DEF n, v, QueueInv, QueueTypes
  <2>2. QED
    BY <1>1, <1>2, <2>1, StoreIsLocal DEF v
<1>5. QueueTypes'
  BY <1>1, <1>4
<1>6. Claims'
  BY <1>1 DEF Claims
<1>7. /\ \A m : Reader(m)' <=> Reader(m)
      /\ \A m : Writer(m)' <=> Writer(m) /\ m # n
  BY <1>1 DEF Reader, Writer, Claims
<1> HIDE DEF n
<1>8. Stages'
  <2> SUFFICES ASSUME NEW m \in Window PROVE sequence'[Cell(m)] = Stage(m)'
    BY <1>1 DEF Stages, Window
  <2>1. CASE m = n
    BY <1>1, <1>2, <1>4, <1>7, <2>1 DEF Stage
  <2>2. CASE m # n
    BY <1>1, <1>4, <1>7, <2>2 DEF Stages, Stage
  <2>3. QED
    BY <2>1, <2>2
<1>9. ASSUME sequence[Cell(tail_)] = tail_ PROVE sequence'[Cell(tail_)] = tail_
  <2>1. tail_ - Capacity \in Window /\ Cell(tail_ - Capacity) = Cell(tail_)
    BY <1>2, CellWraps DEF Window
  <2>2. tail_ - Capacity # n
    BY <1>3, <1>9, FreeCell
  <2>3. QED
    BY <1>4, <1>9, <2>1, <2>2
<1>10. ASSUME sequence[Cell(head_)] = head_ + 1 PROVE sequence'[Cell(head_)] = head_ + 1
  <2>1. head_ \in Window /\ head_ # n
    BY <1>3, <1>10, FilledCell
  <2>2. QED
    BY <1>4, <1>10, <2>1
<1>11. Ready'
  BY <1>1, <1>9, <1>10 DEF Ready
<1>12. QED
  BY <1>5, <1>6, <1>8, <1>11

LEMMA PopReleaseKeepsInv ==
  ASSUME QueueInv, Capacity > 1, NEW c \in Consumers, PopRelease(c)
  PROVE  QueueInv'
<1> USE RolesDisjoint DEF QueueInv, QueueTypes, Threads, Goto, Writes, Reads
<1> DEFINE n == pos[c]
<1>1. /\ pc[c] = "release" /\ pc' = [pc EXCEPT ![c] = "out"]
      /\ sequence' = [sequence EXCEPT ![Cell(n)] = n + Capacity]
      /\ UNCHANGED <<tail_, head_, data, pos, item, todo, order>>
  BY CellOfThread DEF PopRelease
<1>2. Capacity \in Nat /\ n \in Nat /\ n < head_ /\ n \in Window
  BY <1>1, CapacityPositive DEF Claims, Window
<1>3. Reader(n) /\ sequence[Cell(n)] = n + 1
  BY <1>1, <1>2 DEF Reader, Stages, Stage
<1>4. /\ sequence' \in [Slots -> Int] /\ sequence'[Cell(n)] = n + Capacity
      /\ \A m \in Window : m # n => sequence'[Cell(m)] = sequence[Cell(m)]
  <2> DEFINE v == n + Capacity
  <2>1. v \in Int
    BY <1>2
  <2> HIDE DEF n, v, QueueInv, QueueTypes
  <2>2. QED
    BY <1>1, <1>2, <2>1, StoreIsLocal DEF v
<1>5. QueueTypes'
  BY <1>1, <1>4
<1>6. Claims'
  BY <1>1 DEF Claims
<1>7. /\ \A m : Writer(m)' <=> Writer(m)
      /\ \A m : Reader(m)' <=> Reader(m) /\ m # n
  BY <1>1 DEF Reader, Writer, Claims
<1> HIDE DEF n
<1>8. Stages'
  <2> SUFFICES ASSUME NEW m \in Window PROVE sequence'[Cell(m)] = Stage(m)'
    BY <1>1 DEF Stages, Window
  <2>1. CASE m = n
    BY <1>1, <1>2, <1>4, <1>7, <2>1 DEF Stage
  <2>2. CASE m # n
    BY <1>1, <1>4, <1>7, <2>2 DEF Stages, Stage
  <2>3. QED
    BY <2>1, <2>2
<1>9. ASSUME sequence[Cell(tail_)] = tail_ PROVE sequence'[Cell(tail_)] = tail_
  <2>1. tail_ - Capacity \in Window /\ Cell(tail_ - Capacity) = Cell(tail_)
    BY <1>2, CellWraps DEF Window
  <2>2. tail_ - Capacity # n
    BY <1>3, <1>9, FreeCell
  <2>3. QED
    BY <1>4, <1>9, <2>1, <2>2
<1>10. ASSUME sequence[Cell(head_)] = head_ + 1 PROVE sequence'[Cell(head_)] = head_ + 1
  <2>1. head_ \in Window /\ head_ # n
    BY <1>2, <1>10, FilledCell
  <2>2. QED
    BY <1>4, <1>10, <2>1
<1>11. Ready'
  BY <1>1, <1>9, <1>10 DEF Ready
<1>12. QED
  BY <1>5, <1>6, <1>8, <1>11

LEMMA NextQueue ==
  ASSUME Capacity > 1, QueueInv, [Next]_queueVars
  PROVE  QueueInv'
<1>1. CASE UNCHANGED queueVars
  BY <1>1 DEF queueVars, QueueInv, QueueTypes, Claims, Stages, Stage, Ready, Window, Writer,
              Reader, Writes, Reads
<1>2. ASSUME NEW p \in Producers, todo # {}, PushCall(p, Min(todo)) PROVE QueueInv'
  <2>1. Min(todo) \in Items
    BY <1>2 DEF PushCall, QueueInv, QueueTypes
  <2>2. QED
    BY <1>2, <2>1, CallsKeepInv
<1>3. ASSUME NEW t \in Threads, ThreadStep(t) PROVE QueueInv'
  <2>1. CASE t \in Producers
    BY <1>3, <2>1, RolesDisjoint, LooksKeepInv, PushClaimKeepsInv, PushWriteKeepsInv,
       PushPublishKeepsInv
       DEF ThreadStep, PopLook, PopClaim, PopRead, PopRelease
  <2>2. CASE t \in Consumers
    BY <1>3, <2>2, RolesDisjoint, LooksKeepInv, PopClaimKeepsInv, PopReadKeepsInv,
       PopReleaseKeepsInv
       DEF ThreadStep, PushLook, PushClaim, PushWrite, PushPublish
  <2>3. QED
    BY <2>1, <2>2 DEF Threads
<1>4. QED
  BY <1>1, <1>2, <1>3, CallsKeepInv DEF Next

(* Between a claim and the store of sequence a cell belongs to one thread, *)
(* whatever the number of threads and however far the positions have gone  *)
(* round.                                                                  *)
THEOREM QueueCellExclusive == Capacity > 1 => (Spec => []CellExclusive)
<1> SUFFICES ASSUME Capacity > 1 PROVE Spec => []CellExclusive
  OBVIOUS
<1>1. QueueInv /\ [Next]_queueVars => QueueInv'
  BY NextQueue
<1>2. QED
  BY <1>1, InitQueue, InvExclusive, PTL DEF Spec

-----------------------------------------------------------------------------
(* What is in the cells: a claimed push holds the item of its position, an *)
(* item that was pushed and not popped is in its cell once it has been     *)
(* written, and one that was popped stays there until it has been read.    *)
Writing(n) == \E p \in Producers : pc[p] = "write" /\ pos[p] = n

Stored ==
  /\ \A p \in Producers : Writes(p) => item[p] = order[pos[p] + 1]
  /\ \A n \in head_ .. tail_ - 1 : ~Writing(n) => data[Cell(n)] = order[n + 1]
  /\ \A c \in Consumers : pc[c] = "read" => data[Cell(pos[c])] = order[pos[c] + 1]

LEMMA InitStored == Init => Stored
  BY DEF Init, Stored, Writes, Threads

(* A step that neither claims nor writes.                                  *)
LEMMA NothingWritten ==
  ASSUME QueueInv, Stored, UNCHANGED <<tail_, head_, data, order>>, NEW t \in Threads,
         \A u \in Threads : u # t => pc'[u] = pc[u] /\ pos'[u] = pos[u] /\ item'[u] = item[u],
         pc'[t] \notin {"read", "write", "publish"}, pc[t] # "write"
  PROVE  Stored'
<1>1. \A p \in Producers : pc'[p] \in {"write", "publish"} => item'[p] = order[pos'[p] + 1]
  BY DEF Stored, Writes, Threads
<1>2. \A n : Writing(n)' <=> Writing(n)
  BY DEF Writing, Threads
<1>3. \A c \in Consumers : pc'[c] = "read" => data[Cell(pos'[c])] = order[pos'[c] + 1]
  BY DEF Stored, Threads
<1>4. \A c \in Consumers : Cell(pos[c])' = Cell(pos'[c])
  BY DEF Cell
<1>5. QED
  BY <1>1, <1>2, <1>3, <1>4 DEF Stored, Writes

LEMMA NextStored ==
  ASSUME Capacity > 1, QueueInv, Stored, [Next]_queueVars
  PROVE  Stored'
<1> USE RolesDisjoint DEF Goto
<1>0. Producers \subseteq Threads /\ Consumers \subseteq Threads /\ QueueTypes
  BY DEF Threads, QueueInv
<1>1. ASSUME NEW p \in Producers, NEW x, PushCall(p, x) PROVE Stored'
  <2>1. /\ pc[p] = "out" /\ pc'[p] = "look" /\ UNCHANGED <<tail_, head_, data, order>>
        /\ \A u \in Threads : u # p => pc'[u] = pc[u] /\ pos'[u] = pos[u] /\ item'[u] = item[u]
    BY <1>0, <1>1 DEF PushCall, QueueTypes
  <2>2. QED
    BY <1>0, <2>1, NothingWritten
<1>2. ASSUME NEW c \in Consumers, PopCall(c) PROVE Stored'
  <2>1. /\ pc[c] = "out" /\ pc'[c] = "look" /\ UNCHANGED <<tail_, head_, data, order>>
        /\ \A u \in Threads : u # c => pc'[u] = pc[u] /\ pos'[u] = pos[u] /\ item'[u] = item[u]
    BY <1>0, <1>2 DEF PopCall, QueueTypes
  <2>2. QED
    BY <1>0, <2>1, NothingWritten
<1>3. ASSUME NEW t \in Threads, PushLook(t) \/ PopLook(t) PROVE Stored'
  <2>1. /\ pc[t] = "look" /\ pc'[t] \in {"out", "look", "claim"}
        /\ UNCHANGED <<tail_, head_, data, order>>
        /\ \A u \in Threads : u # t => pc'[u] = pc[u] /\ pos'[u] = pos[u] /\ item'[u] = item[u]
    BY <1>0, <1>3 DEF PushLook, PopLook, QueueTypes
  <2>2. QED
    BY <1>0, <2>1, NothingWritten
<1>4. ASSUME NEW p \in Producers, PushClaim(p) PROVE Stored'
  <2>1. CASE tail_' = tail_
    <3>1. /\ pc[p] = "claim" /\ pc'[p] = "look" /\ UNCHANGED <<tail_, head_, data, order>>
          /\ \A u \in Threads : u # p => pc'[u] = pc[u] /\ pos'[u] = pos[u] /\ item'[u] = item[u]
      BY <1>0, <1>4, <2>1 DEF PushClaim, QueueTypes
    <3>2. QED
      BY <1>0, <3>1, NothingWritten
  <2>2. CASE tail_' # tail_
    <3>1. /\ tail_ = pos[p] /\ tail_' = tail_ + 1 /\ pc[p] = "claim"
          /\ pc' = [pc EXCEPT ![p] = "write"] /\ order' = Append(order, item[p])
          /\ item[p] \in Items /\ UNCHANGED <<head_, data, pos, item>>
      BY <1>4, <1>0, <2>2 DEF PushClaim, QueueTypes
    <3>2. /\ order'[tail_ + 1] = item[p]
          /\ \A n \in 0 .. tail_ - 1 : order'[n + 1] = order[n + 1]
      BY <1>0, <3>1 DEF QueueTypes
    <3>3. \A q \in Producers : Writes(q)' => item'[q] = order'[pos'[q] + 1]
      BY <1>0, <3>1, <3>2 DEF Stored, Writes, QueueInv, QueueTypes, Claims
    <3>4. \A c \in Consumers : pc'[c] = "read" => data'[Cell(pos'[c])] = order'[pos'[c] + 1]
      BY <1>0, <3>1, <3>2 DEF Stored, Reads, QueueInv, QueueTypes, Claims
    <3>5. \A n \in head_ .. tail_ : ~Writing(n)' => n # tail_ /\ ~Writing(n)
      BY <1>0, <3>1 DEF Writing, QueueTypes
    <3>6. \A n \in head_ .. tail_' - 1 : ~Writing(n)' => data'[Cell(n)] = order'[n + 1]
      BY <1>0, <3>1, <3>2, <3>5 DEF Stored, QueueTypes
    <3>7. \A c \in Consumers : Cell(pos[c])' = Cell(pos'[c])
      BY DEF Cell
    <3>8. QED
      BY <3>1, <3>3, <3>4, <3>6, <3>7 DEF Stored
  <2>3. QED
    BY <2>1, <2>2
<1>5. ASSUME NEW c \in Consumers, PopClaim(c) PROVE Stored'
  <2>1. CASE head_' = head_
    <3>1. /\ pc[c] = "claim" /\ pc'[c] = "look" /\ UNCHANGED <<tail_, head_, data, order>>
          /\ \A u \in Threads : u # c => pc'[u] = pc[u] /\ pos'[u] = pos[u] /\ item'[u] = item[u]
      BY <1>0, <1>5, <2>1 DEF PopClaim, QueueTypes
    <3>2. QED
      BY <1>0, <3>1, NothingWritten
  <2>2. CASE head_' # head_
    <3>1. /\ head_ = pos[c] /\ head_' = head_ + 1 /\ pc[c] = "claim"
          /\ pc' = [pc EXCEPT ![c] = "read"]
          /\ UNCHANGED <<tail_, data, pos, item, order>>
      BY <1>5, <2>2 DEF PopClaim
    <3>2. head_ < tail_ /\ ~Writer(head_)
      BY <3>1, FilledCell DEF QueueInv, Ready
    <3>3. \A n : Writing(n)' <=> Writing(n)
      BY <1>0, <3>1 DEF Writing, QueueTypes
    <3>4. data[Cell(head_)] = order[head_ + 1]
      BY <1>0, <3>2 DEF Stored, Writing, Writer, Writes, QueueTypes
    <3>5. QED
      BY <1>0, <3>1, <3>3, <3>4 DEF Stored, Writes, QueueTypes, Cell
  <2>3. QED
    BY <2>1, <2>2
<1>6. ASSUME NEW p \in Producers, PushWrite(p) PROVE Stored'
  <2> DEFINE n == pos[p]
  <2>1. /\ pc[p] = "write" /\ pc' = [pc EXCEPT ![p] = "publish"]
        /\ data' = [data EXCEPT ![Cell(n)] = item[p]]
        /\ UNCHANGED <<tail_, head_, pos, item, order>>
    BY <1>6, CellOfThread DEF PushWrite
  <2>2. /\ n \in Nat /\ Capacity \in Nat /\ head_ <= n /\ n < tail_
        /\ item[p] = order[n + 1]
    BY <1>0, <2>1, CapacityPositive DEF QueueInv, QueueTypes, Claims, Stored, Writes
  <2> HIDE DEF n
  <2>3. \A m \in Window : m # n => data'[Cell(m)] = data[Cell(m)]
    <3>1. \A m \in Window : m \in Int /\ m < n + Capacity /\ n < m + Capacity
      BY <1>0, <2>2 DEF Window, QueueTypes
    <3>2. \A m \in Window : m # n => Cell(m) # Cell(n) /\ Cell(m) \in Slots
      BY <2>2, <3>1, CellDistinct, CellType
    <3>3. QED
      BY <1>0, <2>1, <3>2 DEF QueueTypes
  <2>4. data'[Cell(n)] = order[n + 1]
    BY <1>0, <2>1, <2>2, CellType DEF QueueTypes
  <2>5. \A m : m # n /\ ~Writing(m)' => ~Writing(m)
    BY <1>0, <2>1 DEF Writing, QueueTypes, n
  <2>6. \A m \in head_ .. tail_ - 1 : ~Writing(m)' => data'[Cell(m)] = order[m + 1]
    <3>1. \A m \in head_ .. tail_ - 1 : m \in Window
      BY <1>0, <2>2 DEF QueueTypes, Window
    <3>2. QED
      BY <2>3, <2>4, <2>5, <3>1 DEF Stored
  <2>7. \A c \in Consumers : pc'[c] = "read" => data'[Cell(pos[c])] = order[pos[c] + 1]
    <3>1. \A c \in Consumers : pc'[c] = "read" =>
             pc[c] = "read" /\ pos[c] \in Window /\ pos[c] # n
      BY <1>0, <2>1, <2>2 DEF QueueInv, QueueTypes, Claims, Reads, Window
    <3>2. QED
      BY <2>3, <3>1 DEF Stored
  <2>8. \A q \in Producers : Writes(q)' => item[q] = order[pos[q] + 1]
    BY <1>0, <2>1 DEF Stored, Writes, QueueTypes
  <2>9. QED
    BY <2>1, <2>6, <2>7, <2>8 DEF Stored, Cell
<1>7. ASSUME NEW p \in Producers, PushPublish(p) PROVE Stored'
  <2>1. /\ pc[p] = "publish" /\ pc'[p] = "out" /\ UNCHANGED <<tail_, head_, data, order>>
        /\ \A u \in Threads : u # p => pc'[u] = pc[u] /\ pos'[u] = pos[u] /\ item'[u] = item[u]
    BY <1>0, <1>7 DEF PushPublish, QueueTypes
  <2>2. QED
    BY <1>0, <2>1, NothingWritten
<1>8. ASSUME NEW c \in Consumers, PopRead(c) \/ PopRelease(c) PROVE Stored'
  <2>1. /\ pc[c] \in {"read", "release"} /\ pc'[c] \in {"release", "out"}
        /\ UNCHANGED <<tail_, head_, data, order>>
        /\ \A u \in Threads : u # c => pc'[u] = pc[u] /\ pos'[u] = pos[u] /\ item'[u] = item[u]
    BY <1>0, <1>8 DEF PopRead, PopRelease, QueueTypes
  <2>2. QED
    BY <1>0, <2>1, NothingWritten
<1>9. CASE UNCHANGED queueVars
  BY <1>9 DEF queueVars, Stored, Writing, Writes, Cell
<1>10. ASSUME NEW t \in Threads, ThreadStep(t) PROVE Stored'
  <2>1. t \in Producers \/ ~(PushClaim(t) \/ PushWrite(t) \/ PushPublish(t))
    BY DEF PushClaim, PushWrite, PushPublish
  <2>2. t \in Consumers \/ ~(PopClaim(t) \/ PopRead(t) \/ PopRelease(t))
    BY DEF PopClaim, PopRead, PopRelease
  <2>3. QED
    BY <1>3, <1>4, <1>5, <1>6, <1>7, <1>8, <1>10, <2>1, <2>2 DEF ThreadStep
<1>11. QED
  BY <1>1, <1>2, <1>9, <1>10 DEF Next

-----------------------------------------------------------------------------
(* The abstract queue and the consumers' last results, as Fifo sees them.  *)
Queued == [k \in 1 .. tail_ - head_ |-> order[head_ + k]]
Popped == [c \in Consumers |-> IF pc[c] = "read" THEN order[pos[c] + 1] ELSE item[c]]

LEMMA QueuedType ==
  ASSUME QueueInv
  PROVE  /\ Queued \in Seq(Items) /\ Len(Queued) = tail_ - head_
         /\ tail_ \in Nat /\ head_ \in Nat /\ tail_ - head_ \in Nat
<1>1. tail_ \in Nat /\ head_ \in Nat /\ tail_ - head_ \in Nat
  BY DEF QueueInv, QueueTypes
<1>2. \A k \in 1 .. tail_ - head_ : head_ + k \in 1 .. Len(order)
  BY <1>1 DEF QueueInv, QueueTypes
<1>3. \A k \in 1 .. tail_ - head_ : order[head_ + k] \in Items
  BY <1>2 DEF QueueInv, QueueTypes
<1>4. Queued \in [1 .. tail_ - head_ -> Items]
  BY <1>3 DEF Queued
<1>5. QED
  BY <1>1, <1>4, LenProperties

LEMMA PushClaimAppends ==
  ASSUME QueueInv, Capacity > 1, NEW p \in Producers, PushClaim(p), tail_' # tail_
  PROVE  /\ item[p] \in Items /\ Len(Queued) < Capacity
         /\ Queued' = Append(Queued, item[p]) /\ Popped' = Popped
<1>1. /\ tail_ = pos[p] /\ tail_' = tail_ + 1 /\ pc[p] = "claim"
      /\ pc' = [pc EXCEPT ![p] = "write"] /\ order' = Append(order, item[p])
      /\ item[p] \in Items /\ UNCHANGED <<head_, pos, item>>
  BY DEF PushClaim, Goto, QueueInv, QueueTypes
<1>2. tail_ - Capacity < head_ /\ Capacity \in Nat
  BY <1>1, FreeCell, CapacityPositive DEF QueueInv, Ready
<1>3. /\ Queued \in Seq(Items) /\ Len(Queued) = tail_ - head_
      /\ tail_ \in Nat /\ head_ \in Nat /\ tail_ - head_ \in Nat
  BY QueuedType
<1>4. order \in Seq(Items) /\ Len(order) = tail_
  BY DEF QueueInv, QueueTypes
<1>5. /\ order'[tail_ + 1] = item[p]
      /\ \A n \in 1 .. tail_ : order'[n] = order[n]
  BY <1>1, <1>3, <1>4
<1>6. Queued' = [k \in 1 .. (tail_ + 1) - head_ |-> order'[head_ + k]]
  BY <1>1 DEF Queued
<1>7. (tail_ + 1) - head_ = Len(Queued) + 1
  BY <1>3
<1>8. \A k \in 1 .. Len(Queued) : Queued'[k] = Queued[k]
  <2>1. \A k \in 1 .. Len(Queued) : head_ + k \in 1 .. tail_ /\ k \in 1 .. (tail_ + 1) - head_
    BY <1>3
  <2>2. \A k \in 1 .. Len(Queued) : Queued[k] = order[head_ + k]
    BY <1>3 DEF Queued
  <2>3. QED
    BY <1>5, <1>6, <2>1, <2>2
<1>9. Queued'[Len(Queued) + 1] = item[p]
  <2>1. head_ + (Len(Queued) + 1) = tail_ + 1 /\ Len(Queued) + 1 \in 1 .. Len(Queued) + 1
    BY <1>3
  <2>2. QED
    BY <1>5, <1>6, <1>7, <2>1
<1>10. Queued' = [k \in 1 .. Len(Queued) + 1 |-> Queued'[k]]
  BY <1>6, <1>7
<1>11. Queued' = Append(Queued, item[p])
  BY <1>1, <1>3, <1>8, <1>9, <1>10, IsAppend
<1>12. Popped' = Popped
  <2>1. ASSUME NEW c \in Consumers, pc[c] = "read" PROVE order'[pos[c] + 1] = order[pos[c] + 1]
    <3>1. pos[c] + 1 \in 1 .. tail_
      BY <1>3, <2>1 DEF QueueInv, QueueTypes, Claims, Reads, Threads
    <3>2. QED
      BY <1>5, <3>1
  <2>2. \A c \in Consumers : pc'[c] = pc[c]
    BY <1>1, RolesDisjoint DEF QueueInv, QueueTypes, Threads
  <2>3. QED
    BY <1>1, <2>1, <2>2 DEF Popped
<1>13. Len(Queued) < Capacity
  BY <1>2, <1>3
<1>14. QED
  BY <1>1, <1>11, <1>12, <1>13

LEMMA PopClaimTakesHead ==
  ASSUME QueueInv, Capacity > 1, NEW c \in Consumers, PopClaim(c), head_' # head_
  PROVE  /\ Queued # <<>> /\ Queued' = Tail(Queued)
         /\ Popped' = [Popped EXCEPT ![c] = Head(Queued)]
<1>1. /\ head_ = pos[c] /\ head_' = head_ + 1 /\ pc[c] = "claim"
      /\ pc' = [pc EXCEPT ![c] = "read"] /\ UNCHANGED <<tail_, pos, item, order>>
  BY DEF PopClaim, Goto
<1>2. head_ < tail_
  BY <1>1, FilledCell DEF QueueInv, Ready
<1>3. /\ Queued \in Seq(Items) /\ Len(Queued) = tail_ - head_
      /\ tail_ \in Nat /\ head_ \in Nat /\ tail_ - head_ \in Nat
  BY QueuedType
<1>4. Queued' = [k \in 1 .. tail_ - (head_ + 1) |-> order[(head_ + 1) + k]]
  BY <1>1 DEF Queued
<1>5. tail_ - (head_ + 1) = Len(Queued) - 1 /\ Len(Queued) > 0
  BY <1>2, <1>3
<1>6. ASSUME NEW k \in 1 .. Len(Queued) - 1 PROVE Queued'[k] = Queued[k + 1]
  <2>1. (head_ + 1) + k = head_ + (k + 1) /\ k + 1 \in 1 .. tail_ - head_
    BY <1>3
  <2>2. Queued[k + 1] = order[head_ + (k + 1)]
    BY <2>1 DEF Queued
  <2>3. QED
    BY <1>4, <1>5, <2>1, <2>2
<1>7. Queued' = [k \in 1 .. Len(Queued) - 1 |-> Queued'[k]]
  BY <1>4, <1>5
<1>8. Queued' = Tail(Queued) /\ Queued # <<>> /\ Head(Queued) = Queued[1]
  BY <1>3, <1>5, <1>6, <1>7, IsTail
<1>9. Queued[1] = order[head_ + 1]
  BY <1>3, <1>5 DEF Queued
<1>10. Popped' = [Popped EXCEPT ![c] = Head(Queued)]
  BY <1>1, <1>8, <1>9 DEF Popped, QueueInv, QueueTypes, Threads
<1>11. QED
  BY <1>8, <1>10

(* The steps the abstract queue does not see.                              *)
LEMMA QueueStutters ==
  ASSUME QueueInv, Stored, UNCHANGED <<tail_, head_>>, [Next]_queueVars
  PROVE  Queued' = Queued /\ Popped' = Popped
<1> USE RolesDisjoint DEF Goto
<1>1. UNCHANGED order
  BY DEF Next, ThreadStep, queueVars, PushCall, PushLook, PushClaim, PushWrite, PushPublish,
         PopCall, PopLook, PopClaim, PopRead, PopRelease, QueueInv, QueueTypes
<1>2. ASSUME NEW c \in Consumers
      PROVE  (IF pc'[c] = "read" THEN order[pos'[c] + 1] ELSE item'[c])
               = (IF pc[c] = "read" THEN order[pos[c] + 1] ELSE item[c])
  <2>1. CASE \E t \in Threads : PopRead(t)
    <3>1. PICK t \in Threads : PopRead(t)
      BY <2>1
    <3>2. data[cell(t)] = order[pos[t] + 1]
      BY <3>1, CellOfThread DEF Stored, PopRead
    <3>3. QED
      BY <3>1, <3>2 DEF PopRead, QueueInv, QueueTypes, Threads
  <2>2. CASE ~\E t \in Threads : PopRead(t)
    <3>1. /\ item'[c] = item[c]
          /\ pc'[c] = "read" <=> pc[c] = "read"
          /\ pc[c] = "read" => pos'[c] = pos[c]
      <4>1. CASE UNCHANGED queueVars
        BY <4>1 DEF queueVars
      <4>2. ASSUME NEW t \in Threads, ThreadStep(t) PROVE <3>1!:
        <5>1. CASE PushLook(t) \/ PushClaim(t) \/ PushWrite(t) \/ PushPublish(t)
          BY <5>1 DEF PushLook, PushClaim, PushWrite, PushPublish, QueueInv, QueueTypes, Threads
        <5>2. CASE PopLook(t)
          BY <5>2 DEF PopLook, QueueInv, QueueTypes, Threads
        <5>3. CASE PopClaim(t)
          BY <5>3 DEF PopClaim, QueueInv, QueueTypes, Threads
        <5>4. CASE PopRelease(t)
          BY <5>4 DEF PopRelease, QueueInv, QueueTypes, Threads
        <5>5. QED
          BY <2>2, <4>2, <5>1, <5>2, <5>3, <5>4 DEF ThreadStep
      <4>3. ASSUME NEW p \in Producers, NEW x, PushCall(p, x) PROVE <3>1!:
        BY <4>3 DEF PushCall, QueueInv, QueueTypes, Threads
      <4>4. ASSUME NEW d \in Consumers, PopCall(d) PROVE <3>1!:
        BY <4>4 DEF PopCall, QueueInv, QueueTypes, Threads
      <4>5. QED
        BY <4>1, <4>2, <4>3, <4>4 DEF Next
    <3>2. QED
      BY <3>1
  <2>3. QED
    BY <2>1, <2>2
<1>3. QED
  BY <1>1, <1>2 DEF Queued, Popped

(* The lock-free queue is a bounded FIFO: with any number of producers and *)
(* consumers nothing is lost, handed out twice or overtaken, and what a    *)
(* pop reads from its cell is the item of the position it claimed.         *)
THEOREM QueueRefinesFifo == Capacity > 1 => (Spec => ImplementsFifo)
<1> SUFFICES ASSUME Capacity > 1 PROVE Spec => ImplementsFifo
  OBVIOUS
<1>1. Init => Fifo!Init
  BY CapacityPositive DEF Init, Fifo!Init, Threads
<1>2. QueueInv /\ Stored /\ [Next]_queueVars => [Fifo!Next]_Fifo!fifoVars
  <2> SUFFICES ASSUME QueueInv, Stored, [Next]_queueVars
               PROVE  [Fifo!Next]_Fifo!fifoVars
    OBVIOUS
  <2>1. CASE UNCHANGED <<tail_, head_>>
    <3>1. Queued' = Queued /\ Popped' = Popped
      BY <2>1, QueueStutters
    <3>2. QED
      BY <3>1 DEF Fifo!fifoVars, Queued, Popped
  <2>2. CASE tail_' # tail_
    <3>1. PICK p \in Producers : PushClaim(p)
      BY <2>2 DEF Next, ThreadStep, queueVars, PushCall, PushLook, PushClaim, PushWrite,
                  PushPublish, PopCall, PopLook, PopClaim, PopRead, PopRelease
    <3>2. PICK x \in Items : x = item[p]
      BY <2>2, <3>1, PushClaimAppends
    <3>3. Fifo!Push(x)
      BY <2>2, <3>1, <3>2, PushClaimAppends DEF Fifo!Push, Queued, Popped
    <3>4. QED
      BY <3>3 DEF Fifo!Next
  <2>3. CASE head_' # head_
    <3>1. PICK c \in Consumers : PopClaim(c)
      BY <2>3 DEF Next, ThreadStep, queueVars, PushCall, PushLook, PushClaim, PushWrite,
                  PushPublish, PopCall, PopLook, PopClaim, PopRead, PopRelease
    <3>2. Fifo!Pop(c)
      BY <2>3, <3>1, PopClaimTakesHead DEF Fifo!Pop, Queued, Popped
    <3>3. QED
      BY <3>2 DEF Fifo!Next
  <2>4. QED
    BY <2>1, <2>2, <2>3
<1>3. QueueInv /\ [Next]_queueVars => QueueInv'
  BY NextQueue
<1>4. QueueInv /\ Stored /\ [Next]_queueVars => Stored'
  BY NextStored
<1>5. QED
  BY <1>1, <1>2, <1>3, <1>4, InitQueue, InitStored, PTL DEF Spec, ImplementsFifo, Fifo!Spec
=============================================================================
