---------------------------- MODULE LockFreeQueue ----------------------------
(***************************************************************************)
(* include/LockFreeQueue.h: Vyukov's bounded MPMC queue.  Every load,      *)
(* store and CAS of push and pop is a step of its own, interleaved freely. *)
(* Positions are the code's 64-bit counters; each producer's pushes are    *)
(* bounded by the items it is given, so they never wrap here (2^64 pushes  *)
(* would be needed).                                                       *)
(***************************************************************************)
EXTENDS Common, FiniteSetsExt

CONSTANT Capacity  \* buffer_.size(), a power of two

ASSUME CapacityPositive == Capacity \in Nat \ {0}

VARIABLES
  tail_, head_,
  sequence, data,  \* the cells: buffer_[i].sequence and buffer_[i].data
  pc,              \* where each thread is in push or pop
  pos,             \* its local pos
  item,            \* what a producer pushes; what a consumer's pop returned
  todo,            \* items not pushed yet; each is pushed once (a bound)
  order            \* history: the item whose push claimed each position

queueVars == <<tail_, head_, sequence, data, pc, pos, item, todo, order>>

Threads == Producers \cup Consumers
Slots == 0 .. Capacity - 1

(* pos & mask_                                                             *)
cell(p) == pos[p] % Capacity

Goto(t, l) == pc' = [pc EXCEPT ![t] = l]

Init ==
  /\ tail_ = 0
  /\ head_ = 0
  /\ sequence = [i \in Slots |-> i]
  /\ data = [i \in Slots |-> NULL]
  /\ pc = [t \in Threads |-> "out"]
  /\ pos = [t \in Threads |-> 0]
  /\ item = [t \in Threads |-> NULL]
  /\ todo = Items
  /\ order = <<>>

-----------------------------------------------------------------------------
(* push                                                                    *)

PushCall(p, x) ==
  /\ pc[p] = "out"
  /\ x \in todo
  /\ todo' = todo \ {x}
  /\ item' = [item EXCEPT ![p] = x]
  /\ pos' = [pos EXCEPT ![p] = tail_]
  /\ Goto(p, "look")
  /\ UNCHANGED <<tail_, head_, sequence, data, order>>

(* The three outcomes of dif; a full queue refuses and the caller keeps    *)
(* the item for another call.                                              *)
PushLook(p) ==
  LET dif == sequence[cell(p)] - pos[p]
  IN  /\ p \in Producers /\ pc[p] = "look"
      /\ \/ /\ dif = 0
            /\ Goto(p, "claim")
            /\ UNCHANGED <<pos, item, todo>>
         \/ /\ dif < 0
            /\ Goto(p, "out")
            /\ todo' = todo \cup {item[p]}
            /\ item' = [item EXCEPT ![p] = NULL]
            /\ UNCHANGED pos
         \/ /\ dif > 0
            /\ pos' = [pos EXCEPT ![p] = tail_]
            /\ UNCHANGED <<pc, item, todo>>
      /\ UNCHANGED <<tail_, head_, sequence, data, order>>

(* Mutant: tail_ is stored, not compared and exchanged.                    *)
PushClaimStore(p) ==
  /\ p \in Producers /\ pc[p] = "claim"
  /\ tail_' = pos[p] + 1
  /\ order' = Append(order, item[p])
  /\ Goto(p, "write")
  /\ UNCHANGED <<pos, head_, sequence, data, item, todo>>

(* compare_exchange_weak: success claims the position; failure, spurious   *)
(* ones included, reloads tail_ and looks again.                           *)
PushClaim(p) ==
  /\ p \in Producers /\ pc[p] = "claim"
  /\ \/ /\ tail_ = pos[p]
        /\ tail_' = tail_ + 1
        /\ order' = Append(order, item[p])
        /\ Goto(p, "write")
        /\ UNCHANGED pos
     \/ /\ pos' = [pos EXCEPT ![p] = tail_]
        /\ Goto(p, "look")
        /\ UNCHANGED <<tail_, order>>
  /\ UNCHANGED <<head_, sequence, data, item, todo>>

PushWrite(p) ==
  /\ p \in Producers /\ pc[p] = "write"
  /\ data' = [data EXCEPT ![cell(p)] = item[p]]
  /\ Goto(p, "publish")
  /\ UNCHANGED <<tail_, head_, sequence, pos, item, todo, order>>

PushPublish(p) ==
  /\ p \in Producers /\ pc[p] = "publish"
  /\ sequence' = [sequence EXCEPT ![cell(p)] = pos[p] + 1]
  /\ item' = [item EXCEPT ![p] = NULL]
  /\ Goto(p, "out")
  /\ UNCHANGED <<tail_, head_, data, pos, todo, order>>

-----------------------------------------------------------------------------
(* pop                                                                     *)

PopCall(c) ==
  /\ c \in Consumers /\ pc[c] = "out"
  /\ pos' = [pos EXCEPT ![c] = head_]
  /\ Goto(c, "look")
  /\ UNCHANGED <<tail_, head_, sequence, data, item, todo, order>>

PopLook(c) ==
  LET dif == sequence[cell(c)] - (pos[c] + 1)
  IN  /\ c \in Consumers /\ pc[c] = "look"
      /\ \/ /\ dif = 0
            /\ Goto(c, "claim")
            /\ UNCHANGED pos
         \/ /\ dif < 0
            /\ Goto(c, "out")
            /\ UNCHANGED pos
         \/ /\ dif > 0
            /\ pos' = [pos EXCEPT ![c] = head_]
            /\ UNCHANGED pc
      /\ UNCHANGED <<tail_, head_, sequence, data, item, todo, order>>

(* Mutant: the cell is handed back before its data has been read.          *)
PopClaimReleases(c) ==
  /\ c \in Consumers /\ pc[c] = "claim"
  /\ \/ /\ head_ = pos[c]
        /\ head_' = head_ + 1
        /\ sequence' = [sequence EXCEPT ![cell(c)] = pos[c] + Capacity]
        /\ Goto(c, "read")
        /\ UNCHANGED pos
     \/ /\ pos' = [pos EXCEPT ![c] = head_]
        /\ Goto(c, "look")
        /\ UNCHANGED <<head_, sequence>>
  /\ UNCHANGED <<tail_, data, item, todo, order>>

PopClaim(c) ==
  /\ c \in Consumers /\ pc[c] = "claim"
  /\ \/ /\ head_ = pos[c]
        /\ head_' = head_ + 1
        /\ Goto(c, "read")
        /\ UNCHANGED pos
     \/ /\ pos' = [pos EXCEPT ![c] = head_]
        /\ Goto(c, "look")
        /\ UNCHANGED head_
  /\ UNCHANGED <<tail_, sequence, data, item, todo, order>>

PopRead(c) ==
  /\ c \in Consumers /\ pc[c] = "read"
  /\ item' = [item EXCEPT ![c] = data[cell(c)]]
  /\ Goto(c, "release")
  /\ UNCHANGED <<tail_, head_, sequence, data, pos, todo, order>>

PopRelease(c) ==
  /\ c \in Consumers /\ pc[c] = "release"
  /\ sequence' = [sequence EXCEPT ![cell(c)] = pos[c] + Capacity]
  /\ Goto(c, "out")
  /\ UNCHANGED <<tail_, head_, data, pos, item, todo, order>>

-----------------------------------------------------------------------------
ThreadStep(t) ==
  \/ PushLook(t) \/ PushClaim(t) \/ PushWrite(t) \/ PushPublish(t)
  \/ PopLook(t) \/ PopClaim(t) \/ PopRead(t) \/ PopRelease(t)

(* Items are interchangeable: a push takes the smallest one left.          *)
Next == \/ \E p \in Producers : todo # {} /\ PushCall(p, Min(todo))
        \/ \E c \in Consumers : PopCall(c)
        \/ \E t \in Threads : ThreadStep(t)

Spec == Init /\ [][Next]_queueVars

-----------------------------------------------------------------------------
(* Two threads never touch the plain field data of one cell at a time:     *)
(* between a claim and the store of sequence the cell is the claimer's.    *)
CellExclusive ==
  \A t, u \in Threads :
    /\ t # u
    /\ pc[t] \in {"write", "publish", "read", "release"}
    /\ pc[u] \in {"write", "publish", "read", "release"}
    => cell(t) # cell(u)

(* Refinement: an item enters the queue when its push claims a position    *)
(* and leaves it when a pop does; what that pop then reads is its item.    *)
Fifo == INSTANCE BoundedFifo
          WITH capacity <- Capacity,
               q   <- [k \in 1 .. tail_ - head_ |-> order[head_ + k]],
               out <- [c \in Consumers |->
                         IF pc[c] = "read" THEN order[pos[c] + 1] ELSE item[c]]

ImplementsFifo == Fifo!Spec
=============================================================================
