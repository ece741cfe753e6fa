-------------------------- MODULE WorkStealingQueue --------------------------
(***************************************************************************)
(* include/WorkStealingQueue.h: QueueWorker, the owner, pushes and pops at *)
(* bottom_ and replaces a full array by one of twice its size; QueueStealer*)
(* takes at top.  Thieves never see bottom_: a cell's round tells them     *)
(* whether it is filled.  LightEpoch keeps them out while the array is     *)
(* replaced; each of its steps is taken here together with the queue's.    *)
(*                                                                         *)
(* One atomic access per step.  The owner's stores to cells are modelled   *)
(* as reaching memory at once: a thief that does not see one yet sees an   *)
(* unfilled cell, as it would have a moment earlier, and array_ is stored  *)
(* before the store that reopens the gate.  As on x86, compare_exchange    *)
(* fails only when the value differs.                                      *)
(***************************************************************************)
EXTENDS LightEpoch

CONSTANTS InitialCapacity,  \* of the first array, a power of two
          MaxPush,          \* pushes of one behaviour (a bound)
          MaxBatch,         \* the largest max of a stealBatch
          NULL

ASSUME InitialCapacityPositive == InitialCapacity \in Nat \ {0}
ASSUME BoundsNatural == MaxPush \in Nat /\ MaxBatch \in Nat
ASSUME NullIsNoItem == NULL \notin 1 .. MaxPush

Items == 1 .. MaxPush       \* in the order in which they are pushed

VARIABLES top, array_, cells,  \* QueueShared: array_ numbers the arrays, cells is
                               \* the content of the current one
          bottom_,
          wpc, wt,             \* the owner: where it is; its local t
          item,                \* the item it pushes last
          spc, st, sa,         \* each thief: where it is in stealLocked; its t and a
          quota,               \* items a thief's call may still take; 0 in empty()
          handed,              \* history: how often each item was taken or deleted
          raced                \* history: pop and a thief went for the same position

epochVars == <<gate_, active_, buffer, opc, tpc>>
ownerVars == <<bottom_, wpc, wt, item>>
thiefVars == <<spc, st, sa, quota>>
history == <<handed, raced>>
queueVars == <<top, array_, cells, ownerVars, thiefVars, history>>
allVars == <<epochVars, queueVars>>

Empty == [data |-> NULL, round |-> 0]
capacity == Cardinality(DOMAIN cells)
Index(p) == p % capacity
At(p) == cells[Index(p)]

QueueInit ==
  /\ Init
  /\ top = 0
  /\ array_ = 0
  /\ cells = [i \in 0 .. InitialCapacity - 1 |-> Empty]
  /\ bottom_ = 0
  /\ wpc = "idle" /\ wt = 0 /\ item = 0
  /\ spc = [t \in Thieves |-> "top"]
  /\ st = [t \in Thieves |-> 0]
  /\ sa = [t \in Thieves |-> 0]
  /\ quota = [t \in Thieves |-> 0]
  /\ handed = [x \in Items |-> 0]
  /\ raced = FALSE

Worker(from, to) == wpc = from /\ wpc' = to

(* Mutant: the pointer is read and stays in its cell.                      *)
ExchangeNot(p) == UNCHANGED cells

(* data.exchange(nullptr): what was there is the caller's.                 *)
Exchange(p) == cells' = [cells EXCEPT ![Index(p)].data = NULL]

(* The exchange of a consumer: at most one gets the item, the others find  *)
(* nothing.                                                                *)
Take(p) == /\ Exchange(p)
           /\ handed' = [x \in Items |-> handed[x] + (IF x = At(p).data THEN 1 ELSE 0)]

(* The compare_exchange on round: it is cleared only if it is still p's.   *)
ClearRound(p) ==
  cells' = IF At(p).round = p + 1 THEN [cells EXCEPT ![Index(p)].round = 0] ELSE cells

-----------------------------------------------------------------------------
(* The owner: push.                                                        *)

PushCall ==
  /\ item < MaxPush
  /\ Worker("idle", "push")
  /\ item' = item + 1
  /\ UNCHANGED <<epochVars, top, array_, cells, bottom_, wt, thiefVars, history>>

(* tryPushFast's look at top.                                              *)
PushLook ==
  /\ Worker("push", IF bottom_ - top >= capacity THEN "grow" ELSE "write")
  /\ UNCHANGED <<epochVars, top, array_, cells, bottom_, wt, item, thiefVars, history>>

(* It waits until the cell's last consumer has emptied it.                 *)
PushWrite ==
  /\ At(bottom_).data = NULL
  /\ Worker("write", "publish")
  /\ cells' = [cells EXCEPT ![Index(bottom_)].data = item]
  /\ UNCHANGED <<epochVars, top, array_, bottom_, wt, item, thiefVars, history>>

PushPublish ==
  /\ Worker("publish", "idle")
  /\ cells' = [cells EXCEPT ![Index(bottom_)].round = bottom_ + 1]
  /\ bottom_' = bottom_ + 1
  /\ UNCHANGED <<epochVars, top, array_, wt, item, thiefVars, history>>

(* grow: the window is opened by LightEpoch's steps.                       *)
OpenWindow ==
  /\ wpc = "grow"
  /\ Close \/ Fence \/ AwaitQuiet
  /\ UNCHANGED queueVars

(* Mutant: the oldest item is left in the old array.                       *)
MovedPositionsShort == top + 1 .. bottom_ - 1

MovedPositions == top .. bottom_ - 1

(* The cell of the new array; grow takes over the items of [top, bottom_). *)
Moved(i) ==
  LET here == {p \in MovedPositions : p % (2 * capacity) = i /\ At(p).data # NULL}
  IN  IF here = {} THEN Empty
      ELSE LET p == CHOOSE p \in here : TRUE
           IN  [data |-> At(p).data, round |-> p + 1]

(* In the window: move, publish array_, delete the old array.              *)
Grow ==
  /\ opc = "window"
  /\ Worker("grow", "grown")
  /\ cells' = [i \in 0 .. 2 * capacity - 1 |-> Moved(i)]
  /\ array_' = array_ + 1
  /\ UNCHANGED <<epochVars, top, bottom_, wt, item, thiefVars, history>>

(* The window closes and pushSlow tries again.                             *)
CloseWindow ==
  /\ Worker("grown", "push")
  /\ Open
  /\ UNCHANGED <<top, array_, cells, bottom_, wt, item, thiefVars, history>>

-----------------------------------------------------------------------------
(* The owner: pop.                                                         *)

(* More than one item in sight of the load of top.                         *)
NoCompetition == bottom_ - 1 > top

(* pop's look at top; nothing to pop changes nothing.                      *)
PopLook ==
  /\ bottom_ > 0 /\ bottom_ - 1 >= top
  /\ Worker("idle", IF NoCompetition THEN "take" ELSE "cas")
  /\ wt' = top
  /\ UNCHANGED <<epochVars, top, array_, cells, bottom_, item, thiefVars, history>>

PopTake ==
  LET p == bottom_ - 1
  IN  /\ Worker("take", IF At(p).data = NULL THEN "idle" ELSE "clear")
      /\ Take(p)
      /\ raced' = (raced \/ (At(p).data # NULL /\ top > p))
      /\ wt' = 0
      /\ UNCHANGED <<epochVars, top, array_, bottom_, item, thiefVars>>

PopClear ==
  /\ Worker("clear", "idle")
  /\ ClearRound(bottom_ - 1)
  /\ bottom_' = bottom_ - 1
  /\ UNCHANGED <<epochVars, top, array_, wt, item, thiefVars, history>>

(* The last item: whoever advances top has it.                             *)
PopLastCas ==
  /\ \/ top = wt /\ Worker("cas", "lastTake") /\ top' = top + 1 /\ UNCHANGED wt
     \/ top # wt /\ Worker("cas", "idle") /\ UNCHANGED top /\ wt' = 0
  /\ UNCHANGED <<epochVars, array_, cells, bottom_, item, thiefVars, history>>

PopLastTake ==
  /\ Worker("lastTake", IF At(wt).data = NULL THEN "idle" ELSE "lastClear")
  /\ Take(wt)
  /\ bottom_' = wt + 1
  /\ wt' = IF At(wt).data = NULL THEN 0 ELSE wt
  /\ UNCHANGED <<epochVars, top, array_, item, thiefVars, raced>>

PopLastClear ==
  /\ Worker("lastClear", "idle")
  /\ ClearRound(wt)
  /\ wt' = 0
  /\ UNCHANGED <<epochVars, top, array_, bottom_, item, thiefVars, history>>

-----------------------------------------------------------------------------
(* Thieves: steal (n = 1), stealBatch (n > 1), empty (n = 0).              *)

Steals(t, from, to) ==
  /\ tpc[t] = "inside" /\ spc[t] = from
  /\ spc' = [spc EXCEPT ![t] = to]

StealCall(t, n) ==
  /\ wpc # "gone"
  /\ Enter(t)
  /\ quota' = [quota EXCEPT ![t] = n]
  /\ UNCHANGED <<top, array_, cells, ownerVars, spc, st, sa, history>>

(* Guard's constructor.                                                    *)
StealEnter(t) ==
  /\ CheckGate(t) \/ Register(t) \/ RecheckGate(t) \/ Undo(t)
  /\ UNCHANGED queueVars

StealTop(t) ==
  /\ Steals(t, "top", "array")
  /\ st' = [st EXCEPT ![t] = top]
  /\ UNCHANGED <<epochVars, top, array_, cells, ownerVars, sa, quota, history>>

StealArray(t) ==
  /\ Steals(t, "array", "round")
  /\ sa' = [sa EXCEPT ![t] = array_]
  /\ UNCHANGED <<epochVars, top, array_, cells, ownerVars, st, quota, history>>

(* The cell is filled for this position, or the call is over; empty() is   *)
(* over in any case.                                                       *)
StealRound(t) ==
  /\ Steals(t, "round", IF At(st[t]).round = st[t] + 1 /\ quota[t] > 0 THEN "cas" ELSE "done")
  /\ UNCHANGED <<epochVars, top, array_, cells, ownerVars, st, sa, quota, history>>

StealCas(t) ==
  /\ \/ top = st[t] /\ Steals(t, "cas", "take") /\ top' = top + 1
     \/ top # st[t] /\ Steals(t, "cas", "done") /\ UNCHANGED top
  /\ UNCHANGED <<epochVars, array_, cells, ownerVars, st, sa, quota, history>>

StealTake(t) ==
  /\ Steals(t, "take", IF At(st[t]).data = NULL THEN "done" ELSE "clear")
  /\ Take(st[t])
  /\ raced' = (raced \/ At(st[t]).data = NULL)
  /\ UNCHANGED <<epochVars, top, array_, ownerVars, st, sa, quota>>

StealClear(t) ==
  /\ Steals(t, "clear", IF quota[t] > 1 THEN "top" ELSE "done")
  /\ ClearRound(st[t])
  /\ quota' = [quota EXCEPT ![t] = @ - 1]
  /\ UNCHANGED <<epochVars, top, array_, ownerVars, st, sa, history>>

(* Guard's destructor; the call's locals are gone.                         *)
StealReturn(t) ==
  /\ Steals(t, "done", "top")
  /\ Exit(t)
  /\ st' = [st EXCEPT ![t] = 0]
  /\ sa' = [sa EXCEPT ![t] = 0]
  /\ quota' = [quota EXCEPT ![t] = 0]
  /\ UNCHANGED <<top, array_, cells, ownerVars, history>>

-----------------------------------------------------------------------------
(* ~QueueShared, when neither the owner nor a thief refers to it any more. *)
Destroy ==
  /\ Worker("idle", "gone")
  /\ \A t \in Thieves : tpc[t] = "out"
  /\ handed' = [x \in Items |->
       handed[x] + (IF \E i \in DOMAIN cells : cells[i].data = x THEN 1 ELSE 0)]
  /\ cells' = [i \in DOMAIN cells |-> [cells[i] EXCEPT !.data = NULL]]
  /\ UNCHANGED <<epochVars, top, array_, bottom_, wt, item, thiefVars, raced>>

Push == PushLook \/ PushWrite \/ PushPublish \/ OpenWindow \/ Grow \/ CloseWindow

Pop == PopTake \/ PopClear \/ PopLastCas \/ PopLastTake \/ PopLastClear

Steal(t) == \/ StealEnter(t) \/ StealTop(t) \/ StealArray(t) \/ StealRound(t)
            \/ StealCas(t) \/ StealTake(t) \/ StealClear(t) \/ StealReturn(t)

StoreDrains == Drain /\ UNCHANGED queueVars

QueueNext ==
  \/ PushCall \/ Push \/ PopLook \/ Pop \/ Destroy
  \/ \E t \in Thieves : Steal(t) \/ \E n \in 0 .. MaxBatch : StealCall(t, n)
  \/ StoreDrains

QueueSpec == QueueInit /\ [][QueueNext]_allVars

(* Threads inside a call keep running, and stores reach memory.            *)
QueueFairSpec ==
  /\ QueueSpec
  /\ WF_allVars(Push \/ Pop)
  /\ \A t \in Thieves : WF_allVars(Steal(t))
  /\ WF_allVars(StoreDrains)

-----------------------------------------------------------------------------
(* A thief that holds the pointer it read from array_ holds the current    *)
(* array: it never looks into one that grow() has deleted.                 *)
NoUseAfterFree ==
  \A t \in Thieves : spc[t] \in {"round", "cas", "take", "clear"} => sa[t] = array_

(* An item is handed out at most once, by pop, by one thief or to the      *)
(* destructor's delete, and is in no cell afterwards; nor is it in two.    *)
TakenOnce ==
  /\ \A x \in Items : handed[x] <= 1
  /\ \A i \in DOMAIN cells : cells[i].data # NULL =>
       /\ handed[cells[i].data] = 0
       /\ \A j \in DOMAIN cells : cells[j].data = cells[i].data => i = j

(* The position of an item is still to be popped or stolen, or one of the  *)
(* threads has claimed it and is about to take it.                         *)
InReach(p) == \/ p \in top .. bottom_ - 1
              \/ \E t \in Thieves : spc[t] = "take" /\ st[t] = p
              \/ wpc = "lastTake" /\ wt = p

Writing(i) == wpc = "publish" /\ i = Index(bottom_)

Pushed == {x \in 1 .. item : x = item => wpc \notin {"push", "write", "grow", "grown"}}

(* "No loss": every item pushed and not handed out is in a cell where the  *)
(* owner or a thief will find it.                                          *)
NothingLost ==
  /\ \A x \in Pushed : handed[x] = 0 => \E i \in DOMAIN cells : cells[i].data = x
  /\ \A i \in DOMAIN cells :
       cells[i].data # NULL /\ ~Writing(i) => InReach(cells[i].round - 1)

(* Nothing is lost, through growth, wrap-around and races for the last     *)
(* item, unless pop took an item without competition, as it thought, and a *)
(* thief claimed the same position since pop's look at top.                *)
LostOnlyByStalePop == raced \/ NothingLost

(* A push returns: the wait for the cell's last consumer is bounded, as    *)
(* the comment at the loop says, and so is the growing; with the same      *)
(* exception, since an item that was lost stays in its cell.               *)
PushReturns == [](~raced) => (wpc = "push" ~> wpc = "idle")
=============================================================================
