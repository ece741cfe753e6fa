-------------------------- MODULE WorkStealingDeque --------------------------
(***************************************************************************)
(* include/WorkStealingDeque.h: the owner pushes and pops at bottom_, any  *)
(* number of thieves take at top_, and an item is handed over by the       *)
(* exchange that empties its cell.                                         *)
(*                                                                         *)
(* One atomic access per step.  The owner's plain stores go through a      *)
(* store buffer, as on x86: they reach memory later, in order, and its own *)
(* loads see them at once; exchange and compare_exchange wait until the    *)
(* buffer is empty.  With depth 0 every store is in memory immediately,    *)
(* which is sequential consistency.  compare_exchange_weak fails only when *)
(* the value differs, as on x86.  The indices do not reach 2^63.           *)
(***************************************************************************)
EXTENDS Integers, Sequences

CONSTANTS Thieves, Capacity, MaxPush,
          Depths,   \* the depths of the store buffer that are considered
          NULL

ASSUME DequeAssumption ==
  /\ Capacity \in Nat \ {0} /\ MaxPush \in Nat
  /\ Depths \subseteq Nat
  /\ NULL \notin 1 .. MaxPush

Items == 1 .. MaxPush       \* in the order in which they are pushed

VARIABLES top_,
          mem,              \* bottom_, and the cells' data and round, in memory
          buffer, depth,    \* the owner's stores on their way, and how many may be
          wpc, wb, wt,      \* the owner: where it is; its locals b and t
          item,             \* the last item whose push found room
          spc, st,          \* each thief: where it is in steal; its t
          handed,           \* history: how often each item was taken or deleted
          raced             \* history: a thief took a position the owner had withdrawn

ownerVars == <<wpc, wb, wt, item>>
thiefVars == <<spc, st>>
history == <<handed, raced>>
vars == <<top_, mem, buffer, depth, ownerVars, thiefVars, history>>

Index(p) == p % Capacity

Init ==
  /\ top_ = 0
  /\ mem = [bottom_ |-> 0,
            data |-> [i \in 0 .. Capacity - 1 |-> NULL],
            round |-> [i \in 0 .. Capacity - 1 |-> 0]]
  /\ buffer = <<>> /\ depth \in Depths
  /\ wpc = "idle" /\ wb = 0 /\ wt = 0 /\ item = 0
  /\ spc = [t \in Thieves |-> "idle"]
  /\ st = [t \in Thieves |-> 0]
  /\ handed = [x \in Items |-> 0]
  /\ raced = FALSE

-----------------------------------------------------------------------------
(* Memory as the owner uses it.                                            *)

Bottom(v) == [field |-> "bottom_", at |-> 0, val |-> v]
Data(p, x) == [field |-> "data", at |-> Index(p), val |-> x]
Round(p, r) == [field |-> "round", at |-> Index(p), val |-> r]

Apply(m, w) == IF w.field = "bottom_" THEN [m EXCEPT !.bottom_ = w.val]
                                      ELSE [m EXCEPT ![w.field][w.at] = w.val]

(* What the owner's loads see: the last store still in the buffer, if any. *)
Pending(f, i) == {k \in 1 .. Len(buffer) : buffer[k].field = f /\ buffer[k].at = i}

Last(S) == CHOOSE k \in S : \A j \in S : j <= k

Load(f, i, stored) ==
  IF Pending(f, i) = {} THEN stored ELSE buffer[Last(Pending(f, i))].val

ownBottom == Load("bottom_", 0, mem.bottom_)
ownData(i) == Load("data", i, mem.data[i])
ownRound(i) == Load("round", i, mem.round[i])

Store(w) ==
  \/ depth = 0 /\ mem' = Apply(mem, w) /\ UNCHANGED buffer
  \/ Len(buffer) < depth /\ buffer' = Append(buffer, w) /\ UNCHANGED mem

Drain ==
  /\ buffer # <<>>
  /\ mem' = Apply(mem, Head(buffer))
  /\ buffer' = Tail(buffer)
  /\ UNCHANGED <<top_, depth, ownerVars, thiefVars, history>>

Drained == buffer = <<>>

(* Mutant: the pointer is read and stays in its cell.                      *)
ExchangeNot(p) == UNCHANGED mem

(* data.exchange(nullptr): what was there is the caller's.                 *)
Exchange(p) == mem' = Apply(mem, Data(p, NULL))

Found(p) == mem.data[Index(p)]

Take(p) == /\ Exchange(p)
           /\ handed' = [x \in Items |-> handed[x] + (IF x = Found(p) THEN 1 ELSE 0)]

(* The compare_exchange on round: it is cleared only if it is still p's.   *)
ClearRound(p) ==
  mem' = IF mem.round[Index(p)] = p + 1 THEN Apply(mem, Round(p, 0)) ELSE mem

Worker(from, to) == wpc = from /\ wpc' = to

-----------------------------------------------------------------------------
(* The owner: push.  A push that finds the deque full changes nothing.     *)

HasRoom == ownBottom - top_ < Capacity

PushLook ==
  /\ item < MaxPush /\ HasRoom
  /\ Worker("idle", "write")
  /\ wb' = ownBottom
  /\ item' = item + 1
  /\ UNCHANGED <<top_, mem, buffer, depth, wt, thiefVars, history>>

(* It waits until the cell's last consumer has emptied it.                 *)
PushWrite ==
  /\ ownData(Index(wb)) = NULL
  /\ Worker("write", "round")
  /\ Store(Data(wb, item))
  /\ UNCHANGED <<top_, depth, wb, wt, item, thiefVars, history>>

PushRound ==
  /\ Worker("round", "publish")
  /\ Store(Round(wb, wb + 1))
  /\ UNCHANGED <<top_, depth, wb, wt, item, thiefVars, history>>

PushPublish ==
  /\ Worker("publish", "idle")
  /\ Store(Bottom(wb + 1))
  /\ wb' = 0
  /\ UNCHANGED <<top_, depth, wt, item, thiefVars, history>>

-----------------------------------------------------------------------------
(* The owner: pop.                                                         *)

PopStore ==
  /\ ownBottom > 0
  /\ Worker("idle", "look")
  /\ wb' = ownBottom - 1
  /\ Store(Bottom(ownBottom - 1))
  /\ UNCHANGED <<top_, depth, wt, item, thiefVars, history>>

(* Mutant: pop takes the last item without competing for it.               *)
LastIsFree == wb >= top_

NoCompetition == wb > top_

PopLook ==
  /\ Worker("look", CASE NoCompetition -> "take"
                      [] wb < top_ -> "restore"
                      [] OTHER -> "cas")
  /\ wt' = top_
  /\ UNCHANGED <<top_, mem, buffer, depth, wb, item, thiefVars, history>>

(* Mutant: bottom_ is left where the decrement put it.                     *)
RestoredNot == UNCHANGED <<mem, buffer>>

Restored == Store(Bottom(wt))

(* Thieves have emptied the deque.                                         *)
PopRestore ==
  /\ Worker("restore", "idle")
  /\ Restored
  /\ wb' = 0 /\ wt' = 0
  /\ UNCHANGED <<top_, depth, item, thiefVars, history>>

(* It may be that a thief has claimed the position since the look.         *)
PopTake ==
  /\ Drained
  /\ Worker("take", IF Found(wb) = NULL THEN "idle" ELSE "clear")
  /\ Take(wb)
  /\ wb' = IF Found(wb) = NULL THEN 0 ELSE wb
  /\ wt' = 0
  /\ UNCHANGED <<top_, buffer, depth, item, thiefVars, raced>>

PopClear ==
  /\ Drained
  /\ Worker("clear", "idle")
  /\ ClearRound(wb)
  /\ wb' = 0
  /\ UNCHANGED <<top_, buffer, depth, wt, item, thiefVars, history>>

(* The last item.  A compare_exchange that fails loads top_ into t.        *)
PopLastCas ==
  /\ Drained
  /\ \/ top_ = wt /\ Worker("cas", "catchUp") /\ top_' = top_ + 1 /\ UNCHANGED <<wb, wt>>
     \/ top_ # wt /\ Worker("cas", "lost") /\ wt' = top_ /\ wb' = 0 /\ UNCHANGED top_
  /\ UNCHANGED <<mem, buffer, depth, item, thiefVars, history>>

(* A thief has the item; with the t just loaded, bottom_ is one beyond top_.*)
PopLost ==
  /\ Worker("lost", "idle")
  /\ Store(Bottom(wt + 1))
  /\ wt' = 0
  /\ UNCHANGED <<top_, depth, wb, item, thiefVars, history>>

(* Mutant: bottom_ stays behind the advanced top_.                         *)
CaughtUpNot == UNCHANGED <<mem, buffer>>

CaughtUp == Store(Bottom(wt + 1))

PopCatchUp ==
  /\ Worker("catchUp", "lastTake")
  /\ CaughtUp
  /\ wt' = 0
  /\ UNCHANGED <<top_, depth, wb, item, thiefVars, history>>

PopLastTake ==
  /\ Drained
  /\ Worker("lastTake", IF Found(wb) = NULL THEN "idle" ELSE "clear")
  /\ Take(wb)
  /\ wb' = IF Found(wb) = NULL THEN 0 ELSE wb
  /\ UNCHANGED <<top_, buffer, depth, wt, item, thiefVars, raced>>

-----------------------------------------------------------------------------
(* Thieves: steal.                                                         *)

Thief(t, from, to) == spc[t] = from /\ spc' = [spc EXCEPT ![t] = to]

StealTop(t) ==
  /\ wpc # "gone"
  /\ Thief(t, "idle", "bottom")
  /\ st' = [st EXCEPT ![t] = top_]
  /\ UNCHANGED <<top_, mem, buffer, depth, ownerVars, history>>

StealBottom(t) ==
  /\ Thief(t, "bottom", IF st[t] >= mem.bottom_ THEN "done" ELSE "round")
  /\ UNCHANGED <<top_, mem, buffer, depth, ownerVars, st, history>>

Filled(t) == mem.round[Index(st[t])] = st[t] + 1

StealRound(t) ==
  /\ Thief(t, "round", IF Filled(t) THEN "cas" ELSE "done")
  /\ UNCHANGED <<top_, mem, buffer, depth, ownerVars, st, history>>

(* The owner has taken the position back, and does not compete for it; or  *)
(* it has, and the item it then pushed there is not in memory yet.         *)
Withdrawn(p) == \/ p >= ownBottom /\ wpc \notin {"look", "cas"}
                \/ Pending("data", Index(p)) # {}

StealCas(t) ==
  /\ \/ /\ top_ = st[t] /\ Thief(t, "cas", "take") /\ top_' = top_ + 1
        /\ raced' = (raced \/ Withdrawn(st[t]))
     \/ top_ # st[t] /\ Thief(t, "cas", "done") /\ UNCHANGED <<top_, raced>>
  /\ UNCHANGED <<mem, buffer, depth, ownerVars, st, handed>>

StealTake(t) ==
  /\ Thief(t, "take", IF Found(st[t]) = NULL THEN "done" ELSE "clear")
  /\ Take(st[t])
  /\ UNCHANGED <<top_, buffer, depth, ownerVars, st, raced>>

StealClear(t) ==
  /\ Thief(t, "clear", "done")
  /\ ClearRound(st[t])
  /\ UNCHANGED <<top_, buffer, depth, ownerVars, st, history>>

StealReturn(t) ==
  /\ Thief(t, "done", "idle")
  /\ st' = [st EXCEPT ![t] = 0]
  /\ UNCHANGED <<top_, mem, buffer, depth, ownerVars, history>>

-----------------------------------------------------------------------------
AtRest == wpc = "idle" /\ buffer = <<>> /\ \A t \in Thieves : spc[t] = "idle"

(* The destructor deletes what [top_, bottom_) holds.                      *)
Destroy ==
  /\ AtRest
  /\ wpc' = "gone"
  /\ handed' = [x \in Items |->
       handed[x] + (IF \E p \in top_ .. mem.bottom_ - 1 : Found(p) = x THEN 1 ELSE 0)]
  /\ mem' = [mem EXCEPT !.data = [i \in 0 .. Capacity - 1 |-> NULL]]
  /\ UNCHANGED <<top_, buffer, depth, wb, wt, item, thiefVars, raced>>

Push == PushWrite \/ PushRound \/ PushPublish

Pop == \/ PopLook \/ PopRestore \/ PopTake \/ PopClear
       \/ PopLastCas \/ PopLost \/ PopCatchUp \/ PopLastTake

Steal(t) == \/ StealBottom(t) \/ StealRound(t) \/ StealCas(t)
            \/ StealTake(t) \/ StealClear(t) \/ StealReturn(t)

Next == \/ PushLook \/ Push \/ PopStore \/ Pop \/ Drain \/ Destroy
        \/ \E t \in Thieves : StealTop(t) \/ Steal(t)

Spec == Init /\ [][Next]_vars

(* Threads inside a call keep running, and stores reach memory.            *)
FairSpec == /\ Spec
            /\ WF_vars(Push \/ Pop)
            /\ WF_vars(Drain)
            /\ \A t \in Thieves : WF_vars(Steal(t))

-----------------------------------------------------------------------------
(* An item is handed out at most once, by pop, by one thief or by the      *)
(* destructor, and is in no cell afterwards; nor is it in two cells.       *)
TakenOnce ==
  /\ \A x \in Items : handed[x] <= 1
  /\ \A i \in 0 .. Capacity - 1 : mem.data[i] # NULL =>
       /\ handed[mem.data[i]] = 0
       /\ \A j \in 0 .. Capacity - 1 : mem.data[j] = mem.data[i] => i = j

Pushed == {x \in 1 .. item : x = item => wpc \notin {"write", "round", "publish"}}

(* The position of an item is still to be popped or stolen, or a thread    *)
(* has claimed it and is about to take it.                                 *)
InReach(p) == \/ p \in top_ .. ownBottom - 1
              \/ \E t \in Thieves : spc[t] = "take" /\ st[t] = p
              \/ wpc \in {"look", "take", "cas", "catchUp", "lastTake"} /\ wb = p

(* Every item whose push has returned and that was not handed out is in a  *)
(* cell where the owner or a thief will find it.                           *)
NothingLost ==
  \A x \in Pushed : handed[x] = 0 =>
    \E i \in 0 .. Capacity - 1 : ownData(i) = x /\ InReach(ownRound(i) - 1)

(* Nothing is lost, whatever position a pop that lost the last item leaves *)
(* behind, unless a thief claimed a position after pop had withdrawn it    *)
(* from bottom_ and, as pop thought, without competition.                  *)
LostOnlyByRace == raced \/ NothingLost

(* That happens only if pop's load of top_ overtakes its store to bottom_. *)
RaceNeedsReordering == depth = 0 => ~raced

size == IF mem.bottom_ > top_ THEN mem.bottom_ - top_ ELSE 0

ItemsIn == {x \in Items : \E i \in 0 .. Capacity - 1 : mem.data[i] = x}

(* When no call is under way size() is at most the capacity and counts     *)
(* every item: each is where pop, a thief or the destructor will look.     *)
(* It may count more: a pop that loses the last item leaves an empty       *)
(* position at top_, and with it one thief's exchange, coming late, may    *)
(* take the item of a later position.                                      *)
SizeAtRest ==
  AtRest /\ ~raced =>
    /\ size <= Capacity
    /\ ItemsIn \subseteq {Found(p) : p \in top_ .. mem.bottom_ - 1}

(* A push that found room returns: the wait for the cell's last consumer   *)
(* is bounded; except that an item that was lost stays in its cell.        *)
PushReturns == [](~raced) => (wpc = "write" ~> wpc = "idle")
=============================================================================
