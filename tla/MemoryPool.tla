----------------------------- MODULE MemoryPool ------------------------------
(***************************************************************************)
(* src/MemoryPool.cpp: a free list of Task objects, in blocks that are     *)
(* never given back.  acquire() and the push of release() are critical     *)
(* sections of mtx_; the reset() of a released task is outside.  Callers   *)
(* keep to the contract: they release what they acquired, once.            *)
(***************************************************************************)
EXTENDS Common

CONSTANTS InitialCapacities,  \* the constructor's argument
          DefaultGrow,        \* by which an empty pool grows: 16 in the code
          MaxTasks            \* a bound: no acquire may grow the pool beyond it

ASSUME NullIsNoTask == NULL \notin Nat \X Nat
ASSUME PoolSizes == /\ InitialCapacities \subseteq Nat
                    /\ DefaultGrow \in Nat \ {0} /\ MaxTasks \in Nat

VARIABLES expandable_, initial_capacity_,
          blocks_,    \* the capacities of the blocks
          free_,      \* a stack
          held,       \* the tasks each consumer holds
          releasing,  \* the task it is releasing, already reset, or NULL
          armed       \* the tasks whose func_ is set

poolVars == <<expandable_, initial_capacity_, blocks_, free_, held, releasing, armed>>

(* The task in place k of block b, for the pointer to it.                  *)
PoolTasks == UNION {{b} \X (1 .. blocks_[b]) : b \in 1 .. Len(blocks_)}

(* capacity()                                                              *)
PoolCapacity == Cardinality(PoolTasks)

(* addBlock: the new tasks, in order, on the free list.                    *)
Added(n) == [k \in 1 .. n |-> <<Len(blocks_) + 1, k>>]

PoolInit ==
  /\ expandable_ \in BOOLEAN
  /\ initial_capacity_ \in InitialCapacities
  /\ blocks_ = <<initial_capacity_>>
  /\ free_ = [k \in 1 .. initial_capacity_ |-> <<1, k>>]
  /\ held = [c \in Consumers |-> {}]
  /\ releasing = [c \in Consumers |-> NULL]
  /\ armed = {}

grow == IF initial_capacity_ > 0 THEN initial_capacity_ ELSE DefaultGrow

(* Mutant: the task handed out stays on the free list.                     *)
PopFreeNot(s) == s

PopFree(s) == SubSeq(s, 1, Len(s) - 1)

TakeFrom(c, s) ==
  /\ held' = [held EXCEPT ![c] = @ \cup {s[Len(s)]}]
  /\ free_' = PopFree(s)

Exhausted == free_ = <<>>

Acquire(c) ==
  /\ \/ ~Exhausted /\ TakeFrom(c, free_) /\ UNCHANGED blocks_
     \/ /\ Exhausted /\ expandable_
        /\ PoolCapacity + grow <= MaxTasks
        /\ TakeFrom(c, Added(grow))
        /\ blocks_' = Append(blocks_, grow)
  /\ UNCHANGED <<expandable_, initial_capacity_, releasing, armed>>

(* The pool may not grow: nullptr is returned.                             *)
AcquireFails(c) == Exhausted /\ ~expandable_ /\ UNCHANGED poolVars

(* The holder's Task::setFunction.                                         *)
SetFunction(c, t) ==
  /\ t \in held[c]
  /\ armed' = armed \cup {t}
  /\ UNCHANGED <<expandable_, initial_capacity_, blocks_, free_, held, releasing>>

(* Task::reset                                                             *)
TaskReset(t) == armed' = armed \ {t}

ReleaseReset(c, t) ==
  /\ releasing[c] = NULL /\ t \in held[c]
  /\ TaskReset(t)
  /\ releasing' = [releasing EXCEPT ![c] = t]
  /\ held' = [held EXCEPT ![c] = @ \ {t}]
  /\ UNCHANGED <<expandable_, initial_capacity_, blocks_, free_>>

ReleasePush(c) ==
  /\ releasing[c] # NULL
  /\ free_' = Append(free_, releasing[c])
  /\ releasing' = [releasing EXCEPT ![c] = NULL]
  /\ UNCHANGED <<expandable_, initial_capacity_, blocks_, held, armed>>

PoolNext == \E c \in Consumers :
  \/ Acquire(c) \/ AcquireFails(c) \/ ReleasePush(c)
  \/ \E t \in held[c] : SetFunction(c, t) \/ ReleaseReset(c, t)

PoolSpec == PoolInit /\ [][PoolNext]_poolVars

-----------------------------------------------------------------------------
Held == UNION {held[c] : c \in Consumers}
Releasing == {releasing[c] : c \in Consumers} \ {NULL}

(* Every task of every block is free, in one holder's hands or on its way  *)
(* back, in one of these places only and on the free list only once; a     *)
(* free one has no function, so that acquire() never hands out what the    *)
(* last holder had set.                                                    *)
OneHolder ==
  /\ \A i, j \in 1 .. Len(free_) : free_[i] = free_[j] => i = j
  /\ \A c, e \in Consumers : c # e => /\ held[c] \cap held[e] = {}
                                      /\ releasing[c] # NULL => releasing[c] # releasing[e]
  /\ Held \cap Releasing = {}
  /\ {free_[i] : i \in 1 .. Len(free_)} = PoolTasks \ (Held \cup Releasing)
  /\ \A i \in 1 .. Len(free_) : free_[i] \notin armed
=============================================================================
