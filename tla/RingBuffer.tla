----------------------------- MODULE RingBuffer ------------------------------
(***************************************************************************)
(* include/RingBuffer.h, the ring behind ThreadPool::tasks, and            *)
(* include/LockedRingBuffer.h, the same ring with every operation under    *)
(* one mutex: an operation is one step, whoever calls it.                  *)
(***************************************************************************)
EXTENDS NextPowerOfTwo

VARIABLES buffer_, head, tail, capacity_, size_,
          out         \* the item each consumer's last successful pop moved out

ringVars == <<buffer_, head, tail, capacity_, size_, out>>

RingSlots == 0 .. capacity_ - 1

(* (i + 1) & (capacity_ - 1), which for a power of two is (i + 1) mod it.  *)
Advance(i) == (i + 1) % capacity_

empty == size_ = 0

(* Mutant: the ring that keeps one slot free, as rings without size_ do.   *)
fullOneFree == size_ >= capacity_ - 1

(* Mutant: the test comes one item too late.                               *)
fullTooLate == size_ > capacity_

full == size_ = capacity_

RingInit ==
  /\ \E n \in Constructible : capacity_ = nextPowerOfTwoSafe(n)
  /\ buffer_ = [i \in RingSlots |-> NULL]
  /\ head = 0 /\ tail = 0 /\ size_ = 0
  /\ out = [c \in Consumers |-> NULL]

(* A push onto a full ring, and a pop from an empty one, change nothing.   *)
Push(x) ==
  /\ ~full
  /\ buffer_' = [buffer_ EXCEPT ![tail] = x]
  /\ tail' = Advance(tail)
  /\ size_' = size_ + 1
  /\ UNCHANGED <<head, capacity_, out>>

Pop(c) ==
  /\ ~empty
  /\ out' = [out EXCEPT ![c] = buffer_[head]]
  /\ buffer_' = [buffer_ EXCEPT ![head] = NULL]
  /\ head' = Advance(head)
  /\ size_' = size_ - 1
  /\ UNCHANGED <<tail, capacity_>>

RingNext == \/ \E x \in Values : Push(x)
            \/ \E c \in Consumers : Pop(c)

RingSpec == RingInit /\ [][RingNext]_ringVars

-----------------------------------------------------------------------------
RingTypeOK ==
  /\ capacity_ \in Nat \ {0}
  /\ buffer_ \in [RingSlots -> Values \cup {NULL}]
  /\ head \in RingSlots /\ tail \in RingSlots
  /\ size_ \in 0 .. capacity_
  /\ out \in [Consumers -> Values \cup {NULL}]

Occupied == {(head + k) % capacity_ : k \in 0 .. size_ - 1}

(* The indices stay inside the ring and agree, the slots that hold a value *)
(* are exactly the size_ slots from head on, and a call is refused only    *)
(* for the reason it gives: buffer_[head].value() is never called on an    *)
(* empty optional, no popped task is kept alive by its slot, and full()    *)
(* and empty() are about the slots.                                        *)
Consistent ==
  /\ RingTypeOK
  /\ tail = (head + size_) % capacity_
  /\ \A i \in RingSlots : buffer_[i] # NULL <=> i \in Occupied
  /\ full <=> \A i \in RingSlots : buffer_[i] # NULL
  /\ empty <=> \A i \in RingSlots : buffer_[i] = NULL

(* The ring is a bounded FIFO.                                             *)
RingFifo == INSTANCE BoundedFifo
              WITH Items <- Values,
                   capacity <- capacity_,
                   q <- [k \in 1 .. size_ |-> buffer_[(head + k - 1) % capacity_]]

RingImplementsFifo == RingFifo!Spec
=============================================================================
