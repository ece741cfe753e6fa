--------------------------- MODULE SPSCRingBuffer ----------------------------
(***************************************************************************)
(* include/SPSCRingBuffer.h: one producer and one consumer.  Each sizes    *)
(* its batch by one load of the other's index, moves the items slot by     *)
(* slot, and then publishes its own index; the other side goes on          *)
(* meanwhile.  The indices are unsigned words and wrap around.  The single *)
(* operations are batches of one.  x86 keeps the order of the stores that  *)
(* release asks for, so memory is one.  Copying or moving an element is    *)
(* taken not to throw: a throw in mid-batch, which would leave slots       *)
(* filled and the index unpublished, is not modelled.                      *)
(***************************************************************************)
EXTENDS NextPowerOfTwo

CONSTANT MaxSpscBatch   \* the largest n of a batch

ASSUME BatchNatural == MaxSpscBatch \in Nat \ {0}

VARIABLES shead_, stail_, sbuffer_,
          written, toWrite,    \* the producer: t + i, and items of its batch left
          moved, toMove,       \* the consumer: h + i, and items of its batch left
          got                  \* the item the consumer moved out last

spscVars == <<shead_, stail_, sbuffer_, written, toWrite, moved, toMove, got>>

spscCapacity == Cardinality(DOMAIN sbuffer_)

(* size_t arithmetic.                                                      *)
Plus(a, b) == (a + b) % wordCount
Minus(a, b) == (a - b) % wordCount

(* i & mask_                                                               *)
Slot(i) == i % spscCapacity

SpscInit ==
  /\ \E n \in Constructible :
       sbuffer_ = [i \in 0 .. nextPowerOfTwoSafe(n) - 1 |-> NULL]
  /\ shead_ = 0 /\ stail_ = 0
  /\ written = 0 /\ toWrite = 0
  /\ moved = 0 /\ toMove = 0
  /\ got = NULL

(* Mutant: the space is one slot too large.                                *)
SpaceAndOne == spscCapacity - Minus(stail_, shead_) + 1

Space == spscCapacity - Minus(stail_, shead_)

(* tryPush, tryPushBatch: a full ring, k = 0, changes nothing.             *)
TryPush(n) ==
  /\ written = stail_ /\ toWrite = 0
  /\ Space > 0
  /\ toWrite' = Min({n, Space})
  /\ UNCHANGED <<shead_, stail_, sbuffer_, written, moved, toMove, got>>

SpscWrite(x) ==
  /\ toWrite > 0
  /\ sbuffer_' = [sbuffer_ EXCEPT ![Slot(written)] = x]
  /\ written' = Plus(written, 1)
  /\ toWrite' = toWrite - 1
  /\ UNCHANGED <<shead_, stail_, moved, toMove, got>>

(* The store of tail_ after the last item.                                 *)
SpscPublish ==
  /\ toWrite = 0 /\ written # stail_
  /\ stail_' = written
  /\ UNCHANGED <<shead_, sbuffer_, written, toWrite, moved, toMove, got>>

(* Mutant: what the producer has written counts before it is published.    *)
AvailableEarly == Minus(Plus(written, toWrite), shead_)

Available == Minus(stail_, shead_)

(* tryPop, tryPopBatch: an empty ring changes nothing.                     *)
TryPop(max) ==
  /\ moved = shead_ /\ toMove = 0
  /\ Available > 0
  /\ toMove' = Min({max, Available})
  /\ UNCHANGED <<shead_, stail_, sbuffer_, written, toWrite, moved, got>>

SpscMove ==
  /\ toMove > 0
  /\ got' = sbuffer_[Slot(moved)]
  /\ sbuffer_' = [sbuffer_ EXCEPT ![Slot(moved)] = NULL]
  /\ moved' = Plus(moved, 1)
  /\ toMove' = toMove - 1
  /\ UNCHANGED <<shead_, stail_, written, toWrite>>

SpscRelease ==
  /\ toMove = 0 /\ moved # shead_
  /\ shead_' = moved
  /\ UNCHANGED <<stail_, sbuffer_, written, toWrite, moved, toMove, got>>

SpscNext ==
  \/ \E n \in 1 .. MaxSpscBatch : TryPush(n) \/ TryPop(n)
  \/ \E x \in Values : SpscWrite(x)
  \/ SpscPublish \/ SpscMove \/ SpscRelease

SpscSpec == SpscInit /\ [][SpscNext]_spscVars

-----------------------------------------------------------------------------
(* The producer's next slot is empty when it writes it and the consumer's  *)
(* next slot is filled when it calls value() on it, in the middle of a     *)
(* batch as well: the two are never in the same slot.                      *)
SlotExclusive ==
  /\ toWrite > 0 => sbuffer_[Slot(written)] = NULL
  /\ toMove > 0 => sbuffer_[Slot(moved)] # NULL
  /\ toWrite > 0 /\ toMove > 0 => Slot(written) # Slot(moved)

(* An item is in the FIFO from when it is written until it is moved out.   *)
SpscFifo == INSTANCE BoundedFifo
              WITH Items <- Values,
                   Consumers <- {"consumer"},
                   capacity <- spscCapacity,
                   q <- [k \in 1 .. Minus(written, moved) |-> sbuffer_[Slot(moved + k - 1)]],
                   out <- [c \in {"consumer"} |-> got]

SpscImplementsFifo == SpscFifo!Spec
=============================================================================
