----------------------- MODULE WorkStealingThreadPool -----------------------
(***************************************************************************)
(* include/WorkStealingThreadPool.h and src/WorkStealingThreadPool.cpp.    *)
(* Clients push into the shared lock-free queue incoming_ without a lock;  *)
(* each worker pops its own deque, refills it from incoming_, steals from  *)
(* the others, and sleeps on cv_ when it finds nothing.                    *)
(*                                                                         *)
(* Granularity.  A call of a queue or deque operation is one step, at the  *)
(* point where the operation claims its element (LockFreeQueue shows that  *)
(* this is sound; the lag of its store to sequence appears here as         *)
(* PushFails and FillMiss).  mtx_ is explicit, because notify_one is       *)
(* called without it: what a thread does between evaluating its wait       *)
(* predicate and falling asleep interleaves with the notifiers.  allEmpty  *)
(* reads one queue per step.  Reading waiting_producers_ or workers_idle_  *)
(* and the notify_one it guards are one step: a later notification is      *)
(* among the spurious wake-ups.                                            *)
(***************************************************************************)
EXTENDS Integers, Sequences, FiniteSets

CONSTANTS
  Producers,
  num_threads,      \* num_threads_: the workers are 0 .. num_threads - 1
  Closers, Destroyer,
  Tasks,            \* each submitted at most once (a bound)
  Capacity,         \* of incoming_ and of each deque
  kLocalBatchSize,
  Policies, Kinds, NULL

Workers == 0 .. num_threads - 1

ASSUME ThreadsKnown == num_threads \in Nat \ {0} /\ IsFiniteSet(Producers)
ASSUME CapacityAboveOne == Capacity \in Nat /\ Capacity > 1
ASSUME BatchPositive == kLocalBatchSize \in Nat \ {0}
ASSUME DestroyerCloses == Destroyer \in Closers
ASSUME PoliciesKnown == Policies \subseteq {"BLOCK", "DISCARD", "THROW"}
ASSUME KindsKnown == Kinds \subseteq {"submit", "submitVoid", "trySubmit"}
ASSUME NullIsNothing == NULL \notin Tasks \cup Producers \cup Workers

VARIABLES
  incoming_,        \* the shared queue, in the order of claimed positions
  popped,           \* its head_; its tail_ is popped + Len(incoming_)
  deques_,          \* each worker's deque, top_ end first
  stop_, policy_,
  count,            \* the atomic counters, a record with one field for each
  mtx_,             \* the thread that holds it, or NULL
  pc, call,         \* producers: position in the call; its task
  kind,             \* the function each task was submitted with
  wpc, held,        \* workers: position in workerLoop; the local Task
  batch,            \* fillLocalBatch's i: how many tasks this batch has popped
  step,             \* the loop index of stealOne, of allEmpty
  snap,             \* allEmpty's copy of incoming_'s tail_
  cpc,              \* closers: position in shutdown
  fate              \* history: what has become of each task

Counters == [active_submits_ : Int, submitted_tasks_ : Int, completed_tasks_ : Int,
             busy_workers_ : Int, failed_tasks_ : Int, waiting_producers_ : Int,
             workers_idle_ : Int]

queueVars == <<incoming_, popped, deques_>>
clientVars == <<pc, call, kind>>
locals == <<batch, step, snap>>
workerVars == <<wpc, held, locals>>
vars == <<queueVars, stop_, policy_, count, mtx_, clientVars, workerVars, cpc, fate>>

-----------------------------------------------------------------------------
InCall == {p \in Producers : pc[p] # "out"}
Exited == {w \in Workers : wpc[w] = "exited"}
Returned == {c \in Closers : cpc[c] \in {"joined", "skipped", "destroyed"}}
Elements(s) == {s[i] : i \in DOMAIN s}

NotifyOne(at, sleeping, awake) ==
  LET sleepers == {x \in DOMAIN at : at[x] = sleeping}
  IN  IF sleepers = {} THEN {at}
      ELSE {[at EXCEPT ![x] = awake] : x \in sleepers}

NotifyAll(at, sleeping, awake) ==
  [x \in DOMAIN at |-> IF at[x] = sleeping THEN awake ELSE at[x]]

(* incoming_.push may fail while a pop still holds its cell.               *)
PushFails == Len(incoming_) + Cardinality({w \in Workers : wpc[w] = "store"}) >= Capacity

(* incoming_.push: the task is accepted, before or after stop_ was set.    *)
PushIncoming(p) ==
  /\ Len(incoming_) < Capacity
  /\ incoming_' = Append(incoming_, call[p])
  /\ fate' = [fate EXCEPT ![call[p]] = IF stop_ THEN "late" ELSE "accepted"]

-----------------------------------------------------------------------------
(* Clients.                                                                *)

ProducerGoto(p, from, to) == pc[p] = from /\ pc' = [pc EXCEPT ![p] = to]

Enter(p, k, t) ==
  /\ fate[t] = "new"
  /\ cpc[Destroyer] = "out" /\ Returned = {}
  /\ ProducerGoto(p, "out", "check")
  /\ count' = [count EXCEPT !.active_submits_ = @ + 1]
  /\ call' = [call EXCEPT ![p] = t]
  /\ kind' = [kind EXCEPT ![t] = k]
  /\ fate' = [fate EXCEPT ![t] = "calling"]
  /\ UNCHANGED <<queueVars, stop_, policy_, mtx_, workerVars, cpc>>

Refuse(p, how) == fate' = [fate EXCEPT ![call[p]] = how]

(* The unlocked read of stop_: trySubmit gives up, submit goes for mtx_.   *)
CheckStop(p) ==
  /\ pc[p] = "check"
  /\ \/ /\ ~stop_
        /\ ProducerGoto(p, "check", "push")
        /\ UNCHANGED fate
     \/ /\ stop_ /\ kind[call[p]] = "trySubmit"
        /\ ProducerGoto(p, "check", "leaving")
        /\ Refuse(p, "refused")
     \/ /\ stop_ /\ kind[call[p]] # "trySubmit"
        /\ ProducerGoto(p, "check", "lock")
        /\ UNCHANGED fate
  /\ UNCHANGED <<queueVars, stop_, policy_, count, mtx_, call, kind, workerVars, cpc>>

PushFast(p) ==
  /\ ProducerGoto(p, "push", "count")
  /\ PushIncoming(p)
  /\ UNCHANGED <<popped, deques_, stop_, policy_, count, mtx_, call, kind, workerVars, cpc>>

PushFastFails(p) ==
  /\ pc[p] = "push" /\ PushFails
  /\ IF kind[call[p]] = "trySubmit"
     THEN ProducerGoto(p, "push", "leaving") /\ Refuse(p, "refused")
     ELSE ProducerGoto(p, "push", "lock") /\ UNCHANGED fate
  /\ UNCHANGED <<queueVars, stop_, policy_, count, mtx_, call, kind, workerVars, cpc>>

CountSubmitted(p) ==
  /\ ProducerGoto(p, "count", "wake")
  /\ count' = [count EXCEPT !.submitted_tasks_ = @ + 1]
  /\ UNCHANGED <<queueVars, stop_, policy_, mtx_, call, kind, workerVars, cpc, fate>>

(* The producer looks at workers_idle_ and notifies without mtx_.          *)
WakeWorker(p) ==
  /\ ProducerGoto(p, "wake", "leaving")
  /\ wpc' \in IF count.workers_idle_ > 0 THEN NotifyOne(wpc, "sleeping", "relock") ELSE {wpc}
  /\ UNCHANGED <<queueVars, stop_, policy_, count, mtx_, call, kind, held, locals, cpc, fate>>

(* The locked path up to the BLOCK loop: stop_, then the policy.           *)
LockedReject(p) ==
  /\ mtx_ = NULL
  /\ stop_ \/ policy_ # "BLOCK"
  /\ ProducerGoto(p, "lock", "leaving")
  /\ Refuse(p, IF ~stop_ /\ policy_ = "DISCARD" THEN "discarded" ELSE "threw")
  /\ UNCHANGED <<queueVars, stop_, policy_, count, mtx_, call, kind, workerVars, cpc>>

LockForBlock(p) ==
  /\ mtx_ = NULL
  /\ ~stop_ /\ policy_ = "BLOCK"
  /\ ProducerGoto(p, "lock", "blockPush")
  /\ mtx_' = p
  /\ UNCHANGED <<queueVars, stop_, policy_, count, call, kind, workerVars, cpc, fate>>

BlockPush(p) ==
  /\ ProducerGoto(p, "blockPush", "blockCount")
  /\ PushIncoming(p)
  /\ UNCHANGED <<popped, deques_, stop_, policy_, count, mtx_, call, kind, workerVars, cpc>>

BlockPushFails(p) ==
  /\ PushFails
  /\ ProducerGoto(p, "blockPush", "blockPred")
  /\ count' = [count EXCEPT !.waiting_producers_ = @ + 1]
  /\ UNCHANGED <<queueVars, stop_, policy_, mtx_, call, kind, workerVars, cpc, fate>>

(* ++submitted_tasks_, then mtx_ is released.                              *)
BlockCount(p) ==
  /\ ProducerGoto(p, "blockCount", "wake")
  /\ count' = [count EXCEPT !.submitted_tasks_ = @ + 1]
  /\ mtx_' = NULL
  /\ UNCHANGED <<queueVars, stop_, policy_, call, kind, workerVars, cpc, fate>>

(* not_full_cv_.wait's predicate, with mtx_ held.                          *)
BlockPredFalse(p) ==
  /\ ~stop_ /\ Len(incoming_) >= Capacity
  /\ ProducerGoto(p, "blockPred", "drowsy")
  /\ UNCHANGED <<queueVars, stop_, policy_, count, mtx_, call, kind, workerVars, cpc, fate>>

BlockPredTrue(p) ==
  /\ stop_ \/ Len(incoming_) < Capacity
  /\ count' = [count EXCEPT !.waiting_producers_ = @ - 1]
  /\ \/ /\ stop_
        /\ ProducerGoto(p, "blockPred", "leaving")
        /\ Refuse(p, "threw")
        /\ mtx_' = NULL
     \/ /\ ~stop_
        /\ ProducerGoto(p, "blockPred", "blockPush")
        /\ UNCHANGED <<fate, mtx_>>
  /\ UNCHANGED <<queueVars, stop_, policy_, call, kind, workerVars, cpc>>

BlockSleep(p) ==
  /\ ProducerGoto(p, "drowsy", "blocked")
  /\ mtx_' = NULL
  /\ UNCHANGED <<queueVars, stop_, policy_, count, call, kind, workerVars, cpc, fate>>

BlockRelock(p) ==
  /\ mtx_ = NULL
  /\ ProducerGoto(p, "relock", "blockPred")
  /\ mtx_' = p
  /\ UNCHANGED <<queueVars, stop_, policy_, count, call, kind, workerVars, cpc, fate>>

Leave(p) ==
  /\ ProducerGoto(p, "leaving", "out")
  /\ count' = [count EXCEPT !.active_submits_ = @ - 1]
  /\ call' = [call EXCEPT ![p] = NULL]
  /\ UNCHANGED <<queueVars, stop_, policy_, mtx_, kind, workerVars, cpc, fate>>

SpuriousProducer(p) ==
  /\ ProducerGoto(p, "blocked", "relock")
  /\ UNCHANGED <<queueVars, stop_, policy_, count, mtx_, call, kind, workerVars, cpc, fate>>

-----------------------------------------------------------------------------
(* workerLoop.                                                             *)

WorkerGoto(w, from, to) == wpc[w] = from /\ wpc' = [wpc EXCEPT ![w] = to]

(* 1. deques_[me]->pop: LIFO.                                              *)
LocalPop(w) ==
  LET own == deques_[w]
  IN  /\ own # <<>>
      /\ WorkerGoto(w, "pop", "execute")
      /\ held' = [held EXCEPT ![w] = own[Len(own)]]
      /\ deques_' = [deques_ EXCEPT ![w] = SubSeq(own, 1, Len(own) - 1)]
      /\ UNCHANGED <<incoming_, popped, stop_, policy_, count, mtx_, clientVars, locals, cpc,
                     fate>>

(* Where there are thieves, a pop that lost the last item to one leaves a  *)
(* position without an item in the deque.                                  *)
HollowPositions == num_threads > 1

(* Nothing there, compare_exchange_weak lost on the last element, or pop   *)
(* has met a hollow position above the items.                              *)
LocalMiss(w) ==
  /\ Len(deques_[w]) <= 1 \/ HollowPositions
  /\ WorkerGoto(w, "pop", "fill")
  /\ UNCHANGED <<queueVars, stop_, policy_, count, mtx_, clientVars, held, locals, cpc, fate>>

(* 2. fillLocalBatch.                                                      *)
FillPop(w) ==
  /\ batch[w] < kLocalBatchSize /\ incoming_ # <<>>
  /\ WorkerGoto(w, "fill", "store")
  /\ held' = [held EXCEPT ![w] = Head(incoming_)]
  /\ incoming_' = Tail(incoming_)
  /\ popped' = popped + 1
  /\ batch' = [batch EXCEPT ![w] = @ + 1]
  /\ UNCHANGED <<deques_, stop_, policy_, count, mtx_, clientVars, step, snap, cpc, fate>>

(* The queue is empty, or the push at its head is not published yet.       *)
FillMiss == incoming_ # <<>> => \E p \in Producers : /\ pc[p] \in {"count", "blockCount"}
                                                     /\ call[p] = Head(incoming_)

FillEnd(w) ==
  /\ batch[w] = kLocalBatchSize \/ FillMiss
  /\ WorkerGoto(w, "fill", IF batch[w] > 0 THEN "pop" ELSE "steal")
  /\ batch' = [batch EXCEPT ![w] = 0]
  /\ step' = [step EXCEPT ![w] = IF batch[w] > 0 THEN 0 ELSE 1]
  /\ UNCHANGED <<queueVars, stop_, policy_, count, mtx_, clientVars, held, snap, cpc, fate>>

(* Mutant: the deque's full test is off by one.                            *)
DequeFullTooLate(w) == Len(deques_[w]) > Capacity

DequeFull(w) == Len(deques_[w]) >= Capacity

FillStore(w) ==
  /\ ~DequeFull(w)
  /\ WorkerGoto(w, "store", "fillNotify")
  /\ deques_' = [deques_ EXCEPT ![w] = Append(@, held[w])]
  /\ held' = [held EXCEPT ![w] = NULL]
  /\ UNCHANGED <<incoming_, popped, stop_, policy_, count, mtx_, clientVars, locals, cpc, fate>>

(* Mutant: push's result is ignored and the task silently disappears.      *)
FillDrop(w) ==
  /\ DequeFull(w)
  /\ WorkerGoto(w, "store", "fill")
  /\ held' = [held EXCEPT ![w] = NULL]
  /\ UNCHANGED <<queueVars, stop_, policy_, count, mtx_, clientVars, locals, cpc, fate>>

(* The deque is full, hollow positions included: the task is executed on   *)
(* the spot.                                                               *)
FillFull(w) ==
  /\ DequeFull(w) \/ HollowPositions
  /\ WorkerGoto(w, "store", "execute")
  /\ UNCHANGED <<queueVars, stop_, policy_, count, mtx_, clientVars, held, locals, cpc, fate>>

NotifyProducer ==
  pc' \in IF count.waiting_producers_ > 0 THEN NotifyOne(pc, "blocked", "relock") ELSE {pc}

FillNotify(w) ==
  /\ WorkerGoto(w, "fillNotify", "fill")
  /\ NotifyProducer
  /\ UNCHANGED <<queueVars, stop_, policy_, count, mtx_, call, kind, held, locals, cpc, fate>>

(* 3. stealOne: FIFO, round the other workers.                             *)
Victim(w) == (w + step[w]) % num_threads

(* Mutant: the thief reads the top element without claiming it.            *)
TakeTopNot(v) == UNCHANGED deques_

TakeTop(v) == deques_' = [deques_ EXCEPT ![v] = Tail(@)]

Steal(w) ==
  LET other == deques_[Victim(w)]
  IN  /\ step[w] < num_threads /\ other # <<>>
      /\ WorkerGoto(w, "steal", "execute")
      /\ held' = [held EXCEPT ![w] = Head(other)]
      /\ TakeTop(Victim(w))
      /\ step' = [step EXCEPT ![w] = 0]
      /\ UNCHANGED <<incoming_, popped, stop_, policy_, count, mtx_, clientVars, batch, snap,
                     cpc, fate>>

(* Empty, or another thread won the race for the top element.              *)
StealMiss(w) ==
  /\ step[w] < num_threads
  /\ WorkerGoto(w, "steal", "steal")
  /\ step' = [step EXCEPT ![w] = @ + 1]
  /\ UNCHANGED <<queueVars, stop_, policy_, count, mtx_, clientVars, held, batch, snap, cpc,
                 fate>>

StealNothing(w) ==
  /\ step[w] >= num_threads
  /\ WorkerGoto(w, "steal", "lock")
  /\ step' = [step EXCEPT ![w] = 0]
  /\ UNCHANGED <<queueVars, stop_, policy_, count, mtx_, clientVars, held, batch, snap, cpc,
                 fate>>

(* 4. Under mtx_: leave a stopped and empty pool, or become idle and wait. *)
LockIdle(w) ==
  /\ mtx_ = NULL
  /\ WorkerGoto(w, "lock", IF stop_ THEN "exitScan" ELSE "pred")
  /\ mtx_' = w
  /\ step' = [step EXCEPT ![w] = 0]
  /\ count' = [count EXCEPT !.workers_idle_ = IF stop_ THEN @ ELSE @ + 1]
  /\ UNCHANGED <<queueVars, stop_, policy_, clientVars, held, batch, snap, cpc, fate>>

(* allEmpty: the deques in turn, then incoming_'s tail_ and its head_.     *)
ScanGoesOn(w) ==
  /\ \/ step[w] \in Workers /\ deques_[step[w]] = <<>> /\ UNCHANGED snap
     \/ step[w] = num_threads /\ snap' = [snap EXCEPT ![w] = popped + Len(incoming_)]
  /\ step' = [step EXCEPT ![w] = @ + 1]

(* allEmpty returns: its locals go out of scope.                           *)
ScanEnds(w) == /\ step' = [step EXCEPT ![w] = 0]
               /\ snap' = [snap EXCEPT ![w] = 0]

ScanFindsTask(w) == \/ step[w] \in Workers /\ deques_[step[w]] # <<>>
                    \/ step[w] > num_threads /\ snap[w] > popped

(* Mutant: allEmpty returns before it has looked at incoming_.             *)
ScanFindsNothingYet(w) == step[w] = num_threads

ScanFindsNothing(w) == step[w] > num_threads /\ snap[w] <= popped

Scan(w) ==
  /\ wpc[w] \in {"exitScan", "pred"}
  /\ wpc[w] = "pred" => ~stop_
  /\ ScanGoesOn(w)
  /\ UNCHANGED <<queueVars, stop_, policy_, count, mtx_, clientVars, wpc, held, batch, cpc,
                 fate>>

Exit(w) ==
  /\ ScanFindsNothing(w)
  /\ WorkerGoto(w, "exitScan", "exited")
  /\ mtx_' = NULL
  /\ ScanEnds(w)
  /\ UNCHANGED <<queueVars, stop_, policy_, count, clientVars, held, batch, cpc, fate>>

(* Stopped but not empty: idle for as long as the predicate takes.         *)
ExitNotYet(w) ==
  /\ ScanFindsTask(w)
  /\ WorkerGoto(w, "exitScan", "pred")
  /\ count' = [count EXCEPT !.workers_idle_ = @ + 1]
  /\ ScanEnds(w)
  /\ UNCHANGED <<queueVars, stop_, policy_, mtx_, clientVars, held, batch, cpc, fate>>

(* Mutant: a worker that leaves its wait stays counted as idle.            *)
NoLongerIdleNot == UNCHANGED count

NoLongerIdle == count' = [count EXCEPT !.workers_idle_ = @ - 1]

PredTrue(w) ==
  /\ stop_ \/ ScanFindsTask(w)
  /\ WorkerGoto(w, "pred", "pop")
  /\ NoLongerIdle
  /\ mtx_' = NULL
  /\ ScanEnds(w)
  /\ UNCHANGED <<queueVars, stop_, policy_, clientVars, held, batch, cpc, fate>>

(* The predicate was false; whatever is notified from here to IdleSleep    *)
(* reaches nobody.                                                         *)
PredFalse(w) ==
  /\ ~stop_ /\ ScanFindsNothing(w)
  /\ WorkerGoto(w, "pred", "drowsy")
  /\ ScanEnds(w)
  /\ UNCHANGED <<queueVars, stop_, policy_, count, mtx_, clientVars, held, batch, cpc, fate>>

IdleSleep(w) ==
  /\ WorkerGoto(w, "drowsy", "sleeping")
  /\ mtx_' = NULL
  /\ UNCHANGED <<queueVars, stop_, policy_, count, clientVars, held, locals, cpc, fate>>

IdleRelock(w) ==
  /\ mtx_ = NULL
  /\ WorkerGoto(w, "relock", "pred")
  /\ mtx_' = w
  /\ step' = [step EXCEPT ![w] = 0]
  /\ UNCHANGED <<queueVars, stop_, policy_, count, clientVars, held, batch, snap, cpc, fate>>

SpuriousWorker(w) ==
  /\ WorkerGoto(w, "sleeping", "relock")
  /\ UNCHANGED <<queueVars, stop_, policy_, count, mtx_, clientVars, held, locals, cpc, fate>>

(* executeTask, from the loop or from inside fillLocalBatch.               *)
ExecuteBegin(w) ==
  /\ WorkerGoto(w, "execute", "running")
  /\ count' = [count EXCEPT !.busy_workers_ = @ + 1]
  /\ UNCHANGED <<queueVars, stop_, policy_, mtx_, clientVars, held, locals, cpc, fate>>

(* The body runs; without a future a throw is counted.                     *)
ExecuteBody(w, failed) ==
  /\ WorkerGoto(w, "running", "ran")
  /\ fate' = [fate EXCEPT ![held[w]] = "done"]
  /\ failed = 1 => kind[held[w]] # "submit"
  /\ count' = [count EXCEPT !.failed_tasks_ = @ + failed]
  /\ UNCHANGED <<queueVars, stop_, policy_, mtx_, clientVars, held, locals, cpc>>

ExecuteUnbusy(w) ==
  /\ WorkerGoto(w, "ran", "unbusied")
  /\ count' = [count EXCEPT !.busy_workers_ = @ - 1]
  /\ UNCHANGED <<queueVars, stop_, policy_, mtx_, clientVars, held, locals, cpc, fate>>

ExecuteEnd(w) ==
  /\ WorkerGoto(w, "unbusied", "ranNotify")
  /\ count' = [count EXCEPT !.completed_tasks_ = @ + 1]
  /\ UNCHANGED <<queueVars, stop_, policy_, mtx_, clientVars, held, locals, cpc, fate>>

ExecuteNotify(w) ==
  /\ WorkerGoto(w, "ranNotify", IF batch[w] > 0 THEN "fill" ELSE "pop")
  /\ held' = [held EXCEPT ![w] = NULL]
  /\ NotifyProducer
  /\ UNCHANGED <<queueVars, stop_, policy_, count, mtx_, call, kind, locals, cpc, fate>>

-----------------------------------------------------------------------------
(* shutdown and the destructor.                                            *)

CloserGoto(c, from, to) == cpc[c] = from /\ cpc' = [cpc EXCEPT ![c] = to]

MayClose(c) == IF c = Destroyer
               THEN \A d \in Closers : cpc[d] = "out" \/ d \in Returned
               ELSE cpc[Destroyer] = "out"

Shutdown(c) ==
  /\ MayClose(c)
  /\ mtx_ = NULL
  /\ CloserGoto(c, "out", IF stop_ THEN "skipped" ELSE "notifyCv")
  /\ stop_' = TRUE
  /\ UNCHANGED <<queueVars, policy_, count, mtx_, clientVars, workerVars, fate>>

(* Mutant: sleeping workers are not told.                                  *)
NotifyAllCvNot == UNCHANGED wpc

NotifyAllCv == wpc' = NotifyAll(wpc, "sleeping", "relock")

ShutdownNotifyCv(c) ==
  /\ CloserGoto(c, "notifyCv", "notifyNotFull")
  /\ NotifyAllCv
  /\ UNCHANGED <<queueVars, stop_, policy_, count, mtx_, clientVars, held, locals, fate>>

ShutdownNotifyNotFull(c) ==
  /\ CloserGoto(c, "notifyNotFull", "awaitSubmits")
  /\ pc' = NotifyAll(pc, "blocked", "relock")
  /\ UNCHANGED <<queueVars, stop_, policy_, count, mtx_, call, kind, workerVars, fate>>

ShutdownAwaitSubmits(c) ==
  /\ count.active_submits_ = 0
  /\ CloserGoto(c, "awaitSubmits", "join")
  /\ UNCHANGED <<queueVars, stop_, policy_, count, mtx_, clientVars, workerVars, fate>>

ShutdownJoin(c) ==
  /\ Exited = Workers
  /\ CloserGoto(c, "join", "joined")
  /\ UNCHANGED <<queueVars, stop_, policy_, count, mtx_, clientVars, workerVars, fate>>

(* The members die; tasks left in a queue are destroyed with it.           *)
Destroy ==
  /\ cpc[Destroyer] \in {"joined", "skipped"}
  /\ cpc' = [cpc EXCEPT ![Destroyer] = "destroyed"]
  /\ UNCHANGED <<queueVars, stop_, policy_, count, mtx_, clientVars, workerVars, fate>>

-----------------------------------------------------------------------------
Init ==
  /\ incoming_ = <<>>
  /\ popped = 0
  /\ deques_ = [w \in Workers |-> <<>>]
  /\ stop_ = FALSE
  /\ policy_ \in Policies
  /\ count = [active_submits_ |-> 0, submitted_tasks_ |-> 0, completed_tasks_ |-> 0,
               busy_workers_ |-> 0, failed_tasks_ |-> 0, waiting_producers_ |-> 0,
               workers_idle_ |-> 0]
  /\ mtx_ = NULL
  /\ pc = [p \in Producers |-> "out"]
  /\ call = [p \in Producers |-> NULL]
  /\ kind = [t \in Tasks |-> NULL]
  /\ wpc = [w \in Workers |-> "pop"]
  /\ held = [w \in Workers |-> NULL]
  /\ batch = [w \in Workers |-> 0]
  /\ step = [w \in Workers |-> 0]
  /\ snap = [w \in Workers |-> 0]
  /\ cpc = [c \in Closers |-> "out"]
  /\ fate = [t \in Tasks |-> "new"]

ProducerStep(p) ==
  \/ CheckStop(p) \/ PushFast(p) \/ PushFastFails(p) \/ CountSubmitted(p) \/ WakeWorker(p)
  \/ LockedReject(p) \/ LockForBlock(p) \/ BlockPush(p) \/ BlockPushFails(p) \/ BlockCount(p)
  \/ BlockPredFalse(p) \/ BlockPredTrue(p) \/ BlockSleep(p) \/ BlockRelock(p) \/ Leave(p)

WorkerStep(w) ==
  \/ LocalPop(w) \/ LocalMiss(w)
  \/ FillPop(w) \/ FillEnd(w) \/ FillStore(w) \/ FillFull(w) \/ FillNotify(w)
  \/ Steal(w) \/ StealMiss(w) \/ StealNothing(w)
  \/ LockIdle(w) \/ Scan(w) \/ Exit(w) \/ ExitNotYet(w)
  \/ PredTrue(w) \/ PredFalse(w) \/ IdleSleep(w) \/ IdleRelock(w)
  \/ ExecuteBegin(w) \/ (\E failed \in 0 .. 1 : ExecuteBody(w, failed))
  \/ ExecuteUnbusy(w) \/ ExecuteEnd(w) \/ ExecuteNotify(w)

ShutdownStep(c) ==
  \/ ShutdownNotifyCv(c) \/ ShutdownNotifyNotFull(c)
  \/ ShutdownAwaitSubmits(c) \/ ShutdownJoin(c)

Terminated ==
  /\ cpc[Destroyer] = "destroyed"
  /\ InCall = {}
  /\ UNCHANGED vars

Next ==
  \/ \E p \in Producers : \/ \E k \in Kinds, t \in Tasks : Enter(p, k, t)
                          \/ ProducerStep(p)
                          \/ SpuriousProducer(p)
  \/ \E w \in Workers : WorkerStep(w) \/ SpuriousWorker(w)
  \/ \E c \in Closers : Shutdown(c) \/ ShutdownStep(c)
  \/ Destroy
  \/ Terminated

Spec == Init /\ [][Next]_vars

(* Every thread inside the pool keeps taking steps; one that waits for     *)
(* mtx_ eventually gets it; a retried CAS does not fail forever.           *)
FairSpec ==
  /\ Spec
  /\ \A p \in Producers : /\ WF_vars(ProducerStep(p))
                          /\ SF_vars(LockedReject(p) \/ LockForBlock(p) \/ BlockRelock(p))
                          /\ SF_vars(BlockPush(p))
  /\ \A w \in Workers : /\ WF_vars(WorkerStep(w))
                        /\ SF_vars(LockIdle(w) \/ IdleRelock(w))
                        /\ SF_vars(LocalPop(w)) /\ SF_vars(FillPop(w))
  /\ \A c \in Closers : WF_vars(ShutdownStep(c))

-----------------------------------------------------------------------------
(* The types of the variables.                                             *)
TypeOK ==
  /\ incoming_ \in Seq(Tasks) /\ Len(incoming_) <= Capacity
  /\ popped \in Nat
  /\ deques_ \in [Workers -> Seq(Tasks)]
  /\ \A w \in Workers : Len(deques_[w]) <= Capacity
  /\ stop_ \in BOOLEAN
  /\ policy_ \in Policies
  /\ count \in Counters
  /\ mtx_ \in Producers \cup Workers \cup {NULL}
  /\ pc \in [Producers -> {"out", "check", "push", "count", "wake", "lock", "blockPush",
                           "blockCount", "blockPred", "drowsy", "blocked", "relock",
                           "leaving"}]
  /\ call \in [Producers -> Tasks \cup {NULL}]
  /\ kind \in [Tasks -> Kinds \cup {NULL}]
  /\ wpc \in [Workers -> {"pop", "fill", "store", "fillNotify", "steal", "lock", "exitScan",
                          "pred", "drowsy", "sleeping", "relock", "execute", "running", "ran",
                          "unbusied", "ranNotify", "exited"}]
  /\ held \in [Workers -> Tasks \cup {NULL}]
  /\ batch \in [Workers -> 0 .. kLocalBatchSize]
  /\ step \in [Workers -> 0 .. num_threads + 1]
  /\ snap \in [Workers -> Nat]
  /\ cpc \in [Closers -> {"out", "notifyCv", "notifyNotFull", "awaitSubmits", "join",
                          "joined", "skipped", "destroyed"}]
  /\ fate \in [Tasks -> {"new", "calling", "accepted", "late", "done", "discarded", "threw",
                         "refused"}]

(* Where a task is: in incoming_, in a deque, in a worker's hands.         *)
Places(t) ==
  {<<"incoming_", 0, i>> : i \in {j \in DOMAIN incoming_ : incoming_[j] = t}}
  \cup {x \in {"deque"} \X Workers \X (1 .. Capacity) :
          x[3] <= Len(deques_[x[2]]) /\ deques_[x[2]][x[3]] = t}
  \cup {<<"held", w, 0>> : w \in {v \in Workers : held[v] = t /\ fate[t] # "done"}}

(* The counters that decide who is notified and when shutdown() goes on    *)
(* agree with where the threads are, and the metrics balance: a task whose *)
(* push is done and not yet counted is the only one that may be missing.   *)
Counted ==
  /\ count.active_submits_ = Cardinality(InCall)
  /\ count.workers_idle_ =
       Cardinality({w \in Workers : wpc[w] \in {"pred", "drowsy", "sleeping", "relock"}})
  /\ count.waiting_producers_ =
       Cardinality({p \in Producers : pc[p] \in {"blockPred", "drowsy", "blocked", "relock"}})
  /\ count.busy_workers_ = Cardinality({w \in Workers : wpc[w] \in {"running", "ran"}})
  /\ count.submitted_tasks_
       + Cardinality({p \in Producers : pc[p] \in {"count", "blockCount"}})
     = count.completed_tasks_ + Cardinality({t \in Tasks : Places(t) # {}})
       + Cardinality({w \in Workers : wpc[w] \in {"ran", "unbusied"}})

(* A task that was accepted is in exactly one place until it has run, on   *)
(* its way from incoming_ through deques and thieves to a worker; any      *)
(* other task is nowhere.                                                  *)
OnePlace ==
  \A t \in Tasks :
    Cardinality(Places(t)) = IF fate[t] \in {"accepted", "late"} THEN 1 ELSE 0

(* Every task accepted before stop_ was set has run when shutdown()        *)
(* returns, although workers decide to leave one by one on a scan of the   *)
(* queues that is not atomic.                                              *)
AcceptedBeforeStopRun ==
  (\E c \in Closers : cpc[c] = "joined") => \A t \in Tasks : fate[t] # "accepted"

(* shutdown() eventually returns, whatever notifications were lost before. *)
ShutdownReturns == \A c \in Closers : cpc[c] = "notifyCv" ~> c \in Returned

(* "shutdown() lets the workers drain every deque and the entrance before  *)
(* it joins them": no accepted task is left when shutdown() returns.       *)
DrainedOnJoin ==
  (\E c \in Closers : cpc[c] = "joined") =>
    \A t \in Tasks : fate[t] \notin {"accepted", "late"}

(* "Idle waiting: the workers block when everything is empty and are woken *)
(* when a task arrives": with no call and no notification under way, the   *)
(* workers are not all asleep beside a task.                               *)
NotStranded ==
  ~stop_ /\ InCall = {} /\ (\A w \in Workers : wpc[w] = "sleeping") =>
    \A t \in Tasks : Places(t) = {}
=============================================================================
