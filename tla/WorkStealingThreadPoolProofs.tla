-------------------- MODULE WorkStealingThreadPoolProofs ---------------------
(***************************************************************************)
(* Theorems about WorkStealingThreadPool for any number of producers,      *)
(* workers, closers and tasks, any capacity and batch size and any set of  *)
(* reject policies.                                                        *)
(***************************************************************************)
EXTENDS WorkStealingThreadPool, FiniteSetTheorems, SequenceTheorems, TLAPS

(* A call has its task until it ends, and a worker holds a task from the   *)
(* pop or steal that took it to the end of executeTask or the store.       *)
InHand == {"store", "execute", "running", "ran", "unbusied", "ranNotify"}

Types ==
  /\ TypeOK
  /\ \A p \in Producers : pc[p] # "out" => call[p] \in Tasks
  /\ \A w \in Workers : wpc[w] \in InHand <=> held[w] # NULL

LEMMA InitTypes == Init => Types
<1> SUFFICES ASSUME Init PROVE Types
  OBVIOUS
<1> USE DEF Init
<1>1. incoming_ \in Seq(Tasks) /\ Len(incoming_) <= Capacity /\ popped \in Nat
  BY CapacityAboveOne
<1>2. deques_ \in [Workers -> Seq(Tasks)] /\ \A w \in Workers : Len(deques_[w]) <= Capacity
  BY CapacityAboveOne
<1>3. /\ batch \in [Workers -> 0 .. kLocalBatchSize]
      /\ step \in [Workers -> 0 .. num_threads + 1] /\ snap \in [Workers -> Nat]
  BY BatchPositive, ThreadsKnown
<1>4. count \in Counters
  BY DEF Counters
<1>10. stop_ \in BOOLEAN /\ policy_ \in Policies
  OBVIOUS
<1>5. /\ pc \in [Producers -> {"out", "check", "push", "count", "wake", "lock", "blockPush",
                           "blockCount", "blockPred", "drowsy", "blocked", "relock",
                           "leaving"}]
      /\ call \in [Producers -> Tasks \cup {NULL}] /\ kind \in [Tasks -> Kinds \cup {NULL}]
      /\ mtx_ \in Producers \cup Workers \cup {NULL}
      /\ held \in [Workers -> Tasks \cup {NULL}]
  OBVIOUS
<1>6. /\ wpc \in [Workers -> {"pop", "fill", "store", "fillNotify", "steal", "lock", "exitScan",
                          "pred", "drowsy", "sleeping", "relock", "execute", "running", "ran",
                          "unbusied", "ranNotify", "exited"}]
      /\ cpc \in [Closers -> {"out", "notifyCv", "notifyNotFull", "awaitSubmits", "join",
                          "joined", "skipped", "destroyed"}]
      /\ fate \in [Tasks -> {"new", "calling", "accepted", "late", "done", "discarded", "threw",
                         "refused"}]
  OBVIOUS
<1>7. (\A p \in Producers : pc[p] = "out") /\ \A w \in Workers : wpc[w] \in InHand <=> held[w] # NULL
  BY DEF InHand
<1>8. TypeOK
  BY <1>1, <1>2, <1>3, <1>4, <1>5, <1>6, <1>10 DEF TypeOK
<1>9. QED
  BY <1>7, <1>8 DEF Types

(* notify_one and notify_all move sleepers only, and only to the evaluation *)
(* of their predicate.                                                      *)
LEMMA NotifiedWorker ==
  ASSUME TypeOK, \/ wpc' \in NotifyOne(wpc, "sleeping", "relock")
                 \/ wpc' = NotifyAll(wpc, "sleeping", "relock")
  PROVE  /\ wpc' = [w \in Workers |-> wpc'[w]]
         /\ \A w \in Workers : wpc'[w] = wpc[w] \/ (wpc[w] = "sleeping" /\ wpc'[w] = "relock")
  BY DEF NotifyOne, NotifyAll, TypeOK

LEMMA NotifiedProducer ==
  ASSUME TypeOK, \/ pc' \in NotifyOne(pc, "blocked", "relock")
                 \/ pc' = NotifyAll(pc, "blocked", "relock")
  PROVE  /\ pc' = [p \in Producers |-> pc'[p]]
         /\ \A p \in Producers : pc'[p] = pc[p] \/ (pc[p] = "blocked" /\ pc'[p] = "relock")
  BY DEF NotifyOne, NotifyAll, TypeOK

(* The counters stay integers, and the locals of fillLocalBatch, stealOne  *)
(* and allEmpty within their ranges.                                       *)
LEMMA CountTypes ==
  ASSUME Types, Next
  PROVE  count' \in Counters
<1>0. count \in Counters
  BY DEF Types, TypeOK
<1>1. CASE count' = count
  BY <1>0, <1>1
<1>2. ASSUME NEW n \in Int,
             \/ count' = [count EXCEPT !.active_submits_ = n]
             \/ count' = [count EXCEPT !.submitted_tasks_ = n]
             \/ count' = [count EXCEPT !.waiting_producers_ = n]
             \/ count' = [count EXCEPT !.workers_idle_ = n]
             \/ count' = [count EXCEPT !.busy_workers_ = n]
             \/ count' = [count EXCEPT !.failed_tasks_ = n]
             \/ count' = [count EXCEPT !.completed_tasks_ = n]
      PROVE  count' \in Counters
  BY <1>0, <1>2 DEF Counters
<1>3. /\ count.active_submits_ \in Int /\ count.submitted_tasks_ \in Int
      /\ count.waiting_producers_ \in Int /\ count.workers_idle_ \in Int
      /\ count.busy_workers_ \in Int /\ count.failed_tasks_ \in Int
      /\ count.completed_tasks_ \in Int
  BY <1>0 DEF Counters
<1>4. CASE \E p \in Producers, k \in Kinds, t \in Tasks : Enter(p, k, t)
  <2>1. count' = [count EXCEPT !.active_submits_ = count.active_submits_ + 1]
    BY <1>4 DEF Enter
  <2>2. QED
    BY <1>0, <2>1 DEF Counters
<1>5. ASSUME NEW p \in Producers, ProducerStep(p) \/ SpuriousProducer(p) PROVE count' \in Counters
  <2>1. \/ count' = count
        \/ count' = [count EXCEPT !.active_submits_ = count.active_submits_ - 1]
        \/ count' = [count EXCEPT !.submitted_tasks_ = count.submitted_tasks_ + 1]
        \/ count' = [count EXCEPT !.waiting_producers_ = count.waiting_producers_ + 1]
        \/ count' = [count EXCEPT !.waiting_producers_ = count.waiting_producers_ - 1]
    BY <1>5 DEF ProducerStep, SpuriousProducer, CheckStop, PushFast, PushFastFails, CountSubmitted,
       WakeWorker, LockedReject, LockForBlock, BlockPush, BlockPushFails, BlockCount, BlockPredFalse,
       BlockPredTrue, BlockSleep, BlockRelock, Leave
  <2>2. QED
    BY <1>1, <1>2, <1>3, <2>1
<1>6. ASSUME NEW w \in Workers, ExecuteUnbusy(w) \/ ExecuteEnd(w) PROVE count' \in Counters
  <2>1. \/ count' = [count EXCEPT !.busy_workers_ = count.busy_workers_ - 1]
        \/ count' = [count EXCEPT !.completed_tasks_ = count.completed_tasks_ + 1]
    BY <1>6 DEF ExecuteUnbusy, ExecuteEnd
  <2>2. QED
    BY <1>2, <1>3, <2>1
<1>7. ASSUME NEW w \in Workers, WorkerStep(w) \/ SpuriousWorker(w),
             ~ExecuteUnbusy(w), ~ExecuteEnd(w)
      PROVE  count' \in Counters
  <2>1. \/ count' = count
        \/ \E i \in {-1, 0, 1} : count' = [count EXCEPT !.workers_idle_ = count.workers_idle_ + i]
        \/ count' = [count EXCEPT !.busy_workers_ = count.busy_workers_ + 1]
        \/ \E i \in {0, 1} : count' = [count EXCEPT !.failed_tasks_ = count.failed_tasks_ + i]
    <3>1. CASE LockIdle(w) \/ ExitNotYet(w) \/ PredTrue(w)
      BY <1>3, <3>1 DEF LockIdle, ExitNotYet, PredTrue, NoLongerIdle
    <3>2. CASE ExecuteBegin(w) \/ \E failed \in 0 .. 1 : ExecuteBody(w, failed)
      BY <3>2 DEF ExecuteBegin, ExecuteBody
    <3>3. CASE count' = count
      BY <3>3
    <3>4. QED
      BY <1>7, <3>1, <3>2, <3>3
         DEF WorkerStep, SpuriousWorker, LocalPop, LocalMiss, FillPop, FillEnd, FillStore, FillFull,
             FillNotify, Steal, StealMiss, StealNothing, Scan, Exit, PredFalse, IdleSleep, IdleRelock,
             ExecuteNotify
  <2>2. ASSUME NEW i \in {-1, 0, 1}, count' = [count EXCEPT !.workers_idle_ = count.workers_idle_ + i]
        PROVE  count' \in Counters
    BY <1>0, <2>2 DEF Counters
  <2>3. ASSUME NEW i \in {0, 1}, count' = [count EXCEPT !.failed_tasks_ = count.failed_tasks_ + i]
        PROVE  count' \in Counters
    BY <1>0, <2>3 DEF Counters
  <2>4. CASE count' = [count EXCEPT !.busy_workers_ = count.busy_workers_ + 1]
    BY <1>0, <2>4 DEF Counters
  <2>5. QED
    BY <1>1, <2>1, <2>2, <2>3, <2>4
<1>8. CASE \E c \in Closers : Shutdown(c) \/ ShutdownStep(c)
  BY <1>1, <1>8 DEF Shutdown, ShutdownStep, ShutdownNotifyCv, ShutdownNotifyNotFull,
                    ShutdownAwaitSubmits, ShutdownJoin
<1>9. CASE Destroy \/ Terminated
  BY <1>1, <1>9 DEF Destroy, Terminated, vars
<1>10. QED
  BY <1>4, <1>5, <1>6, <1>7, <1>8, <1>9 DEF Next

LEMMA LocalsTypes ==
  ASSUME Types, NEW w \in Workers, WorkerStep(w) \/ SpuriousWorker(w)
  PROVE  /\ batch' \in [Workers -> 0 .. kLocalBatchSize]
         /\ step' \in [Workers -> 0 .. num_threads + 1]
         /\ snap' \in [Workers -> Nat]
<1>0. /\ batch \in [Workers -> 0 .. kLocalBatchSize]
      /\ step \in [Workers -> 0 .. num_threads + 1] /\ snap \in [Workers -> Nat]
      /\ popped + Len(incoming_) \in Nat
      /\ num_threads \in Nat \ {0} /\ kLocalBatchSize \in Nat \ {0}
  BY ThreadsKnown, BatchPositive DEF Types, TypeOK
<1>1. CASE FillPop(w)
  BY <1>0, <1>1 DEF FillPop
<1>2. CASE FillEnd(w)
  BY <1>0, <1>2 DEF FillEnd
<1>3. CASE Steal(w) \/ StealNothing(w) \/ LockIdle(w) \/ IdleRelock(w)
  <2>1. step' = [step EXCEPT ![w] = 0] /\ UNCHANGED <<batch, snap>>
    BY <1>3 DEF Steal, StealNothing, LockIdle, IdleRelock
  <2>2. QED
    BY <1>0, <2>1
<1>4. CASE StealMiss(w)
  <2>1. step[w] < num_threads /\ step' = [step EXCEPT ![w] = step[w] + 1] /\ UNCHANGED <<batch, snap>>
    BY <1>4 DEF StealMiss
  <2>2. QED
    BY <1>0, <2>1
<1>5. CASE Scan(w)
  <2>1. step[w] <= num_threads /\ step' = [step EXCEPT ![w] = step[w] + 1] /\ UNCHANGED batch
    BY <1>0, <1>5 DEF Scan, ScanGoesOn, Workers
  <2>2. snap' = snap \/ snap' = [snap EXCEPT ![w] = popped + Len(incoming_)]
    BY <1>5 DEF Scan, ScanGoesOn
  <2>3. step' \in [Workers -> 0 .. num_threads + 1]
    BY <1>0, <2>1
  <2>4. snap' \in [Workers -> Nat]
    BY <1>0, <2>2
  <2>5. QED
    BY <1>0, <2>1, <2>3, <2>4
<1>6. CASE Exit(w) \/ ExitNotYet(w) \/ PredTrue(w) \/ PredFalse(w)
  <2>1. step' = [step EXCEPT ![w] = 0] /\ snap' = [snap EXCEPT ![w] = 0] /\ UNCHANGED batch
    BY <1>6 DEF Exit, ExitNotYet, PredTrue, PredFalse, ScanEnds
  <2>2. QED
    BY <1>0, <2>1
<1>7. CASE UNCHANGED locals
  BY <1>0, <1>7 DEF locals
<1>8. QED
  BY <1>1, <1>2, <1>3, <1>4, <1>5, <1>6, <1>7
     DEF WorkerStep, SpuriousWorker, LocalPop, LocalMiss, FillStore, FillFull, FillNotify, IdleSleep,
         ExecuteBegin, ExecuteBody, ExecuteUnbusy, ExecuteEnd, ExecuteNotify

LEMMA ProducerTypes ==
  ASSUME Types, count' \in Counters, NEW p \in Producers, ProducerStep(p) \/ SpuriousProducer(p)
  PROVE  Types'
<1> USE DEF Types, TypeOK, ProducerGoto, queueVars, workerVars, locals, Refuse
<1>1. CASE CheckStop(p)
  BY <1>1 DEF CheckStop
<1>2. CASE PushFast(p)
  BY <1>2, CapacityAboveOne DEF PushFast, PushIncoming
<1>3. CASE PushFastFails(p)
  BY <1>3, ZenonT(40) DEF PushFastFails
<1>4. CASE CountSubmitted(p)
  BY <1>4 DEF CountSubmitted
<1>5. CASE WakeWorker(p)
  <2>1. wpc' = wpc \/ wpc' \in NotifyOne(wpc, "sleeping", "relock")
    BY <1>5 DEF WakeWorker
  <2>2. /\ wpc' = [w \in Workers |-> wpc'[w]]
        /\ \A w \in Workers : wpc'[w] = wpc[w] \/ (wpc[w] = "sleeping" /\ wpc'[w] = "relock")
    BY <2>1, NotifiedWorker
  <2>3. QED
    BY <1>5, <2>2 DEF WakeWorker, InHand
<1>6. CASE LockedReject(p)
  BY <1>6 DEF LockedReject
<1>7. CASE LockForBlock(p)
  BY <1>7 DEF LockForBlock
<1>8. CASE BlockPush(p)
  BY <1>8, CapacityAboveOne DEF BlockPush, PushIncoming
<1>9. CASE BlockPushFails(p)
  BY <1>9 DEF BlockPushFails
<1>10. CASE BlockCount(p)
  BY <1>10 DEF BlockCount
<1>11. CASE BlockPredFalse(p)
  BY <1>11 DEF BlockPredFalse
<1>12. CASE BlockPredTrue(p)
  BY <1>12, ZenonT(40) DEF BlockPredTrue
<1>13. CASE BlockSleep(p) \/ BlockRelock(p) \/ SpuriousProducer(p)
  BY <1>13 DEF BlockSleep, BlockRelock, SpuriousProducer
<1>14. CASE Leave(p)
  BY <1>14 DEF Leave
<1>15. QED
  BY <1>1, <1>2, <1>3, <1>4, <1>5, <1>6, <1>7, <1>8, <1>9, <1>10, <1>11, <1>12, <1>13, <1>14
     DEF ProducerStep

LEMMA WorkerTypes ==
  ASSUME Types, count' \in Counters, NEW w \in Workers, WorkerStep(w) \/ SpuriousWorker(w)
  PROVE  Types'
<1>0. /\ batch' \in [Workers -> 0 .. kLocalBatchSize]
      /\ step' \in [Workers -> 0 .. num_threads + 1] /\ snap' \in [Workers -> Nat]
  BY LocalsTypes
<1>00. Victim(w) \in Workers
  <2>1. num_threads \in Nat \ {0} /\ w \in Int /\ step[w] \in Int
    BY ThreadsKnown DEF Types, TypeOK, Workers
  <2>2. QED
    BY <2>1 DEF Victim, Workers
<1> USE NullIsNothing, CapacityAboveOne, <1>0
    DEF Types, TypeOK, WorkerGoto, clientVars, queueVars, InHand
<1>1. CASE LocalPop(w)
  <2> DEFINE own == deques_[w]
             rest == SubSeq(own, 1, Len(own) - 1)
  <2>1. own \in Seq(Tasks) /\ own # <<>> /\ Len(own) \in 1 .. Capacity
    BY <1>1 DEF LocalPop
  <2>2. own[Len(own)] \in Tasks /\ rest \in Seq(Tasks) /\ Len(rest) <= Capacity
    BY <2>1
  <2> HIDE DEF rest
  <2>3. QED
    BY <1>1, <2>2 DEF LocalPop, rest
<1>2. CASE LocalMiss(w)
  BY <1>2 DEF LocalMiss
<1>3. CASE FillPop(w)
  <2>1. Head(incoming_) \in Tasks /\ Tail(incoming_) \in Seq(Tasks) /\ Len(Tail(incoming_)) <= Capacity
    BY <1>3 DEF FillPop
  <2>2. QED
    BY <1>3, <2>1, SMTT(30) DEF FillPop
<1>4. CASE FillEnd(w)
  <2>1. \E l \in {"pop", "steal"} : wpc' = [wpc EXCEPT ![w] = l]
    BY <1>4 DEF FillEnd
  <2>2. QED
    BY <1>4, <2>1 DEF FillEnd
<1>5. CASE FillStore(w)
  <2>1. held[w] \in Tasks
    BY <1>5 DEF FillStore
  <2> DEFINE more == Append(deques_[w], held[w])
  <2>2. more \in Seq(Tasks) /\ Len(more) <= Capacity
    BY <1>5, <2>1 DEF FillStore, DequeFull
  <2> HIDE DEF more
  <2>3. QED
    BY <1>5, <2>2 DEF FillStore, more
<1>6. CASE FillFull(w)
  BY <1>6 DEF FillFull
<1>7. CASE FillNotify(w) \/ ExecuteNotify(w)
  <2>1. pc' = pc \/ pc' \in NotifyOne(pc, "blocked", "relock")
    BY <1>7 DEF FillNotify, ExecuteNotify, NotifyProducer
  <2>2. /\ pc' = [p \in Producers |-> pc'[p]]
        /\ \A p \in Producers : pc'[p] = pc[p] \/ (pc[p] = "blocked" /\ pc'[p] = "relock")
    BY <2>1, NotifiedProducer
  <2>3. CASE FillNotify(w)
    BY <2>2, <2>3 DEF FillNotify
  <2>4. CASE ExecuteNotify(w)
    BY <2>2, <2>4 DEF ExecuteNotify
  <2>5. QED
    BY <1>7, <2>3, <2>4
<1>8. CASE Steal(w)
  <2> DEFINE v == Victim(w)
  <2>1. v \in Workers
    BY <1>00
  <2>2. /\ deques_[v] # <<>> /\ held' = [held EXCEPT ![w] = Head(deques_[v])]
        /\ deques_' = [deques_ EXCEPT ![v] = Tail(deques_[v])]
        /\ wpc[w] = "steal" /\ wpc' = [wpc EXCEPT ![w] = "execute"]
        /\ UNCHANGED <<incoming_, popped, stop_, policy_, count, mtx_, clientVars, cpc, fate>>
    BY <1>8 DEF Steal, TakeTop
  <2> HIDE DEF v
  <2>3. /\ Head(deques_[v]) \in Tasks /\ Tail(deques_[v]) \in Seq(Tasks)
        /\ Len(Tail(deques_[v])) <= Capacity
    BY <2>1, <2>2, SMTT(30)
  <2>4. QED
    BY <2>1, <2>2, <2>3
<1>9. CASE StealMiss(w)
  BY <1>9 DEF StealMiss
<1>10. CASE StealNothing(w)
  BY <1>10 DEF StealNothing
<1>11. CASE LockIdle(w)
  BY <1>11 DEF LockIdle
<1>12. CASE Scan(w)
  BY <1>12 DEF Scan
<1>13. CASE Exit(w)
  BY <1>13 DEF Exit
<1>14. CASE ExitNotYet(w)
  BY <1>14 DEF ExitNotYet
<1>15. CASE PredTrue(w)
  BY <1>15 DEF PredTrue
<1>16. CASE PredFalse(w)
  BY <1>16 DEF PredFalse
<1>17. CASE IdleSleep(w)
  BY <1>17 DEF IdleSleep
<1>18. CASE IdleRelock(w)
  BY <1>18 DEF IdleRelock
<1>19. CASE SpuriousWorker(w)
  BY <1>19 DEF SpuriousWorker
<1>20. CASE ExecuteBegin(w)
  BY <1>20 DEF ExecuteBegin
<1>21. CASE \E failed \in 0 .. 1 : ExecuteBody(w, failed)
  BY <1>21 DEF ExecuteBody
<1>22. CASE ExecuteUnbusy(w) \/ ExecuteEnd(w)
  BY <1>22 DEF ExecuteUnbusy, ExecuteEnd
<1>23. QED
  BY <1>1, <1>2, <1>3, <1>4, <1>5, <1>6, <1>7, <1>8, <1>9, <1>10, <1>11, <1>12, <1>13, <1>14,
     <1>15, <1>16, <1>17, <1>18, <1>19, <1>20, <1>21, <1>22
     DEF WorkerStep

LEMMA NextTypes == Types /\ [Next]_vars => Types'
<1> SUFFICES ASSUME Types, [Next]_vars PROVE Types'
  OBVIOUS
<1> USE DEF queueVars, clientVars, workerVars, locals
<1>1. ASSUME NEW p \in Producers, NEW k \in Kinds, NEW t \in Tasks, Enter(p, k, t) PROVE Types'
  <2>1. count' \in Counters
    BY <1>1, CountTypes DEF Next
  <2>2. QED
    BY <1>1, <2>1 DEF Enter, ProducerGoto, Types, TypeOK
<1>2. CASE \E p \in Producers : ProducerStep(p) \/ SpuriousProducer(p)
  BY <1>2, ProducerTypes, CountTypes DEF Next
<1>3. CASE \E w \in Workers : WorkerStep(w) \/ SpuriousWorker(w)
  BY <1>3, WorkerTypes, CountTypes DEF Next
<1>4. ASSUME NEW c \in Closers, Shutdown(c) \/ ShutdownStep(c) PROVE Types'
  <2> USE DEF CloserGoto, Types, TypeOK
  <2>1. CASE Shutdown(c)
    BY <2>1 DEF Shutdown
  <2>2. CASE ShutdownNotifyCv(c)
    <3>1. /\ wpc' = [w \in Workers |-> wpc'[w]]
          /\ \A w \in Workers : wpc'[w] = wpc[w] \/ (wpc[w] = "sleeping" /\ wpc'[w] = "relock")
      BY <2>2, NotifiedWorker DEF ShutdownNotifyCv, NotifyAllCv
    <3>2. QED
      BY <2>2, <3>1 DEF ShutdownNotifyCv, InHand
  <2>3. CASE ShutdownNotifyNotFull(c)
    <3>1. /\ pc' = [p \in Producers |-> pc'[p]]
          /\ \A p \in Producers : pc'[p] = pc[p] \/ (pc[p] = "blocked" /\ pc'[p] = "relock")
      BY <2>3, NotifiedProducer DEF ShutdownNotifyNotFull
    <3>2. QED
      BY <2>3, <3>1 DEF ShutdownNotifyNotFull
  <2>4. CASE ShutdownAwaitSubmits(c) \/ ShutdownJoin(c)
    BY <2>4 DEF ShutdownAwaitSubmits, ShutdownJoin
  <2>5. QED
    BY <1>4, <2>1, <2>2, <2>3, <2>4 DEF ShutdownStep
<1>5. CASE Destroy
  BY <1>5 DEF Destroy, Types, TypeOK
<1>6. CASE UNCHANGED vars
  BY <1>6 DEF vars, Types, TypeOK
<1>7. QED
  BY <1>1, <1>2, <1>3, <1>4, <1>5, <1>6 DEF Next, Terminated

(* The types hold in every reachable state: no queue or deque outgrows its *)
(* slots, and no batch its size.                                           *)
THEOREM StealingTypeOK == Spec => []TypeOK
<1>1. Types => TypeOK
  BY DEF Types
<1>2. QED
  BY <1>1, InitTypes, NextTypes, PTL DEF Spec

-----------------------------------------------------------------------------
(* Where the tasks are.  The shared queue and the deques are one family of *)
(* queues, and a step either leaves their contents alone, puts a task into *)
(* one of them or takes one out.                                           *)

Queues == Workers \cup {NULL}
Queue(q) == IF q = NULL THEN incoming_ ELSE deques_[q]
Content == [q \in Queues |-> Elements(Queue(q))]

Distinct(s) == \A i, j \in DOMAIN s : s[i] = s[j] => i = j

LEMMA ElementsAppend ==
  ASSUME NEW S, NEW s \in Seq(S), NEW x \in S, x \notin Elements(s), Distinct(s)
  PROVE  Distinct(Append(s, x)) /\ Elements(Append(s, x)) = Elements(s) \cup {x}
<1> DEFINE a == Append(s, x)
<1>1. /\ Len(s) \in Nat /\ DOMAIN s = 1 .. Len(s) /\ DOMAIN a = 1 .. Len(s) + 1
      /\ (\A i \in 1 .. Len(s) : a[i] = s[i]) /\ a[Len(s) + 1] = x
  OBVIOUS
<1> HIDE DEF a
<1>2. \A i \in DOMAIN a : i \in DOMAIN s \/ i = Len(s) + 1
  BY <1>1
<1>3. Len(s) + 1 \in DOMAIN a /\ DOMAIN s \subseteq DOMAIN a
  BY <1>1
<1>4. Distinct(a)
  BY <1>1, <1>2 DEF Distinct, Elements
<1>5. Elements(a) = Elements(s) \cup {x}
  BY <1>1, <1>2, <1>3 DEF Elements
<1>6. QED
  BY <1>4, <1>5 DEF a

LEMMA ElementsTail ==
  ASSUME NEW S, NEW s \in Seq(S), s # <<>>, Distinct(s)
  PROVE  /\ Head(s) \in Elements(s) /\ Distinct(Tail(s))
         /\ Elements(Tail(s)) = Elements(s) \ {Head(s)}
<1> DEFINE a == Tail(s)
           x == Head(s)
<1>1. /\ Len(s) \in Nat \ {0} /\ DOMAIN s = 1 .. Len(s) /\ DOMAIN a = 1 .. Len(s) - 1
      /\ (\A i \in 1 .. Len(s) - 1 : a[i] = s[i + 1]) /\ x = s[1]
  OBVIOUS
<1> HIDE DEF a, x
<1>2. \A i \in DOMAIN a : i + 1 \in DOMAIN s /\ i + 1 # 1
  BY <1>1
<1>3. \A i \in DOMAIN s : i # 1 => i - 1 \in DOMAIN a /\ a[i - 1] = s[i]
  BY <1>1
<1>4. x \in Elements(s)
  BY <1>1 DEF Elements
<1>5. Distinct(a)
  <2> SUFFICES ASSUME NEW i \in DOMAIN a, NEW j \in DOMAIN a, a[i] = a[j] PROVE i = j
    BY DEF Distinct
  <2>1. i + 1 = j + 1
    BY <1>1, <1>2 DEF Distinct
  <2>2. QED
    BY <1>1, <2>1
<1>6. Elements(a) \subseteq Elements(s) \ {x}
  <2> SUFFICES ASSUME NEW i \in DOMAIN a PROVE a[i] \in Elements(s) /\ a[i] # x
    BY DEF Elements
  <2>1. i + 1 \in DOMAIN s /\ i + 1 # 1 /\ 1 \in DOMAIN s /\ a[i] = s[i + 1]
    BY <1>1, <1>2
  <2>2. QED
    BY <1>1, <2>1 DEF Distinct, Elements
<1>7. Elements(s) \ {x} \subseteq Elements(a)
  BY <1>1, <1>3 DEF Elements
<1>8. QED
  BY <1>4, <1>5, <1>6, <1>7 DEF a, x

LEMMA ElementsFront ==
  ASSUME NEW S, NEW s \in Seq(S), s # <<>>, Distinct(s)
  PROVE  /\ s[Len(s)] \in Elements(s) /\ Distinct(SubSeq(s, 1, Len(s) - 1))
         /\ Elements(SubSeq(s, 1, Len(s) - 1)) = Elements(s) \ {s[Len(s)]}
<1> DEFINE a == SubSeq(s, 1, Len(s) - 1)
           x == s[Len(s)]
<1>1. /\ Len(s) \in Nat \ {0} /\ DOMAIN s = 1 .. Len(s) /\ DOMAIN a = 1 .. Len(s) - 1
      /\ \A i \in 1 .. Len(s) - 1 : a[i] = s[i]
  OBVIOUS
<1> HIDE DEF a
<1>2. \A i \in DOMAIN a : i \in DOMAIN s /\ i # Len(s)
  BY <1>1
<1>3. Len(s) \in DOMAIN s /\ \A i \in DOMAIN s : i # Len(s) => i \in DOMAIN a
  BY <1>1
<1>4. x \in Elements(s) /\ Distinct(a) /\ Elements(a) = Elements(s) \ {x}
  BY <1>1, <1>2, <1>3 DEF Distinct, Elements
<1>5. QED
  BY <1>4 DEF a

-----------------------------------------------------------------------------
Live == {"accepted", "late"}
Holding(w) == wpc[w] \in {"store", "execute", "running"}
Offering(p) == pc[p] \in {"check", "push", "lock", "blockPush", "blockPred", "drowsy", "blocked",
                           "relock"}

AllDistinct == \A q \in Queues : Distinct(Queue(q))

(* An accepted task that has not run is in one queue or in the hands of    *)
(* one worker; nothing else is.                                            *)
Located ==
  /\ \A q, r \in Queues : q # r => Content[q] \cap Content[r] = {}
  /\ \A q \in Queues : \A t \in Content[q] : fate[t] \in Live
  /\ \A w \in Workers : Holding(w) => /\ fate[held[w]] \in Live
                                      /\ \A q \in Queues : held[w] \notin Content[q]
  /\ \A v, w \in Workers : Holding(v) /\ Holding(w) /\ held[v] = held[w] => v = w
  /\ \A w \in Workers : wpc[w] \in {"ran", "unbusied", "ranNotify"} => fate[held[w]] = "done"
  /\ \A t \in Tasks : fate[t] \in Live => \/ \E q \in Queues : t \in Content[q]
                                          \/ \E w \in Workers : Holding(w) /\ held[w] = t

(* Two calls never offer the same task.                                    *)
Offers ==
  /\ \A p \in Producers : Offering(p) => fate[call[p]] = "calling"
  /\ \A p, q \in Producers : Offering(p) /\ Offering(q) /\ call[p] = call[q] => p = q

PlaceInv == Types /\ AllDistinct /\ Located /\ Offers

LEMMA ContentType == Types => Content \in [Queues -> SUBSET Tasks]
<1> SUFFICES ASSUME Types, NEW q \in Queues PROVE Elements(Queue(q)) \in SUBSET Tasks
  BY DEF Content
<1>1. Queue(q) \in Seq(Tasks)
  BY NullIsNothing DEF Queues, Queue, Types, TypeOK
<1>2. QED
  BY <1>1 DEF Elements

(* Steps that move no task.                                                *)
LEMMA NothingMoves ==
  ASSUME Types, Located, Content' = Content,
         \A w \in Workers : /\ wpc'[w] \in {"store", "execute", "running"} <=> Holding(w)
                            /\ Holding(w) => held'[w] = held[w]
                            /\ wpc'[w] \in {"ran", "unbusied", "ranNotify"} =>
                                 wpc[w] \in {"ran", "unbusied", "ranNotify"} /\ held'[w] = held[w],
         \A t \in Tasks : \/ fate'[t] = fate[t]
                          \/ fate[t] \notin Live \cup {"done"} /\ fate'[t] \notin Live
  PROVE  Located'
<1>1. /\ \A q \in Queues : Content[q] \subseteq Tasks
      /\ \A w \in Workers : Holding(w) \/ wpc[w] \in {"ran", "unbusied", "ranNotify"} => held[w] \in Tasks
  BY ContentType DEF Types, TypeOK, Holding, InHand
<1>2. \A q \in Queues : \A t \in Content[q] : fate'[t] \in Live
  BY <1>1 DEF Located
<1>3. \A w \in Workers : Holding(w)' => /\ fate'[held'[w]] \in Live
                                        /\ \A q \in Queues : held'[w] \notin Content[q]
  BY <1>1 DEF Located, Holding
<1>4. \A v, w \in Workers : Holding(v)' /\ Holding(w)' /\ held'[v] = held'[w] => v = w
  BY DEF Located, Holding
<1>5. \A w \in Workers : wpc'[w] \in {"ran", "unbusied", "ranNotify"} => fate'[held'[w]] = "done"
  BY <1>1 DEF Located, Live
<1>6. \A t \in Tasks : fate'[t] \in Live => \/ \E q \in Queues : t \in Content[q]
                                            \/ \E w \in Workers : Holding(w)' /\ held'[w] = t
  BY DEF Located, Holding
<1>7. \A q, r \in Queues : q # r => Content[q] \cap Content[r] = {}
  BY DEF Located
<1>8. QED
  BY <1>2, <1>3, <1>4, <1>5, <1>6, <1>7 DEF Located

(* A worker takes t out of queue q.                                        *)
LEMMA TaskTaken ==
  ASSUME Types, Located, NEW w \in Workers, NEW q \in Queues, NEW t \in Content[q],
         ~Holding(w), NEW l \in {"store", "execute"},
         Content' = [Content EXCEPT ![q] = @ \ {t}],
         held' = [held EXCEPT ![w] = t], wpc' = [wpc EXCEPT ![w] = l], fate' = fate
  PROVE  Located'
<1>1. /\ Content \in [Queues -> SUBSET Tasks] /\ DOMAIN wpc = Workers
      /\ DOMAIN held = Workers
  BY ContentType DEF Types, TypeOK
<1>2. \A r \in Queues : /\ Content'[r] \subseteq Content[r] /\ t \notin Content'[r]
                        /\ Content[r] \subseteq Content'[r] \cup {t}
  BY <1>1 DEF Located
<1>3. /\ held'[w] = t /\ wpc'[w] \in {"store", "execute"}
      /\ \A v \in Workers : v # w => held'[v] = held[v] /\ wpc'[v] = wpc[v]
  BY <1>1
<1>4. fate[t] \in Live /\ \A v \in Workers : Holding(v) => held[v] # t
  BY DEF Located
<1>5. \A v \in Workers : Holding(v)' => /\ fate[held'[v]] \in Live
                                        /\ \A r \in Queues : held'[v] \notin Content'[r]
  BY <1>2, <1>3, <1>4 DEF Located, Holding
<1>6. \A u, v \in Workers : Holding(u)' /\ Holding(v)' /\ held'[u] = held'[v] => u = v
  BY <1>3, <1>4 DEF Located, Holding
<1>7. \A v \in Workers : wpc'[v] \in {"ran", "unbusied", "ranNotify"} => fate[held'[v]] = "done"
  BY <1>3 DEF Located
<1>8. \A x \in Tasks : fate[x] \in Live => \/ \E r \in Queues : x \in Content'[r]
                                           \/ \E v \in Workers : Holding(v)' /\ held'[v] = x
  <2> SUFFICES ASSUME NEW x \in Tasks, fate[x] \in Live
               PROVE  \/ \E r \in Queues : x \in Content'[r]
                      \/ \E v \in Workers : Holding(v)' /\ held'[v] = x
    OBVIOUS
  <2>1. CASE x = t
    BY <1>3, <2>1 DEF Holding
  <2>2. CASE \E r \in Queues : x \in Content[r] /\ x # t
    BY <1>2, <2>2
  <2>3. CASE \E v \in Workers : Holding(v) /\ held[v] = x
    BY <1>3, <2>3 DEF Holding
  <2>4. QED
    BY <2>1, <2>2, <2>3 DEF Located
<1>9. /\ \A r, u \in Queues : r # u => Content'[r] \cap Content'[u] = {}
      /\ \A r \in Queues : \A x \in Content'[r] : fate[x] \in Live
  BY <1>2 DEF Located
<1>10. QED
  BY <1>5, <1>6, <1>7, <1>8, <1>9 DEF Located

(* A worker puts the task in its hands into queue q.                       *)
LEMMA TaskStored ==
  ASSUME Types, Located, NEW w \in Workers, NEW q \in Queues, Holding(w),
         Content' = [Content EXCEPT ![q] = @ \cup {held[w]}],
         held' = [held EXCEPT ![w] = NULL], wpc' = [wpc EXCEPT ![w] = "fillNotify"], fate' = fate
  PROVE  Located'
<1> DEFINE t == held[w]
<1>1. /\ Content \in [Queues -> SUBSET Tasks] /\ DOMAIN wpc = Workers
      /\ DOMAIN held = Workers
  BY ContentType DEF Types, TypeOK
<1>2. /\ \A r \in Queues : r # q => Content'[r] = Content[r]
      /\ Content'[q] = Content[q] \cup {t}
  BY <1>1
<1>3. /\ ~Holding(w)' /\ wpc'[w] = "fillNotify"
      /\ \A v \in Workers : v # w => held'[v] = held[v] /\ wpc'[v] = wpc[v]
  BY <1>1 DEF Holding
<1>4. /\ fate[t] \in Live /\ \A r \in Queues : t \notin Content[r]
      /\ \A v \in Workers : Holding(v) /\ held[v] = t => v = w
  BY DEF Located
<1> HIDE DEF t
<1>5. \A v \in Workers : Holding(v)' => Holding(v) /\ v # w /\ held'[v] = held[v] /\ held[v] # t
  BY <1>3, <1>4 DEF Holding
<1>6. \A v \in Workers : Holding(v)' => /\ fate[held'[v]] \in Live
                                        /\ \A r \in Queues : held'[v] \notin Content'[r]
  BY <1>2, <1>5 DEF Located
<1>7. \A u, v \in Workers : Holding(u)' /\ Holding(v)' /\ held'[u] = held'[v] => u = v
  BY <1>5 DEF Located
<1>8. \A v \in Workers : wpc'[v] \in {"ran", "unbusied", "ranNotify"} => fate[held'[v]] = "done"
  BY <1>3 DEF Located
<1>9. \A x \in Tasks : fate[x] \in Live => \/ \E r \in Queues : x \in Content'[r]
                                           \/ \E v \in Workers : Holding(v)' /\ held'[v] = x
  <2> SUFFICES ASSUME NEW x \in Tasks, fate[x] \in Live
               PROVE  \/ \E r \in Queues : x \in Content'[r]
                      \/ \E v \in Workers : Holding(v)' /\ held'[v] = x
    OBVIOUS
  <2>1. CASE x = t
    BY <1>2, <2>1
  <2>2. CASE \E r \in Queues : x \in Content[r]
    BY <1>2, <2>2
  <2>3. CASE \E v \in Workers : Holding(v) /\ held[v] = x /\ x # t
    BY <1>3, <2>3 DEF Holding, t
  <2>4. QED
    BY <2>1, <2>2, <2>3 DEF Located
<1>10. /\ \A r, u \in Queues : r # u => Content'[r] \cap Content'[u] = {}
       /\ \A r \in Queues : \A x \in Content'[r] : fate[x] \in Live
  BY <1>2, <1>4 DEF Located
<1>11. QED
  BY <1>6, <1>7, <1>8, <1>9, <1>10 DEF Located

(* A producer puts a new task into incoming_.                              *)
LEMMA TaskPushed ==
  ASSUME Types, Located, NEW t \in Tasks, fate[t] = "calling", NEW f \in Live,
         Content' = [Content EXCEPT ![NULL] = @ \cup {t}],
         held' = held, wpc' = wpc, fate' = [fate EXCEPT ![t] = f]
  PROVE  Located'
<1>1. /\ Content \in [Queues -> SUBSET Tasks] /\ DOMAIN fate = Tasks
      /\ NULL \in Queues
  BY ContentType DEF Types, TypeOK, Queues
<1>2. /\ \A r \in Queues : r # NULL => Content'[r] = Content[r]
      /\ Content'[NULL] = Content[NULL] \cup {t}
      /\ fate'[t] \in Live /\ \A x \in Tasks : x # t => fate'[x] = fate[x]
  BY <1>1
<1>a. \A r \in Queues : t \notin Content[r]
  BY DEF Located, Live
<1>b. \A v \in Workers : Holding(v) \/ wpc[v] \in {"ran", "unbusied", "ranNotify"} => held[v] # t
  BY DEF Located, Live
<1>c. \A v \in Workers : Holding(v) \/ wpc[v] \in {"ran", "unbusied", "ranNotify"} => held[v] \in Tasks
  BY DEF Types, TypeOK, Holding, InHand
<1>3. /\ \A r \in Queues : t \notin Content[r]
      /\ \A v \in Workers : Holding(v) \/ wpc[v] \in {"ran", "unbusied", "ranNotify"} =>
                              held[v] # t /\ held[v] \in Tasks
  BY <1>a, <1>b, <1>c
<1>4. \A v \in Workers : Holding(v) => /\ fate'[held[v]] \in Live
                                       /\ \A r \in Queues : held[v] \notin Content'[r]
  BY <1>2, <1>3 DEF Located
<1>5. \A v \in Workers : wpc[v] \in {"ran", "unbusied", "ranNotify"} => fate'[held[v]] = "done"
  BY <1>2, <1>3 DEF Located
<1>6. \A x \in Tasks : fate'[x] \in Live => \/ \E r \in Queues : x \in Content'[r]
                                            \/ \E v \in Workers : Holding(v) /\ held[v] = x
  BY <1>1, <1>2 DEF Located
<1>7. \A r, u \in Queues : r # u => Content'[r] \cap Content'[u] = {}
  BY <1>2, <1>3 DEF Located
<1>8. \A r \in Queues : \A x \in Content'[r] : fate'[x] \in Live
  BY <1>1, <1>2, <1>3 DEF Located
<1>9. QED
  BY <1>4, <1>5, <1>6, <1>7, <1>8 DEF Located, Holding

(* A worker runs the task in its hands.                                    *)
LEMMA TaskExecuted ==
  ASSUME Types, Located, NEW w \in Workers, wpc[w] = "running", Content' = Content, held' = held,
         wpc' = [wpc EXCEPT ![w] = "ran"], fate' = [fate EXCEPT ![held[w]] = "done"]
  PROVE  Located'
<1> DEFINE t == held[w]
<1>1. DOMAIN fate = Tasks /\ DOMAIN wpc = Workers
  BY DEF Types, TypeOK
<1>2. t \in Tasks
  BY DEF Types, TypeOK, InHand
<1>3. /\ fate'[t] = "done" /\ wpc'[w] = "ran"
      /\ \A x \in Tasks : x # t => fate'[x] = fate[x]
      /\ \A v \in Workers : v # w => wpc'[v] = wpc[v]
  BY <1>1, <1>2
<1>4. /\ Holding(w) /\ \A r \in Queues : t \notin Content[r]
      /\ \A v \in Workers : Holding(v) /\ held[v] = t => v = w
  BY DEF Located, Holding
<1> HIDE DEF t
<1>5. \A v \in Workers : Holding(v) \/ wpc[v] \in {"ran", "unbusied", "ranNotify"} => held[v] \in Tasks
  BY DEF Types, TypeOK, Holding, InHand
<1>6. \A q \in Queues : Content[q] \subseteq Tasks
  BY ContentType
<1>7. \A v \in Workers : Holding(v)' => Holding(v) /\ v # w /\ held[v] # t
  BY <1>3, <1>4 DEF Holding
<1>8. \A v \in Workers : Holding(v)' => /\ fate'[held[v]] \in Live
                                        /\ \A r \in Queues : held[v] \notin Content[r]
  BY <1>3, <1>5, <1>7 DEF Located
<1>9. \A u, v \in Workers : Holding(u)' /\ Holding(v)' /\ held[u] = held[v] => u = v
  BY <1>7 DEF Located
<1>10. \A v \in Workers : wpc'[v] \in {"ran", "unbusied", "ranNotify"} => fate'[held[v]] = "done"
  <2> SUFFICES ASSUME NEW v \in Workers, wpc'[v] \in {"ran", "unbusied", "ranNotify"}
               PROVE  fate'[held[v]] = "done"
    OBVIOUS
  <2>1. CASE v = w
    BY <1>3, <2>1 DEF t
  <2>2. CASE v # w
    BY <1>3, <1>5, <2>2 DEF Located
  <2>3. QED
    BY <2>1, <2>2
<1>11. \A x \in Tasks : fate'[x] \in Live => \/ \E r \in Queues : x \in Content[r]
                                             \/ \E v \in Workers : Holding(v)' /\ held[v] = x
  <2> SUFFICES ASSUME NEW x \in Tasks, fate'[x] \in Live
               PROVE  \/ \E r \in Queues : x \in Content[r]
                      \/ \E v \in Workers : Holding(v)' /\ held[v] = x
    OBVIOUS
  <2>1. x # t /\ fate[x] \in Live
    BY <1>3 DEF Live
  <2>2. CASE \E v \in Workers : Holding(v) /\ held[v] = x
    BY <1>3, <2>1, <2>2 DEF Holding, t
  <2>3. QED
    BY <2>1, <2>2 DEF Located
<1>12. /\ \A r, u \in Queues : r # u => Content[r] \cap Content[u] = {}
       /\ \A r \in Queues : \A x \in Content[r] : fate'[x] \in Live
  <2>1. \A r \in Queues : \A x \in Content[r] : x \in Tasks /\ x # t
    BY <1>4, <1>6
  <2>2. QED
    BY <1>3, <2>1 DEF Located
<1>13. QED
  BY <1>8, <1>9, <1>10, <1>11, <1>12 DEF Located, Holding

(* How the contents follow from the queues.                                *)
LEMMA IncomingChanges ==
  ASSUME Types, AllDistinct, deques_' = deques_, Distinct(incoming_')
  PROVE  /\ Content' = [Content EXCEPT ![NULL] = Elements(incoming_')]
         /\ AllDistinct' /\ Content[NULL] = Elements(incoming_)
<1>1. NULL \in Queues
  BY DEF Queues
<1>2. QED
  BY <1>1 DEF Content, AllDistinct, Queue

LEMMA DequeChanges ==
  ASSUME Types, AllDistinct, incoming_' = incoming_, NEW w \in Workers, NEW s, Distinct(s),
         deques_' = [deques_ EXCEPT ![w] = s]
  PROVE  /\ Content' = [Content EXCEPT ![w] = Elements(s)]
         /\ AllDistinct' /\ Content[w] = Elements(deques_[w])
<1>1. w \in Queues /\ w # NULL /\ DOMAIN deques_ = Workers
  BY NullIsNothing DEF Queues, Types, TypeOK
<1>2. \A q \in Queues : Queue(q)' = IF q = w THEN s ELSE Queue(q)
  BY <1>1 DEF Queue, Queues
<1>3. AllDistinct'
  BY <1>2 DEF AllDistinct
<1>4. Content' = [q \in Queues |-> Elements(IF q = w THEN s ELSE Queue(q))]
  BY <1>2 DEF Content
<1>5. QED
  BY <1>1, <1>3, <1>4 DEF Content, Queue

LEMMA QueuesStill ==
  ASSUME AllDistinct, UNCHANGED <<incoming_, deques_>>
  PROVE  Content' = Content /\ AllDistinct'
  BY DEF Content, AllDistinct, Queue

(* A step of p's call keeps its offer, or settles the fate of its task and *)
(* ends it.                                                                *)
LEMMA OfferStep ==
  ASSUME Types, Offers, NEW p \in Producers, Offering(p) \/ ~Offering(p)', call' = call,
         \A q \in Producers : q # p => pc'[q] = pc[q],
         \/ fate' = fate
         \/ Offering(p) /\ ~Offering(p)' /\ \E f : fate' = [fate EXCEPT ![call[p]] = f]
  PROVE  Offers'
<1>1. \A q \in Producers : Offering(q) => call[q] \in Tasks
  BY DEF Types, Offering
<1>2. \A q \in Producers : Offering(q)' => Offering(q)
  BY DEF Offering
<1>3. \A q \in Producers : Offering(q)' => fate'[call[q]] = fate[call[q]]
  <2>1. CASE fate' = fate
    BY <2>1
  <2>2. CASE Offering(p) /\ ~Offering(p)' /\ \E f : fate' = [fate EXCEPT ![call[p]] = f]
    <3>1. \A q \in Producers : Offering(q)' => call[q] # call[p]
      BY <1>2, <2>2 DEF Offers
    <3>2. DOMAIN fate = Tasks
      BY DEF Types, TypeOK
    <3>3. QED
      BY <1>1, <1>2, <2>2, <3>1, <3>2
  <2>3. QED
    BY <2>1, <2>2
<1>4. \A q \in Producers : Offering(q)' => fate'[call'[q]] = "calling"
  BY <1>2, <1>3 DEF Offers
<1>5. QED
  BY <1>2, <1>4 DEF Offers

LEMMA ProducerPlace ==
  ASSUME PlaceInv, NEW p \in Producers, ProducerStep(p) \/ SpuriousProducer(p)
  PROVE  AllDistinct' /\ Located' /\ Offers'
<1> USE DEF PlaceInv
<1>0. DOMAIN pc = Producers /\ DOMAIN fate = Tasks
  BY DEF Types, TypeOK
<1>1. ASSUME UNCHANGED <<incoming_, deques_, wpc, held, call>>, Offering(p) \/ ~Offering(p)',
             \A q \in Producers : q # p => pc'[q] = pc[q],
             \/ fate' = fate
             \/ /\ Offering(p) /\ ~Offering(p)'
                /\ \E f \in {"refused", "threw", "discarded"} : fate' = [fate EXCEPT ![call[p]] = f]
      PROVE  AllDistinct' /\ Located' /\ Offers'
  <2>1. Offers'
    BY <1>1, OfferStep
  <2>2. Content' = Content /\ AllDistinct'
    BY <1>1, QueuesStill
  <2>3. \A t \in Tasks : \/ fate'[t] = fate[t]
                         \/ fate[t] \notin Live \cup {"done"} /\ fate'[t] \notin Live
    BY <1>0, <1>1 DEF Offers, Live
  <2>4. Located'
    BY <1>1, <2>2, <2>3, NothingMoves DEF Holding
  <2>5. QED
    BY <2>1, <2>2, <2>4
<1>2. ASSUME PushIncoming(p), pc[p] \in {"push", "blockPush"},
             \E l \in {"count", "blockCount"} : pc' = [pc EXCEPT ![p] = l],
             UNCHANGED <<deques_, call, held, wpc>>
      PROVE  AllDistinct' /\ Located' /\ Offers'
  <2> DEFINE t == call[p]
  <2>1. Offering(p) /\ ~Offering(p)' /\ \A q \in Producers : q # p => pc'[q] = pc[q]
    BY <1>0, <1>2 DEF Offering
  <2>2. t \in Tasks /\ fate[t] = "calling"
    BY <2>1 DEF Types, Offers, Offering
  <2>3. PICK f \in Live : fate' = [fate EXCEPT ![t] = f]
    BY <1>2 DEF PushIncoming, Live
  <2>4. Offers'
    BY <1>2, <2>1, <2>3, OfferStep
  <2> HIDE DEF t
  <2>5. incoming_' = Append(incoming_, t) /\ incoming_ \in Seq(Tasks)
    BY <1>2 DEF PushIncoming, Types, TypeOK, t
  <2>6. Distinct(incoming_)
    BY DEF AllDistinct, Queue, Queues
  <2>7. t \notin Elements(incoming_)
    <3>1. NULL \in Queues /\ Content[NULL] = Elements(incoming_)
      BY DEF Queues, Queue, Content
    <3>2. QED
      BY <2>2, <3>1 DEF Located, Live
  <2>8. Distinct(incoming_') /\ Elements(incoming_') = Elements(incoming_) \cup {t}
    BY <2>2, <2>5, <2>6, <2>7, ElementsAppend
  <2>9. AllDistinct' /\ Content' = [Content EXCEPT ![NULL] = @ \cup {t}]
    BY <1>2, <2>8, IncomingChanges
  <2>10. Located'
    BY <1>2, <2>2, <2>3, <2>9, TaskPushed
  <2>11. QED
    BY <2>4, <2>9, <2>10
<1> HIDE DEF PlaceInv
<1> USE DEF queueVars, clientVars, workerVars, ProducerGoto
<1>3. CASE CheckStop(p) \/ PushFastFails(p) \/ LockedReject(p) \/ BlockPredTrue(p)
  <2>1. UNCHANGED <<incoming_, deques_, wpc, held, call>>
    BY <1>3 DEF CheckStop, PushFastFails, LockedReject, BlockPredTrue
  <2>2. /\ pc[p] \in {"check", "push", "lock", "blockPred"}
        /\ \E l \in {"push", "lock", "blockPush", "leaving"} : pc' = [pc EXCEPT ![p] = l]
    BY <1>3 DEF CheckStop, PushFastFails, LockedReject, BlockPredTrue
  <2>3. \/ fate' = fate
        \/ /\ pc' = [pc EXCEPT ![p] = "leaving"]
           /\ \E f \in {"refused", "threw", "discarded"} : fate' = [fate EXCEPT ![call[p]] = f]
    BY <1>3 DEF CheckStop, PushFastFails, LockedReject, BlockPredTrue, Refuse
  <2>4. QED
    BY <1>0, <1>1, <2>1, <2>2, <2>3 DEF Offering
<1>4. CASE PushFast(p) \/ BlockPush(p)
  BY <1>2, <1>4 DEF PushFast, BlockPush
<1>5. CASE WakeWorker(p)
  <2>1. wpc' = wpc \/ wpc' \in NotifyOne(wpc, "sleeping", "relock")
    BY <1>5 DEF WakeWorker
  <2>2. \A w \in Workers : wpc'[w] = wpc[w] \/ (wpc[w] = "sleeping" /\ wpc'[w] = "relock")
    BY <2>1, NotifiedWorker DEF PlaceInv, Types
  <2>3. UNCHANGED <<incoming_, deques_, held, fate, call>>
    BY <1>5 DEF WakeWorker
  <2>4. Content' = Content /\ AllDistinct'
    BY <2>3, QueuesStill DEF PlaceInv
  <2>5. Located'
    BY <2>2, <2>3, <2>4, NothingMoves DEF PlaceInv, Holding
  <2>6. ~Offering(p)' /\ \A q \in Producers : q # p => pc'[q] = pc[q]
    BY <1>0, <1>5 DEF WakeWorker, Offering
  <2>7. Offers'
    BY <2>3, <2>6, OfferStep DEF PlaceInv
  <2>8. QED
    BY <2>4, <2>5, <2>7
<1>6. CASE CountSubmitted(p) \/ BlockCount(p)
  BY <1>0, <1>1, <1>6 DEF CountSubmitted, BlockCount, Offering
<1>7. CASE LockForBlock(p) \/ BlockPushFails(p) \/ BlockPredFalse(p) \/ BlockSleep(p)
           \/ BlockRelock(p) \/ SpuriousProducer(p)
  <2>1. UNCHANGED <<incoming_, deques_, wpc, held, call, fate>>
    BY <1>7 DEF LockForBlock, BlockPushFails, BlockPredFalse, BlockSleep, BlockRelock,
                SpuriousProducer
  <2>2. Offering(p) /\ \E l : pc' = [pc EXCEPT ![p] = l]
    BY <1>7 DEF LockForBlock, BlockPushFails, BlockPredFalse, BlockSleep, BlockRelock,
                SpuriousProducer, Offering
  <2>3. QED
    BY <1>0, <1>1, <2>1, <2>2
<1>8. CASE Leave(p)
  <2>1. UNCHANGED <<incoming_, deques_, held, fate, wpc>>
    BY <1>8 DEF Leave
  <2>2. Content' = Content /\ AllDistinct'
    BY <2>1, QueuesStill DEF PlaceInv
  <2>3. Located'
    BY <2>1, <2>2, NothingMoves DEF PlaceInv, Holding
  <2>4. ~Offering(p)' /\ \A q \in Producers : q # p => pc'[q] = pc[q] /\ call'[q] = call[q]
    BY <1>0, <1>8 DEF Leave, Offering, PlaceInv, Types, TypeOK
  <2>5. Offers'
    BY <2>1, <2>4 DEF PlaceInv, Offers, Offering
  <2>6. QED
    BY <2>2, <2>3, <2>5
<1>9. QED
  BY <1>3, <1>4, <1>5, <1>6, <1>7, <1>8 DEF ProducerStep

LEMMA VictimIsWorker == ASSUME Types, NEW w \in Workers PROVE Victim(w) \in Workers
<1>1. num_threads \in Nat \ {0} /\ w \in Int /\ step[w] \in Int
  BY ThreadsKnown DEF Types, TypeOK, Workers
<1>2. QED
  BY <1>1 DEF Victim, Workers

(* A step of a worker that moves no task: it changes only the worker's     *)
(* position, within the positions that hold a task or outside them.        *)
LEMMA IdleStep ==
  ASSUME Types, AllDistinct, Located, NEW w \in Workers, NEW l,
         UNCHANGED <<incoming_, deques_, fate>>, wpc' = [wpc EXCEPT ![w] = l],
         \/ Holding(w) /\ l \in {"store", "execute", "running"} /\ held' = held
         \/ /\ wpc[w] \in {"ran", "unbusied"} /\ l \in {"unbusied", "ranNotify"}
            /\ held' = held
         \/ /\ ~Holding(w) /\ l \notin {"store", "execute", "running", "ran", "unbusied", "ranNotify"}
            /\ held' \in {held, [held EXCEPT ![w] = NULL]}
  PROVE  AllDistinct' /\ Located'
<1>1. DOMAIN wpc = Workers /\ DOMAIN held = Workers
  BY DEF Types, TypeOK
<1>2. Content' = Content /\ AllDistinct'
  BY QueuesStill
<1>3. wpc'[w] = l /\ \A v \in Workers : v # w => wpc'[v] = wpc[v] /\ held'[v] = held[v]
  BY <1>1
<1>4. \A v \in Workers : /\ wpc'[v] \in {"store", "execute", "running"} <=> Holding(v)
                         /\ Holding(v) => held'[v] = held[v]
                         /\ wpc'[v] \in {"ran", "unbusied", "ranNotify"} =>
                              wpc[v] \in {"ran", "unbusied", "ranNotify"} /\ held'[v] = held[v]
  BY <1>3 DEF Holding
<1>5. QED
  BY <1>2, <1>4, NothingMoves

LEMMA WorkerPlace ==
  ASSUME PlaceInv, NEW w \in Workers, WorkerStep(w) \/ SpuriousWorker(w)
  PROVE  AllDistinct' /\ Located'
<1> USE DEF WorkerGoto, queueVars, clientVars, locals, workerVars
<1>0. Types /\ AllDistinct /\ Located /\ Offers
  BY DEF PlaceInv
<1>1. CASE LocalPop(w)
  <2> DEFINE own == deques_[w]
             t == own[Len(own)]
             rest == SubSeq(own, 1, Len(own) - 1)
  <2>1. /\ ~Holding(w) /\ wpc' = [wpc EXCEPT ![w] = "execute"] /\ held' = [held EXCEPT ![w] = t]
        /\ deques_' = [deques_ EXCEPT ![w] = rest] /\ own # <<>> /\ UNCHANGED <<incoming_, fate>>
    BY <1>1 DEF LocalPop, Holding
  <2>2. own \in Seq(Tasks) /\ Distinct(own)
    BY <1>0, NullIsNothing DEF Types, TypeOK, AllDistinct, Queues, Queue
  <2>3. t \in Elements(own) /\ Distinct(rest) /\ Elements(rest) = Elements(own) \ {t}
    BY <2>1, <2>2, ElementsFront
  <2> HIDE DEF rest, t
  <2>4. /\ AllDistinct' /\ Content' = [Content EXCEPT ![w] = Elements(rest)]
        /\ Content[w] = Elements(own)
    BY <1>0, <2>1, <2>3, DequeChanges
  <2>5. Content' = [Content EXCEPT ![w] = @ \ {t}] /\ t \in Content[w] /\ w \in Queues
    BY <2>3, <2>4 DEF Queues
  <2>6. Located'
    BY <1>0, <2>1, <2>5, TaskTaken
  <2>7. QED
    BY <2>4, <2>6
<1>2. CASE FillPop(w)
  <2> DEFINE t == Head(incoming_)
             rest == Tail(incoming_)
  <2>1. /\ ~Holding(w) /\ wpc' = [wpc EXCEPT ![w] = "store"] /\ held' = [held EXCEPT ![w] = t]
        /\ incoming_' = rest /\ incoming_ # <<>> /\ UNCHANGED <<deques_, fate>>
    BY <1>2 DEF FillPop, Holding
  <2>2. incoming_ \in Seq(Tasks) /\ Distinct(incoming_)
    BY <1>0 DEF Types, TypeOK, AllDistinct, Queues, Queue
  <2>3. t \in Elements(incoming_) /\ Distinct(rest) /\ Elements(rest) = Elements(incoming_) \ {t}
    BY <2>1, <2>2, ElementsTail
  <2> HIDE DEF rest, t
  <2>4. /\ AllDistinct' /\ Content' = [Content EXCEPT ![NULL] = Elements(rest)]
        /\ Content[NULL] = Elements(incoming_)
    BY <1>0, <2>1, <2>3, IncomingChanges
  <2>5. Content' = [Content EXCEPT ![NULL] = @ \ {t}] /\ t \in Content[NULL] /\ NULL \in Queues
    BY <2>3, <2>4 DEF Queues
  <2>6. Located'
    BY <1>0, <2>1, <2>5, TaskTaken
  <2>7. QED
    BY <2>4, <2>6
<1>3. CASE Steal(w)
  <2> DEFINE v == Victim(w)
             own == deques_[v]
             t == Head(own)
             rest == Tail(own)
  <2>0. v \in Workers
    BY <1>0, VictimIsWorker
  <2>1. /\ ~Holding(w) /\ wpc' = [wpc EXCEPT ![w] = "execute"] /\ held' = [held EXCEPT ![w] = t]
        /\ deques_' = [deques_ EXCEPT ![v] = rest] /\ own # <<>> /\ UNCHANGED <<incoming_, fate>>
    BY <1>3 DEF Steal, TakeTop, Holding
  <2> HIDE DEF v
  <2>2. own \in Seq(Tasks) /\ Distinct(own)
    BY <1>0, <2>0, NullIsNothing DEF Types, TypeOK, AllDistinct, Queues, Queue
  <2>3. t \in Elements(own) /\ Distinct(rest) /\ Elements(rest) = Elements(own) \ {t}
    BY <2>1, <2>2, ElementsTail
  <2> HIDE DEF rest, t
  <2>4. /\ AllDistinct' /\ Content' = [Content EXCEPT ![v] = Elements(rest)]
        /\ Content[v] = Elements(own)
    BY <1>0, <2>0, <2>1, <2>3, DequeChanges
  <2>5. Content' = [Content EXCEPT ![v] = @ \ {t}] /\ t \in Content[v] /\ v \in Queues
    BY <2>0, <2>3, <2>4 DEF Queues
  <2>6. Located'
    BY <1>0, <2>1, <2>5, TaskTaken
  <2>7. QED
    BY <2>4, <2>6
<1>4. CASE FillStore(w)
  <2> DEFINE own == deques_[w]
             t == held[w]
             more == Append(own, t)
  <2>1. /\ wpc[w] = "store" /\ wpc' = [wpc EXCEPT ![w] = "fillNotify"]
        /\ held' = [held EXCEPT ![w] = NULL]
        /\ deques_' = [deques_ EXCEPT ![w] = more] /\ UNCHANGED <<incoming_, fate>>
    BY <1>4 DEF FillStore
  <2>2. own \in Seq(Tasks) /\ Distinct(own) /\ w \in Queues /\ Content[w] = Elements(own)
    BY <1>0, NullIsNothing DEF Types, TypeOK, AllDistinct, Queues, Queue, Content
  <2>3. Holding(w) /\ t \in Tasks
    BY <1>0, <2>1 DEF Holding, Types, TypeOK, InHand
  <2>4. t \notin Elements(own)
    BY <1>0, <2>2, <2>3 DEF Located
  <2>5. Distinct(more) /\ Elements(more) = Elements(own) \cup {t}
    BY <2>2, <2>3, <2>4, ElementsAppend
  <2> HIDE DEF more
  <2>6. AllDistinct' /\ Content' = [Content EXCEPT ![w] = Elements(more)]
    BY <1>0, <2>1, <2>5, DequeChanges
  <2>7. Content' = [Content EXCEPT ![w] = @ \cup {t}]
    BY <2>2, <2>5, <2>6
  <2>8. Located'
    BY <1>0, <2>1, <2>2, <2>3, <2>7, TaskStored
  <2>9. QED
    BY <2>6, <2>8
<1>5. ASSUME NEW failed \in 0 .. 1, ExecuteBody(w, failed) PROVE AllDistinct' /\ Located'
  <2>1. /\ wpc[w] = "running" /\ wpc' = [wpc EXCEPT ![w] = "ran"]
        /\ fate' = [fate EXCEPT ![held[w]] = "done"] /\ UNCHANGED <<incoming_, deques_, held>>
    BY <1>5 DEF ExecuteBody
  <2>2. Content' = Content /\ AllDistinct'
    BY <1>0, <2>1, QueuesStill
  <2>3. QED
    BY <1>0, <2>1, <2>2, TaskExecuted
<1>6. CASE FillFull(w) \/ ExecuteBegin(w) \/ ExecuteUnbusy(w) \/ ExecuteEnd(w)
  <2>1. /\ UNCHANGED <<incoming_, deques_, held, fate>>
        /\ \/ Holding(w) /\ \E l \in {"execute", "running"} : wpc' = [wpc EXCEPT ![w] = l]
           \/ /\ wpc[w] \in {"ran", "unbusied"}
              /\ \E l \in {"unbusied", "ranNotify"} : wpc' = [wpc EXCEPT ![w] = l]
    BY <1>6 DEF FillFull, ExecuteBegin, ExecuteUnbusy, ExecuteEnd, Holding
  <2>2. QED
    BY <1>0, <2>1, IdleStep
<1>7. CASE Scan(w)
  <2>1. UNCHANGED <<incoming_, deques_, held, fate, wpc>>
    BY <1>7 DEF Scan
  <2>2. Content' = Content /\ AllDistinct'
    BY <1>0, <2>1, QueuesStill
  <2>3. QED
    BY <1>0, <2>1, <2>2, NothingMoves DEF Holding
<1>8. CASE \/ LocalMiss(w) \/ FillEnd(w) \/ FillNotify(w) \/ StealMiss(w) \/ StealNothing(w)
           \/ LockIdle(w) \/ Exit(w) \/ ExitNotYet(w) \/ PredTrue(w) \/ PredFalse(w)
           \/ IdleSleep(w) \/ IdleRelock(w) \/ ExecuteNotify(w) \/ SpuriousWorker(w)
  <2>1. UNCHANGED <<incoming_, deques_, fate>> /\ held' \in {held, [held EXCEPT ![w] = NULL]}
    BY <1>8 DEF LocalMiss, FillEnd, FillNotify, StealMiss, StealNothing, LockIdle, Exit, ExitNotYet,
                PredTrue, PredFalse, IdleSleep, IdleRelock, ExecuteNotify, SpuriousWorker
  <2>2. ~Holding(w)
    BY <1>8 DEF LocalMiss, FillEnd, FillNotify, StealMiss, StealNothing, LockIdle, Exit, ExitNotYet,
                PredTrue, PredFalse, IdleSleep, IdleRelock, ExecuteNotify, SpuriousWorker, Holding
  <2>3. \E l \in {"pop", "fill", "steal", "lock", "exitScan", "exited", "pred", "drowsy",
                  "sleeping", "relock"} : wpc' = [wpc EXCEPT ![w] = l]
    <3>1. CASE FillEnd(w) \/ LockIdle(w) \/ ExecuteNotify(w)
      BY <3>1 DEF FillEnd, LockIdle, ExecuteNotify
    <3>2. CASE LocalMiss(w) \/ FillNotify(w) \/ StealMiss(w) \/ StealNothing(w) \/ Exit(w)
      BY <3>2 DEF LocalMiss, FillNotify, StealMiss, StealNothing, Exit
    <3>3. QED
      BY <1>8, <3>1, <3>2
         DEF ExitNotYet, PredTrue, PredFalse, IdleSleep, IdleRelock, SpuriousWorker
  <2>4. QED
    BY <1>0, <2>1, <2>2, <2>3, IdleStep
<1>9. QED
  BY <1>1, <1>2, <1>3, <1>4, <1>5, <1>6, <1>7, <1>8 DEF WorkerStep

(* Notifications move no offer; running a task touches no offered one.     *)
LEMMA OthersOffers ==
  ASSUME Types, Located, Offers, call' = call,
         \A p \in Producers : pc'[p] = pc[p] \/ (pc[p] = "blocked" /\ pc'[p] = "relock"),
         \/ fate' = fate
         \/ \E w \in Workers : Holding(w) /\ fate' = [fate EXCEPT ![held[w]] = "done"]
  PROVE  Offers'
<1>1. \A p \in Producers : Offering(p)' <=> Offering(p)
  BY DEF Offering
<1>2. \A p \in Producers : Offering(p) => call[p] \in Tasks
  BY DEF Offering, Types
<1>3. DOMAIN fate = Tasks
  BY DEF Types, TypeOK
<1>4. \A p \in Producers : Offering(p) => fate'[call[p]] = fate[call[p]]
  BY <1>2, <1>3 DEF Offers, Located, Live
<1>5. QED
  BY <1>1, <1>4 DEF Offers

LEMMA WorkerOffers ==
  ASSUME PlaceInv, NEW w \in Workers, WorkerStep(w) \/ SpuriousWorker(w)
  PROVE  Offers'
<1>1. call' = call
  BY DEF WorkerStep, SpuriousWorker, LocalPop, LocalMiss, FillPop, FillEnd, FillStore, FillFull,
         FillNotify, Steal, StealMiss, StealNothing, LockIdle, Scan, Exit, ExitNotYet, PredTrue,
         PredFalse, IdleSleep, IdleRelock, ExecuteBegin, ExecuteBody, ExecuteUnbusy, ExecuteEnd, ExecuteNotify,
         clientVars
<1>2. pc' = pc \/ pc' \in NotifyOne(pc, "blocked", "relock")
  BY DEF WorkerStep, SpuriousWorker, LocalPop, LocalMiss, FillPop, FillEnd, FillStore, FillFull,
         FillNotify, Steal, StealMiss, StealNothing, LockIdle, Scan, Exit, ExitNotYet, PredTrue,
         PredFalse, IdleSleep, IdleRelock, ExecuteBegin, ExecuteBody, ExecuteUnbusy, ExecuteEnd, ExecuteNotify,
         NotifyProducer, clientVars
<1>3. fate' = fate \/ (Holding(w) /\ fate' = [fate EXCEPT ![held[w]] = "done"])
  BY DEF WorkerStep, SpuriousWorker, LocalPop, LocalMiss, FillPop, FillEnd, FillStore, FillFull,
         FillNotify, Steal, StealMiss, StealNothing, LockIdle, Scan, Exit, ExitNotYet, PredTrue,
         PredFalse, IdleSleep, IdleRelock, ExecuteBegin, ExecuteBody, ExecuteUnbusy, ExecuteEnd, ExecuteNotify,
         WorkerGoto, Holding
<1>4. \A p \in Producers : pc'[p] = pc[p] \/ (pc[p] = "blocked" /\ pc'[p] = "relock")
  BY <1>2, NotifiedProducer DEF PlaceInv, Types
<1>5. QED
  BY <1>1, <1>3, <1>4, OthersOffers DEF PlaceInv

LEMMA InitPlace == Init => PlaceInv
<1> SUFFICES ASSUME Init PROVE PlaceInv
  OBVIOUS
<1>1. Types
  BY InitTypes
<1>2. \A q \in Queues : Queue(q) = <<>>
  BY DEF Init, Queues, Queue
<1>3. AllDistinct /\ \A q \in Queues : Content[q] = {}
  BY <1>2 DEF AllDistinct, Distinct, Content, Elements
<1>4. \A w \in Workers : wpc[w] = "pop"
  BY DEF Init
<1>5. \A t \in Tasks : fate[t] = "new"
  BY DEF Init
<1>6. Located
  BY <1>3, <1>4, <1>5 DEF Located, Holding, Live
<1>7. Offers
  BY DEF Init, Offers, Offering
<1>8. QED
  BY <1>1, <1>3, <1>6, <1>7 DEF PlaceInv

LEMMA NextPlace == PlaceInv /\ [Next]_vars => PlaceInv'
<1> SUFFICES ASSUME PlaceInv, [Next]_vars PROVE PlaceInv'
  OBVIOUS
<1>0. Types' /\ Types /\ AllDistinct /\ Located /\ Offers
  BY NextTypes DEF PlaceInv
<1> USE DEF queueVars, clientVars, workerVars, locals
<1>1. ASSUME NEW p \in Producers, NEW k \in Kinds, NEW t \in Tasks, Enter(p, k, t)
      PROVE  PlaceInv'
  <2>1. /\ fate[t] = "new" /\ pc[p] = "out" /\ pc' = [pc EXCEPT ![p] = "check"]
        /\ call' = [call EXCEPT ![p] = t] /\ fate' = [fate EXCEPT ![t] = "calling"]
        /\ UNCHANGED <<incoming_, deques_, wpc, held>>
    BY <1>1 DEF Enter, ProducerGoto
  <2>2. DOMAIN pc = Producers /\ DOMAIN call = Producers /\ DOMAIN fate = Tasks
    BY <1>0 DEF Types, TypeOK
  <2>3. Content' = Content /\ AllDistinct'
    BY <1>0, <2>1, QueuesStill
  <2>4. \A x \in Tasks : \/ fate'[x] = fate[x]
                         \/ fate[x] \notin Live \cup {"done"} /\ fate'[x] \notin Live
    BY <2>1, <2>2 DEF Live
  <2>5. Located'
    BY <1>0, <2>1, <2>3, <2>4, NothingMoves DEF Holding
  <2>6. /\ call'[p] = t /\ fate'[t] = "calling"
        /\ \A q \in Producers : q # p => pc'[q] = pc[q] /\ call'[q] = call[q]
        /\ \A x \in Tasks : x # t => fate'[x] = fate[x]
    BY <2>1, <2>2
  <2>7. \A q \in Producers : Offering(q) => call[q] # t /\ call[q] \in Tasks
    BY <1>0, <2>1 DEF Offers, Offering, Types
  <2>8. \A q \in Producers : Offering(q)' => q = p \/ (Offering(q) /\ q # p)
    BY <2>6 DEF Offering
  <2>9. \A q \in Producers : Offering(q)' => fate'[call'[q]] = "calling"
    BY <1>0, <2>6, <2>7, <2>8 DEF Offers
  <2>10. \A q, r \in Producers : Offering(q)' /\ Offering(r)' /\ call'[q] = call'[r] => q = r
    BY <1>0, <2>6, <2>7, <2>8 DEF Offers
  <2>11. QED
    BY <1>0, <2>3, <2>5, <2>9, <2>10 DEF PlaceInv, Offers
<1>2. CASE \E p \in Producers : ProducerStep(p) \/ SpuriousProducer(p)
  BY <1>0, <1>2, ProducerPlace DEF PlaceInv
<1>3. CASE \E w \in Workers : WorkerStep(w) \/ SpuriousWorker(w)
  BY <1>0, <1>3, WorkerPlace, WorkerOffers DEF PlaceInv
<1>4. CASE (\E c \in Closers : Shutdown(c) \/ ShutdownStep(c)) \/ Destroy \/ UNCHANGED vars
  <2>1. UNCHANGED <<incoming_, deques_, fate, held, call>>
    BY <1>4 DEF Shutdown, ShutdownStep, ShutdownNotifyCv, ShutdownNotifyNotFull,
                ShutdownAwaitSubmits, ShutdownJoin, Destroy, vars
  <2>2. /\ wpc' = wpc \/ wpc' = NotifyAll(wpc, "sleeping", "relock")
        /\ pc' = pc \/ pc' = NotifyAll(pc, "blocked", "relock")
    BY <1>4 DEF Shutdown, ShutdownStep, ShutdownNotifyCv, ShutdownNotifyNotFull,
                ShutdownAwaitSubmits, ShutdownJoin, Destroy, NotifyAllCv, vars
  <2>3. \A w \in Workers : wpc'[w] = wpc[w] \/ (wpc[w] = "sleeping" /\ wpc'[w] = "relock")
    BY <1>0, <2>2, NotifiedWorker DEF Types
  <2>4. \A p \in Producers : pc'[p] = pc[p] \/ (pc[p] = "blocked" /\ pc'[p] = "relock")
    BY <1>0, <2>2, NotifiedProducer DEF Types
  <2>5. Content' = Content /\ AllDistinct'
    BY <1>0, <2>1, QueuesStill
  <2>6. Located'
    BY <1>0, <2>1, <2>3, <2>5, NothingMoves DEF Holding
  <2>7. Offers'
    BY <1>0, <2>1, <2>4, OthersOffers
  <2>8. QED
    BY <1>0, <2>5, <2>6, <2>7 DEF PlaceInv
<1>5. QED
  BY <1>1, <1>2, <1>3, <1>4 DEF Next, Terminated

LEMMA AlwaysPlaced == Spec => []PlaceInv
  BY InitPlace, NextPlace, PTL DEF Spec

(* The places of a task, one queue or worker at a time.                    *)
LEMMA PlacesOf ==
  ASSUME PlaceInv, NEW t \in Tasks, NEW x
  PROVE  x \in Places(t) <=>
           \/ \E i \in DOMAIN incoming_ : incoming_[i] = t /\ x = <<"incoming_", 0, i>>
           \/ \E v \in Workers : \E i \in DOMAIN deques_[v] :
                deques_[v][i] = t /\ x = <<"deque", v, i>>
           \/ \E w \in Workers : Holding(w) /\ held[w] = t /\ x = <<"held", w, 0>>
<1>1. \A v \in Workers : \A i \in DOMAIN deques_[v] : i \in 1 .. Capacity /\ i <= Len(deques_[v])
  BY CapacityAboveOne DEF PlaceInv, Types, TypeOK
<1>2. \A v \in Workers : \A i \in 1 .. Capacity : i <= Len(deques_[v]) => i \in DOMAIN deques_[v]
  BY CapacityAboveOne DEF PlaceInv, Types, TypeOK
<1>3. \A w \in Workers : held[w] = t /\ fate[t] # "done" <=> Holding(w) /\ held[w] = t
  BY NullIsNothing DEF PlaceInv, Types, Located, Holding, InHand, Live
<1>4. x \in {y \in {"deque"} \X Workers \X (1 .. Capacity) :
               y[3] <= Len(deques_[y[2]]) /\ deques_[y[2]][y[3]] = t}
      <=> \E v \in Workers : \E i \in DOMAIN deques_[v] :
            deques_[v][i] = t /\ x = <<"deque", v, i>>
  BY <1>1, <1>2
<1>5. QED
  BY <1>3, <1>4 DEF Places

(* A queue that contains a task has it at exactly one index.               *)
LEMMA WhereLive ==
  ASSUME PlaceInv, NEW t \in Tasks
  PROVE  IF fate[t] \in Live THEN \E x : Places(t) = {x} ELSE Places(t) = {}
<1>0. Types /\ AllDistinct /\ Located
  BY DEF PlaceInv
<1>1. /\ NULL \in Queues /\ Workers \subseteq Queues /\ Queue(NULL) = incoming_
      /\ \A v \in Workers : Queue(v) = deques_[v] /\ v # NULL
  BY NullIsNothing DEF Queues, Queue
<1>2. \A q \in Queues : \A i \in DOMAIN Queue(q) : Queue(q)[i] \in Content[q]
  BY DEF Content, Elements
<1>3. CASE fate[t] \notin Live
  BY <1>0, <1>1, <1>2, <1>3, PlacesOf DEF Located
<1>4. CASE \E q \in Queues : t \in Content[q]
  <2>1. PICK q \in Queues : t \in Content[q]
    BY <1>4
  <2>2. PICK i \in DOMAIN Queue(q) : Queue(q)[i] = t
    BY <2>1 DEF Content, Elements
  <2>3. fate[t] \in Live
    BY <1>0, <2>1 DEF Located
  <2>4. \A r \in Queues : t \in Content[r] => r = q
    BY <1>0, <2>1 DEF Located
  <2>5. \A j \in DOMAIN Queue(q) : Queue(q)[j] = t => j = i
    BY <1>0, <2>2 DEF AllDistinct, Distinct
  <2>6. \A w \in Workers : ~(Holding(w) /\ held[w] = t)
    BY <1>0, <2>1 DEF Located
  <2>7. CASE q = NULL
    <3>1. \A v \in Workers : \A j \in DOMAIN deques_[v] : deques_[v][j] # t
      BY <1>1, <1>2, <2>4, <2>7
    <3>2. \A x : x \in Places(t) <=> x = <<"incoming_", 0, i>>
      BY <1>1, <2>2, <2>5, <2>6, <2>7, <3>1, PlacesOf
    <3>3. Places(t) = {<<"incoming_", 0, i>>}
      BY <3>2
    <3>4. QED
      BY <2>3, <3>3
  <2>8. CASE q \in Workers
    <3>1. /\ \A j \in DOMAIN incoming_ : incoming_[j] # t
          /\ \A v \in Workers : \A j \in DOMAIN deques_[v] : deques_[v][j] = t => v = q /\ j = i
      BY <1>1, <1>2, <2>4, <2>5, <2>8
    <3>2. \A x : x \in Places(t) <=> x = <<"deque", q, i>>
      BY <1>1, <2>2, <2>6, <2>8, <3>1, PlacesOf
    <3>3. Places(t) = {<<"deque", q, i>>}
      BY <3>2
    <3>4. QED
      BY <2>3, <3>3
  <2>9. QED
    BY <2>7, <2>8 DEF Queues
<1>5. CASE \E w \in Workers : Holding(w) /\ held[w] = t
  <2>1. PICK w \in Workers : Holding(w) /\ held[w] = t
    BY <1>5
  <2>2. fate[t] \in Live /\ \A q \in Queues : t \notin Content[q]
    BY <1>0, <2>1 DEF Located
  <2>3. \A v \in Workers : Holding(v) /\ held[v] = t => v = w
    BY <1>0, <2>1 DEF Located
  <2>4. /\ \A j \in DOMAIN incoming_ : incoming_[j] # t
        /\ \A v \in Workers : \A j \in DOMAIN deques_[v] : deques_[v][j] # t
    BY <1>1, <1>2, <2>2
  <2>5. \A x : x \in Places(t) <=> x = <<"held", w, 0>>
    BY <2>1, <2>3, <2>4, PlacesOf
  <2>6. Places(t) = {<<"held", w, 0>>}
    BY <2>5
  <2>7. QED
    BY <2>2, <2>6
<1>6. QED
  BY <1>0, <1>3, <1>4, <1>5 DEF Located

(* A task that was accepted is in exactly one place until it has run, and  *)
(* any other task is nowhere: neither the batch a worker moves from        *)
(* incoming_ into its deque, nor a thief, nor the task executed on the     *)
(* spot because the deque is full loses a task or runs one twice.          *)
THEOREM StealingOnePlace == Spec => []OnePlace
<1>1. PlaceInv => OnePlace
  <2> SUFFICES ASSUME PlaceInv, NEW t \in Tasks
               PROVE  Cardinality(Places(t)) = IF fate[t] \in {"accepted", "late"} THEN 1 ELSE 0
    BY DEF OnePlace
  <2>1. CASE fate[t] \in Live
    <3>1. PICK x : Places(t) = {x}
      BY <2>1, WhereLive
    <3>2. QED
      BY <2>1, <3>1, FS_Singleton DEF Live
  <2>2. CASE fate[t] \notin Live
    <3>1. Places(t) = {}
      BY <2>2, WhereLive
    <3>2. QED
      BY <2>2, <3>1, FS_EmptySet DEF Live
  <2>3. QED
    BY <2>1, <2>2
<1>2. QED
  BY <1>1, AlwaysPlaced, PTL

-----------------------------------------------------------------------------
(* What the scan of allEmpty is good for.  A worker that leaves has found  *)
(* its own deque empty, which nobody else fills, and has seen incoming_'s  *)
(* head_ at or past the tail_ it read after stop_ was set: whatever was    *)
(* accepted before is then in the deque or the hands of a worker that has  *)
(* not left yet.                                                           *)

AcceptedAt(i) == fate[incoming_[i]] = "accepted"

DrainInv ==
  /\ \A w \in Workers : wpc[w] \in {"exitScan", "exited"} => stop_
  /\ \A w \in Workers : wpc[w] = "exitScan" /\ step[w] > w => deques_[w] = <<>>
  /\ \A w \in Workers : wpc[w] = "exited" => deques_[w] = <<>>
  /\ \A w \in Workers : wpc[w] = "exitScan" /\ step[w] > num_threads =>
       \A i \in DOMAIN incoming_ : AcceptedAt(i) => popped + i <= snap[w]
  /\ \A w \in Workers : wpc[w] = "exited" => \A i \in DOMAIN incoming_ : ~AcceptedAt(i)

(* A step that shrinks or keeps the deques of the leaving workers, appends *)
(* nothing accepted to incoming_ once stop_ is set, and brings nobody into *)
(* the scan.                                                               *)
LEMMA DrainKept ==
  ASSUME Types, DrainInv, stop_ => stop_',
         \A w \in Workers : /\ wpc[w] \in {"exitScan", "exited"} /\ deques_[w] = <<>> =>
                                 deques_'[w] = <<>>
                            /\ wpc'[w] \in {"exitScan", "exited"} =>
                                 wpc'[w] = wpc[w] /\ step'[w] = step[w] /\ snap'[w] = snap[w],
         stop_ => \A i \in DOMAIN incoming_' : fate'[incoming_'[i]] = "accepted" =>
                    \E j \in DOMAIN incoming_ : AcceptedAt(j) /\ popped + j = popped' + i
  PROVE  DrainInv'
<1>1. \A w \in Workers : wpc'[w] \in {"exitScan", "exited"} => stop_ /\ stop_'
  BY DEF DrainInv
<1>2. \A w \in Workers : wpc'[w] = "exitScan" /\ step'[w] > w => deques_'[w] = <<>>
  BY DEF DrainInv
<1>3. \A w \in Workers : wpc'[w] = "exited" => deques_'[w] = <<>>
  BY DEF DrainInv
<1>4. \A w \in Workers : wpc'[w] = "exitScan" /\ step'[w] > num_threads =>
        \A i \in DOMAIN incoming_' : fate'[incoming_'[i]] = "accepted" => popped' + i <= snap'[w]
  <2> SUFFICES ASSUME NEW w \in Workers, wpc'[w] = "exitScan", step'[w] > num_threads,
                      NEW i \in DOMAIN incoming_', fate'[incoming_'[i]] = "accepted"
               PROVE  popped' + i <= snap'[w]
    OBVIOUS
  <2>1. wpc[w] = "exitScan" /\ step[w] > num_threads /\ snap'[w] = snap[w] /\ stop_
    BY <1>1
  <2>2. PICK j \in DOMAIN incoming_ : AcceptedAt(j) /\ popped + j = popped' + i
    BY <2>1
  <2>3. popped + j <= snap[w]
    BY <2>1, <2>2 DEF DrainInv
  <2>4. QED
    BY <2>1, <2>2, <2>3
<1>5. \A w \in Workers : wpc'[w] = "exited" =>
        \A i \in DOMAIN incoming_' : fate'[incoming_'[i]] # "accepted"
  BY <1>1 DEF DrainInv
<1>6. QED
  BY <1>1, <1>2, <1>3, <1>4, <1>5 DEF DrainInv, AcceptedAt

(* The queues stay, and no task becomes accepted.                          *)
LEMMA DrainStill ==
  ASSUME Types, DrainInv, stop_ => stop_', UNCHANGED queueVars,
         \A w \in Workers : wpc'[w] \in {"exitScan", "exited"} =>
                              wpc'[w] = wpc[w] /\ step'[w] = step[w] /\ snap'[w] = snap[w],
         \A t \in Tasks : fate'[t] = "accepted" => fate[t] = "accepted"
  PROVE  DrainInv'
<1>1. UNCHANGED <<incoming_, popped, deques_>>
  BY DEF queueVars
<1>2. \A i \in DOMAIN incoming_ : incoming_[i] \in Tasks
  BY DEF Types, TypeOK
<1>3. \A i \in DOMAIN incoming_' : fate'[incoming_'[i]] = "accepted" =>
                    \E j \in DOMAIN incoming_ : AcceptedAt(j) /\ popped + j = popped' + i
  BY <1>1, <1>2 DEF AcceptedAt
<1>4. QED
  BY <1>1, <1>3, DrainKept

LEMMA ProducerDrain ==
  ASSUME PlaceInv, DrainInv, NEW p \in Producers, ProducerStep(p) \/ SpuriousProducer(p)
  PROVE  DrainInv'
<1> USE DEF workerVars, locals, clientVars, ProducerGoto
<1>0. Types /\ Offers /\ Located
  BY DEF PlaceInv
<1>1. CASE PushFast(p) \/ BlockPush(p)
  <2> DEFINE t == call[p]
  <2>1. /\ incoming_' = Append(incoming_, t)
        /\ fate' = [fate EXCEPT ![t] = IF stop_ THEN "late" ELSE "accepted"]
        /\ UNCHANGED <<popped, deques_, stop_, wpc, step, snap>>
    BY <1>1 DEF PushFast, BlockPush, PushIncoming
  <2>2. Offering(p)
    BY <1>1 DEF PushFast, BlockPush, Offering
  <2>3. t \in Tasks /\ incoming_ \in Seq(Tasks) /\ DOMAIN fate = Tasks /\ popped \in Nat
    BY <1>0, <2>2 DEF Types, TypeOK, Offering
  <2> HIDE DEF t
  <2>4. ASSUME stop_, NEW i \in DOMAIN incoming_', fate'[incoming_'[i]] = "accepted"
        PROVE  \E j \in DOMAIN incoming_ : AcceptedAt(j) /\ popped + j = popped' + i
    <3>1. fate'[t] = "late" /\ \A x \in Tasks : x # t => fate'[x] = fate[x]
      BY <2>1, <2>3, <2>4
    <3>2. i \in DOMAIN incoming_ /\ incoming_'[i] = incoming_[i] /\ incoming_[i] \in Tasks
      <4>1. incoming_'[i] # t
        BY <2>4, <3>1
      <4>2. QED
        BY <2>1, <2>3, <4>1
    <3>3. AcceptedAt(i)
      BY <2>4, <3>1, <3>2 DEF AcceptedAt
    <3>4. QED
      BY <2>1, <3>2, <3>3
  <2>5. QED
    BY <1>0, <2>1, <2>4, DrainKept
<1>2. CASE ~(PushFast(p) \/ BlockPush(p))
  <2>1. UNCHANGED <<queueVars, stop_, step, snap>>
    BY <1>2 DEF ProducerStep, SpuriousProducer, CheckStop, PushFastFails, CountSubmitted, WakeWorker,
       LockedReject, LockForBlock, BlockPushFails, BlockCount, BlockPredFalse, BlockPredTrue,
       BlockSleep, BlockRelock, Leave
  <2>2. wpc' = wpc \/ wpc' \in NotifyOne(wpc, "sleeping", "relock")
    BY <1>2 DEF ProducerStep, SpuriousProducer, CheckStop, PushFastFails, CountSubmitted, WakeWorker,
       LockedReject, LockForBlock, BlockPushFails, BlockCount, BlockPredFalse, BlockPredTrue,
       BlockSleep, BlockRelock, Leave
  <2>3. \A w \in Workers : wpc'[w] = wpc[w] \/ (wpc[w] = "sleeping" /\ wpc'[w] = "relock")
    BY <1>0, <2>2, NotifiedWorker DEF Types
  <2>4. \/ fate' = fate
        \/ \E f \in {"refused", "threw", "discarded"} : fate' = [fate EXCEPT ![call[p]] = f]
    BY <1>2 DEF ProducerStep, SpuriousProducer, CheckStop, PushFastFails, CountSubmitted, WakeWorker,
       LockedReject, LockForBlock, BlockPushFails, BlockCount, BlockPredFalse, BlockPredTrue,
       BlockSleep, BlockRelock, Leave, Refuse
  <2>5. DOMAIN fate = Tasks
    BY <1>0 DEF Types, TypeOK
  <2>6. \A t \in Tasks : fate'[t] = "accepted" => fate[t] = "accepted"
    BY <2>4, <2>5
  <2>7. QED
    BY <1>0, <2>1, <2>3, <2>6, DrainStill
<1>3. QED
  BY <1>1, <1>2

LEMMA WorkerDrain ==
  ASSUME PlaceInv, DrainInv, NEW w \in Workers, WorkerStep(w) \/ SpuriousWorker(w)
  PROVE  DrainInv'
<1> USE DEF WorkerGoto, clientVars, locals
<1>0. Types /\ TypeOK
  BY DEF PlaceInv, Types
<1>00. /\ DOMAIN wpc = Workers /\ DOMAIN step = Workers /\ DOMAIN snap = Workers
       /\ DOMAIN deques_ = Workers
       /\ popped \in Nat /\ incoming_ \in Seq(Tasks) /\ deques_ \in [Workers -> Seq(Tasks)]
       /\ num_threads \in Nat /\ step \in [Workers -> 0 .. num_threads + 1]
       /\ \A v \in Workers : v \in Nat /\ v < num_threads
  <2>1. /\ DOMAIN wpc = Workers /\ DOMAIN step = Workers /\ DOMAIN snap = Workers
        /\ DOMAIN deques_ = Workers /\ step \in [Workers -> 0 .. num_threads + 1]
    BY <1>0 DEF TypeOK
  <2>2. popped \in Nat /\ incoming_ \in Seq(Tasks) /\ deques_ \in [Workers -> Seq(Tasks)]
    BY <1>0 DEF TypeOK
  <2>3. num_threads \in Nat /\ \A v \in Workers : v \in Nat /\ v < num_threads
    BY ThreadsKnown DEF Workers
  <2>4. QED
    BY <2>1, <2>2, <2>3
<1>1. CASE LocalPop(w)
  <2>1. /\ wpc[w] = "pop" /\ wpc' = [wpc EXCEPT ![w] = "execute"]
        /\ UNCHANGED <<incoming_, popped, fate, step, snap, stop_>>
        /\ \E s : deques_' = [deques_ EXCEPT ![w] = s]
    BY <1>1 DEF LocalPop
  <2>2. \A v \in Workers : wpc[v] \in {"exitScan", "exited"} => deques_'[v] = deques_[v]
    BY <1>00, <2>1
  <2>3. \A v \in Workers : wpc'[v] \in {"exitScan", "exited"} => wpc'[v] = wpc[v]
    BY <1>00, <2>1
  <2>4. \A i \in DOMAIN incoming_' : fate'[incoming_'[i]] = "accepted" =>
          \E j \in DOMAIN incoming_ : AcceptedAt(j) /\ popped + j = popped' + i
    BY <2>1 DEF AcceptedAt
  <2>5. QED
    BY <1>0, <2>1, <2>2, <2>3, <2>4, DrainKept
<1>2. CASE FillPop(w)
  <2>1. /\ wpc[w] = "fill" /\ wpc' = [wpc EXCEPT ![w] = "store"]
        /\ incoming_ # <<>> /\ incoming_' = Tail(incoming_) /\ popped' = popped + 1
        /\ UNCHANGED <<deques_, fate, step, snap, stop_>>
    BY <1>2 DEF FillPop
  <2>2. \A v \in Workers : wpc'[v] \in {"exitScan", "exited"} => wpc'[v] = wpc[v]
    BY <1>00, <2>1
  <2>3. ASSUME NEW i \in DOMAIN incoming_', fate'[incoming_'[i]] = "accepted"
        PROVE  \E j \in DOMAIN incoming_ : AcceptedAt(j) /\ popped + j = popped' + i
    <3>1. i + 1 \in DOMAIN incoming_ /\ incoming_'[i] = incoming_[i + 1] /\ i \in Int
      BY <1>00, <2>1, <2>3
    <3>2. AcceptedAt(i + 1) /\ popped + (i + 1) = popped' + i
      BY <1>00, <2>1, <2>3, <3>1 DEF AcceptedAt
    <3>3. QED
      BY <3>1, <3>2
  <2>4. QED
    BY <1>0, <2>1, <2>2, <2>3, DrainKept
<1>3. CASE FillStore(w)
  <2>1. /\ wpc[w] = "store" /\ wpc' = [wpc EXCEPT ![w] = "fillNotify"]
        /\ UNCHANGED <<incoming_, popped, fate, step, snap, stop_>>
        /\ \E s : deques_' = [deques_ EXCEPT ![w] = s]
    BY <1>3 DEF FillStore
  <2>2. \A v \in Workers : wpc[v] \in {"exitScan", "exited"} => deques_'[v] = deques_[v]
    BY <1>00, <2>1
  <2>3. \A v \in Workers : wpc'[v] \in {"exitScan", "exited"} => wpc'[v] = wpc[v]
    BY <1>00, <2>1
  <2>4. \A i \in DOMAIN incoming_' : fate'[incoming_'[i]] = "accepted" =>
          \E j \in DOMAIN incoming_ : AcceptedAt(j) /\ popped + j = popped' + i
    BY <2>1 DEF AcceptedAt
  <2>5. QED
    BY <1>0, <2>1, <2>2, <2>3, <2>4, DrainKept
<1>4. CASE Steal(w)
  <2> DEFINE u == Victim(w)
  <2>1. /\ wpc[w] = "steal" /\ wpc' = [wpc EXCEPT ![w] = "execute"]
        /\ step' = [step EXCEPT ![w] = 0] /\ UNCHANGED <<incoming_, popped, fate, snap, stop_>>
        /\ deques_[u] # <<>> /\ \E s : deques_' = [deques_ EXCEPT ![u] = s]
    BY <1>4 DEF Steal, TakeTop
  <2> HIDE DEF u
  <2>2. \A v \in Workers : deques_[v] = <<>> => deques_'[v] = <<>>
    BY <1>00, <2>1
  <2>3. \A v \in Workers : wpc'[v] \in {"exitScan", "exited"} => wpc'[v] = wpc[v] /\ step'[v] = step[v]
    BY <1>00, <2>1
  <2>4. \A i \in DOMAIN incoming_' : fate'[incoming_'[i]] = "accepted" =>
          \E j \in DOMAIN incoming_ : AcceptedAt(j) /\ popped + j = popped' + i
    BY <2>1 DEF AcceptedAt
  <2>5. QED
    BY <1>0, <2>1, <2>2, <2>3, <2>4, DrainKept
<1>5. CASE LockIdle(w) /\ stop_
  <2>1. /\ wpc' = [wpc EXCEPT ![w] = "exitScan"] /\ step' = [step EXCEPT ![w] = 0] /\ stop_'
        /\ UNCHANGED <<incoming_, popped, deques_, fate, snap>>
    BY <1>5 DEF LockIdle, queueVars
  <2>2. /\ wpc'[w] = "exitScan" /\ ~(step'[w] > w) /\ ~(step'[w] > num_threads)
        /\ \A v \in Workers : v # w => wpc'[v] = wpc[v] /\ step'[v] = step[v]
    BY <1>00, <2>1
  <2>3. QED
    BY <2>1, <2>2 DEF DrainInv, AcceptedAt
<1>6. CASE Scan(w)
  <2>1. /\ UNCHANGED <<incoming_, popped, deques_, fate, wpc, stop_>>
        /\ step' = [step EXCEPT ![w] = step[w] + 1]
        /\ \/ step[w] \in Workers /\ deques_[step[w]] = <<>> /\ snap' = snap
           \/ step[w] = num_threads /\ snap' = [snap EXCEPT ![w] = popped + Len(incoming_)]
    BY <1>6 DEF Scan, ScanGoesOn, queueVars
  <2>2. /\ step'[w] = step[w] + 1
        /\ \A v \in Workers : v # w => step'[v] = step[v] /\ snap'[v] = snap[v]
    BY <1>00, <2>1
  <2>3. wpc[w] = "exitScan" /\ step'[w] > w => deques_[w] = <<>>
    <3>1. step[w] \in Nat /\ w \in Nat /\ w < num_threads
      BY <1>00
    <3>2. step'[w] > w => step[w] > w \/ step[w] = w
      BY <2>2, <3>1
    <3>3. step[w] = w => deques_[w] = <<>>
      BY <2>1, <3>1
    <3>4. QED
      BY <3>2, <3>3 DEF DrainInv
  <2>4. step'[w] > num_threads => \A i \in DOMAIN incoming_ : popped + i <= snap'[w]
    <3> SUFFICES ASSUME step'[w] > num_threads, NEW i \in DOMAIN incoming_
                 PROVE  popped + i <= snap'[w]
      OBVIOUS
    <3>1. step[w] = num_threads
      BY <1>00, <2>1, <2>2
    <3>2. snap'[w] = popped + Len(incoming_)
      BY <1>00, <2>1, <3>1
    <3>3. i \in Nat /\ i <= Len(incoming_) /\ Len(incoming_) \in Nat
      BY <1>00
    <3>4. QED
      BY <1>00, <3>2, <3>3
  <2>5. QED
    BY <2>1, <2>2, <2>3, <2>4 DEF DrainInv, AcceptedAt
<1>7. CASE Exit(w)
  <2>1. /\ wpc[w] = "exitScan" /\ wpc' = [wpc EXCEPT ![w] = "exited"]
        /\ step' = [step EXCEPT ![w] = 0] /\ snap' = [snap EXCEPT ![w] = 0]
        /\ step[w] > num_threads /\ snap[w] <= popped
        /\ UNCHANGED <<incoming_, popped, deques_, fate, stop_>>
    BY <1>7 DEF Exit, ScanFindsNothing, ScanEnds, queueVars
  <2>2. step[w] > w
    BY <1>00, <2>1
  <2>3. stop_ /\ deques_[w] = <<>>
    BY <2>1, <2>2 DEF DrainInv
  <2>4. \A i \in DOMAIN incoming_ : ~AcceptedAt(i)
    <3> SUFFICES ASSUME NEW i \in DOMAIN incoming_, AcceptedAt(i) PROVE FALSE
      OBVIOUS
    <3>1. popped + i <= snap[w]
      BY <2>1 DEF DrainInv
    <3>2. i \in Nat \ {0} /\ snap[w] \in Nat
      BY <1>0, <1>00 DEF TypeOK
    <3>3. QED
      BY <1>00, <2>1, <3>1, <3>2
  <2>5. /\ wpc'[w] = "exited"
        /\ \A v \in Workers : v # w => wpc'[v] = wpc[v] /\ step'[v] = step[v] /\ snap'[v] = snap[v]
    BY <1>00, <2>1
  <2>6. QED
    BY <2>1, <2>3, <2>4, <2>5 DEF DrainInv, AcceptedAt
<1>8. CASE \E failed \in 0 .. 1 : ExecuteBody(w, failed)
  <2>1. /\ UNCHANGED <<queueVars, step, snap, stop_>> /\ wpc' = [wpc EXCEPT ![w] = "ran"]
        /\ fate' = [fate EXCEPT ![held[w]] = "done"]
    BY <1>8 DEF ExecuteBody
  <2>2. \A v \in Workers : wpc'[v] \in {"exitScan", "exited"} => wpc'[v] = wpc[v]
    BY <1>00, <2>1
  <2>3. \A t \in Tasks : fate'[t] = "accepted" => fate[t] = "accepted"
    <3>1. DOMAIN fate = Tasks
      BY <1>0 DEF TypeOK
    <3>2. QED
      BY <2>1, <3>1
  <2>4. QED
    BY <1>0, <2>1, <2>2, <2>3, DrainStill
<1>9. CASE \/ LocalMiss(w) \/ FillEnd(w) \/ FillFull(w) \/ FillNotify(w) \/ StealMiss(w)
           \/ StealNothing(w) \/ (LockIdle(w) /\ ~stop_) \/ ExitNotYet(w) \/ PredTrue(w)
           \/ PredFalse(w) \/ IdleSleep(w) \/ IdleRelock(w) \/ ExecuteBegin(w) \/ ExecuteUnbusy(w)
           \/ ExecuteEnd(w) \/ ExecuteNotify(w) \/ SpuriousWorker(w)
  <2>1. UNCHANGED <<queueVars, stop_, fate>>
    BY <1>9 DEF LocalMiss, FillEnd, FillFull, FillNotify, StealMiss, StealNothing, LockIdle,
       ExitNotYet, PredTrue, PredFalse, IdleSleep, IdleRelock, ExecuteBegin, ExecuteUnbusy, ExecuteEnd,
       ExecuteNotify, SpuriousWorker
  <2>2. /\ step' = step \/ \E i : step' = [step EXCEPT ![w] = i]
        /\ snap' = snap \/ \E i : snap' = [snap EXCEPT ![w] = i]
    BY <1>9 DEF LocalMiss, FillEnd, FillFull, FillNotify, StealMiss, StealNothing, LockIdle,
       ExitNotYet, PredTrue, PredFalse, IdleSleep, IdleRelock, ExecuteBegin, ExecuteUnbusy, ExecuteEnd,
       ExecuteNotify, SpuriousWorker, ScanEnds
  <2>3. \E l \in {"pop", "fill", "steal", "lock", "pred", "drowsy", "sleeping", "relock",
                  "execute", "running", "unbusied", "ranNotify"} : wpc' = [wpc EXCEPT ![w] = l]
    <3>1. CASE FillEnd(w) \/ (LockIdle(w) /\ ~stop_) \/ ExecuteNotify(w)
      BY <3>1 DEF FillEnd, LockIdle, ExecuteNotify
    <3>2. CASE LocalMiss(w) \/ FillNotify(w) \/ StealMiss(w) \/ StealNothing(w) \/ FillFull(w)
      BY <3>2 DEF LocalMiss, FillNotify, StealMiss, StealNothing, FillFull
    <3>3. CASE ExecuteBegin(w) \/ ExecuteUnbusy(w) \/ ExecuteEnd(w) \/ ExitNotYet(w)
      BY <3>3 DEF ExecuteBegin, ExecuteUnbusy, ExecuteEnd, ExitNotYet
    <3>4. QED
      BY <1>9, <3>1, <3>2, <3>3
         DEF PredTrue, PredFalse, IdleSleep, IdleRelock, SpuriousWorker
  <2>4. \A v \in Workers : wpc'[v] \in {"exitScan", "exited"} =>
                             wpc'[v] = wpc[v] /\ step'[v] = step[v] /\ snap'[v] = snap[v]
    BY <1>00, <2>2, <2>3
  <2>5. QED
    BY <1>0, <2>1, <2>4, DrainStill
<1>10. QED
  BY <1>1, <1>2, <1>3, <1>4, <1>5, <1>6, <1>7, <1>8, <1>9 DEF WorkerStep

(* Once every worker has left, every task accepted before stop_ has run.   *)
LEMMA AllLeft ==
  ASSUME PlaceInv, DrainInv, Exited = Workers, NEW t \in Tasks
  PROVE  fate[t] # "accepted"
<1> SUFFICES ASSUME fate[t] = "accepted" PROVE FALSE
  OBVIOUS
<1>1. \A w \in Workers : wpc[w] = "exited"
  BY DEF Exited
<1>2. PICK q \in Queues : t \in Content[q]
  BY <1>1 DEF PlaceInv, Located, Live, Holding
<1>3. PICK i \in DOMAIN Queue(q) : Queue(q)[i] = t
  BY <1>2 DEF Content, Elements
<1>4. q \notin Workers
  <2> SUFFICES ASSUME q \in Workers PROVE FALSE
    OBVIOUS
  <2>1. Queue(q) = <<>>
    BY <1>1, NullIsNothing DEF Queue, DrainInv
  <2>2. QED
    BY <1>3, <2>1
<1>5. q = NULL
  BY <1>4 DEF Queues
<1>6. 0 \in Workers
  BY ThreadsKnown DEF Workers
<1>7. QED
  BY <1>1, <1>3, <1>5, <1>6 DEF DrainInv, AcceptedAt, Queue

(* Nobody comes back, and shutdown() joins only when everybody has left.   *)
Joined == (\E c \in Closers : cpc[c] = "joined") => Exited = Workers

LEMMA ExitedStays ==
  ASSUME Types, [Next]_vars
  PROVE  \A w \in Workers : wpc[w] = "exited" => wpc'[w] = "exited"
<1>1. CASE \E w \in Workers : WorkerStep(w) \/ SpuriousWorker(w)
  <2>1. PICK w \in Workers : WorkerStep(w) \/ SpuriousWorker(w)
    BY <1>1
  <2>2. wpc[w] # "exited"
    BY <2>1 DEF WorkerStep, SpuriousWorker, LocalPop, LocalMiss, FillPop, FillEnd, FillStore,
       FillFull, FillNotify, Steal, StealMiss, StealNothing, LockIdle, Scan, Exit, ExitNotYet,
       PredTrue, PredFalse, IdleSleep, IdleRelock, ExecuteBegin, ExecuteBody, ExecuteUnbusy, ExecuteEnd,
       ExecuteNotify, WorkerGoto
  <2>3. wpc' = wpc \/ \E l : wpc' = [wpc EXCEPT ![w] = l]
    BY <2>1 DEF WorkerStep, SpuriousWorker, LocalPop, LocalMiss, FillPop, FillEnd, FillStore,
       FillFull, FillNotify, Steal, StealMiss, StealNothing, LockIdle, Scan, Exit, ExitNotYet,
       PredTrue, PredFalse, IdleSleep, IdleRelock, ExecuteBegin, ExecuteBody, ExecuteUnbusy, ExecuteEnd,
       ExecuteNotify, WorkerGoto
  <2>4. DOMAIN wpc = Workers
    BY DEF Types, TypeOK
  <2>5. QED
    BY <2>2, <2>3, <2>4
<1>2. CASE wpc' = wpc \/ wpc' \in NotifyOne(wpc, "sleeping", "relock")
           \/ wpc' = NotifyAll(wpc, "sleeping", "relock")
  BY <1>2, NotifiedWorker DEF Types
<1>3. QED
  BY <1>1, <1>2 DEF Next, Terminated, vars, workerVars, Enter, ProducerStep, SpuriousProducer,
     CheckStop, PushFast, PushFastFails, CountSubmitted, WakeWorker, LockedReject, LockForBlock,
     BlockPush, BlockPushFails, BlockCount, BlockPredFalse, BlockPredTrue, BlockSleep, BlockRelock,
     Leave, Shutdown, ShutdownStep, ShutdownNotifyCv, ShutdownNotifyNotFull, ShutdownAwaitSubmits,
     ShutdownJoin, Destroy, NotifyAllCv

LEMMA NextJoined ==
  ASSUME Types, Joined, [Next]_vars
  PROVE  Joined'
<1>1. Exited = Workers => Exited' = Workers
  BY ExitedStays DEF Exited
<1>2. CASE \E c \in Closers : ShutdownJoin(c)
  BY <1>1, <1>2 DEF ShutdownJoin, Joined
<1>3. CASE \A c \in Closers : cpc'[c] = "joined" => cpc[c] = "joined"
  BY <1>1, <1>3 DEF Joined
<1>4. CASE cpc' = cpc
  BY <1>3, <1>4
<1>5. CASE \E c \in Closers : \/ Shutdown(c) \/ ShutdownNotifyCv(c) \/ ShutdownNotifyNotFull(c)
                              \/ ShutdownAwaitSubmits(c)
  <2>1. PICK c \in Closers, l \in {"skipped", "notifyCv", "notifyNotFull", "awaitSubmits", "join"} :
               cpc' = [cpc EXCEPT ![c] = l]
    BY <1>5 DEF Shutdown, ShutdownNotifyCv, ShutdownNotifyNotFull, ShutdownAwaitSubmits, CloserGoto
  <2>2. DOMAIN cpc = Closers
    BY DEF Types, TypeOK
  <2>3. QED
    BY <1>3, <2>1, <2>2
<1>6. CASE Destroy
  <2>1. DOMAIN cpc = Closers
    BY DEF Types, TypeOK
  <2>2. QED
    BY <1>3, <1>6, <2>1 DEF Destroy
<1>7. CASE \E w \in Workers : WorkerStep(w) \/ SpuriousWorker(w)
  <2>1. cpc' = cpc
    BY <1>7 DEF WorkerStep, SpuriousWorker, LocalPop, LocalMiss, FillPop, FillEnd, FillStore,
       FillFull, FillNotify, Steal, StealMiss, StealNothing, LockIdle, Scan, Exit, ExitNotYet,
       PredTrue, PredFalse, IdleSleep, IdleRelock, ExecuteBegin, ExecuteBody, ExecuteUnbusy, ExecuteEnd,
       ExecuteNotify
  <2>2. QED
    BY <1>4, <2>1
<1>8. QED
  BY <1>2, <1>4, <1>5, <1>6, <1>7 DEF Next, ShutdownStep, Terminated, vars, Enter, ProducerStep,
     SpuriousProducer, CheckStop, PushFast, PushFastFails, CountSubmitted, WakeWorker, LockedReject,
     LockForBlock, BlockPush, BlockPushFails, BlockCount, BlockPredFalse, BlockPredTrue, BlockSleep,
     BlockRelock, Leave

LEMMA NextDrain ==
  ASSUME PlaceInv, DrainInv, [Next]_vars
  PROVE  DrainInv'
<1> USE DEF workerVars, locals
<1>0. Types
  BY DEF PlaceInv
<1>1. ASSUME NEW p \in Producers, NEW k \in Kinds, NEW t \in Tasks, Enter(p, k, t)
      PROVE  DrainInv'
  <2>1. /\ fate' = [fate EXCEPT ![t] = "calling"]
        /\ UNCHANGED <<queueVars, stop_, wpc, step, snap>>
    BY <1>1 DEF Enter
  <2>2. DOMAIN fate = Tasks
    BY <1>0 DEF Types, TypeOK
  <2>3. \A x \in Tasks : fate'[x] = "accepted" => fate[x] = "accepted"
    BY <2>1, <2>2
  <2>4. QED
    BY <1>0, <2>1, <2>3, DrainStill
<1>2. CASE \E p \in Producers : ProducerStep(p) \/ SpuriousProducer(p)
  BY <1>2, ProducerDrain
<1>3. CASE \E w \in Workers : WorkerStep(w) \/ SpuriousWorker(w)
  BY <1>3, WorkerDrain
<1>4. CASE (\E c \in Closers : Shutdown(c) \/ ShutdownStep(c)) \/ Destroy \/ UNCHANGED vars
  <2>1. UNCHANGED <<queueVars, fate, step, snap>> /\ (stop_ => stop_')
    BY <1>4 DEF Shutdown, ShutdownStep, ShutdownNotifyCv, ShutdownNotifyNotFull,
                ShutdownAwaitSubmits, ShutdownJoin, Destroy, vars
  <2>2. wpc' = wpc \/ wpc' = NotifyAll(wpc, "sleeping", "relock")
    BY <1>4 DEF Shutdown, ShutdownStep, ShutdownNotifyCv, ShutdownNotifyNotFull,
                ShutdownAwaitSubmits, ShutdownJoin, Destroy, NotifyAllCv, vars
  <2>3. \A w \in Workers : wpc'[w] = wpc[w] \/ (wpc[w] = "sleeping" /\ wpc'[w] = "relock")
    BY <1>0, <2>2, NotifiedWorker DEF Types
  <2>4. QED
    BY <1>0, <2>1, <2>3, DrainStill
<1>5. QED
  BY <1>1, <1>2, <1>3, <1>4 DEF Next, Terminated

(* Every task accepted before stop_ was set has run when shutdown()        *)
(* returns, although each worker decides to leave on a scan of the queues  *)
(* that is not atomic and other workers go on moving tasks meanwhile.      *)
THEOREM StealingAcceptedBeforeStopRun == Spec => []AcceptedBeforeStopRun
<1> DEFINE Inv == PlaceInv /\ DrainInv /\ Joined
<1>1. Init => Inv
  <2> SUFFICES ASSUME Init PROVE DrainInv /\ Joined
    BY InitPlace
  <2>1. \A w \in Workers : wpc[w] = "pop"
    BY DEF Init
  <2>2. \A c \in Closers : cpc[c] = "out"
    BY DEF Init
  <2>3. QED
    BY <2>1, <2>2 DEF DrainInv, Joined
<1>2. Inv /\ [Next]_vars => Inv'
  <2> SUFFICES ASSUME Inv, [Next]_vars PROVE PlaceInv' /\ DrainInv' /\ Joined'
    OBVIOUS
  <2>1. Types
    BY DEF PlaceInv
  <2>2. QED
    BY <2>1, NextPlace, NextDrain, NextJoined
<1>3. Inv => AcceptedBeforeStopRun
  BY AllLeft DEF Joined, AcceptedBeforeStopRun
<1>4. QED
  BY <1>1, <1>2, <1>3, PTL DEF Spec

-----------------------------------------------------------------------------
(* The counters.  Each is the number of threads at certain positions; the  *)
(* metrics differ by the tasks on their way, those of Alive, and by the    *)
(* steps between an event and its counting.                                *)

Alive == {t \in Tasks : fate[t] \in Live}

nCall == Cardinality(InCall)
nIdle == Cardinality({w \in Workers : wpc[w] \in {"pred", "drowsy", "sleeping", "relock"}})
nWaiting == Cardinality({p \in Producers : pc[p] \in {"blockPred", "drowsy", "blocked", "relock"}})
nBusy == Cardinality({w \in Workers : wpc[w] \in {"running", "ran"}})
nCounting == Cardinality({p \in Producers : pc[p] \in {"count", "blockCount"}})
nRan == Cardinality({w \in Workers : wpc[w] \in {"ran", "unbusied"}})
nAlive == Cardinality(Alive)

CountInv ==
  /\ IsFiniteSet(Alive)
  /\ count.active_submits_ = nCall
  /\ count.workers_idle_ = nIdle
  /\ count.waiting_producers_ = nWaiting
  /\ count.busy_workers_ = nBusy
  /\ count.submitted_tasks_ + nCounting = count.completed_tasks_ + nAlive + nRan

Bit(b) == IF b THEN 1 ELSE 0

(* Two finite sets that differ at most in x.                               *)
LEMMA OneMoves ==
  ASSUME NEW A, NEW B, NEW x, IsFiniteSet(A), A \ {x} = B \ {x}
  PROVE  /\ IsFiniteSet(B) /\ Cardinality(A) \in Nat /\ Cardinality(B) \in Nat
         /\ Cardinality(B) = Cardinality(A) + Bit(x \in B) - Bit(x \in A)
<1> DEFINE C == A \ {x}
<1>1. /\ IsFiniteSet(C) /\ Cardinality(A) \in Nat /\ Cardinality(C) \in Nat
      /\ Cardinality(C) = IF x \in A THEN Cardinality(A) - 1 ELSE Cardinality(A)
  BY FS_RemoveElement, FS_CardinalityType
<1>2. IsFiniteSet(C \cup {x}) /\ Cardinality(C \cup {x}) = Cardinality(C) + 1
  BY <1>1, FS_AddElement
<1>3. x \in B => B = C \cup {x}
  OBVIOUS
<1>4. x \notin B => B = C
  OBVIOUS
<1> HIDE DEF C
<1>5. CASE x \in B
  <2>1. IsFiniteSet(B) /\ Cardinality(B) = Cardinality(C) + 1 /\ Bit(x \in B) = 1
    BY <1>2, <1>3, <1>5 DEF Bit
  <2>2. Cardinality(B) = Cardinality(A) + 1 - Bit(x \in A)
    BY <1>1, <2>1 DEF Bit
  <2>3. QED
    BY <1>1, <2>1, <2>2
<1>6. CASE x \notin B
  <2>1. IsFiniteSet(B) /\ Cardinality(B) = Cardinality(C) /\ Bit(x \in B) = 0
    BY <1>1, <1>4, <1>6 DEF Bit
  <2>2. Cardinality(B) = Cardinality(A) + 0 - Bit(x \in A)
    BY <1>1, <2>1 DEF Bit
  <2>3. QED
    BY <1>1, <2>1, <2>2
<1>7. QED
  BY <1>5, <1>6

LEMMA WorkersFinite == IsFiniteSet(Workers)
  BY ThreadsKnown, FS_Interval DEF Workers

LEMMA NumbersNat ==
  /\ nCall \in Nat /\ nIdle \in Nat /\ nWaiting \in Nat /\ nBusy \in Nat /\ nCounting \in Nat
  /\ nRan \in Nat
<1>1. \A S \in SUBSET Producers : Cardinality(S) \in Nat
  BY ThreadsKnown, FS_Subset, FS_CardinalityType
<1>2. \A S \in SUBSET Workers : Cardinality(S) \in Nat
  BY WorkersFinite, FS_Subset, FS_CardinalityType
<1>3. nCall \in Nat
  BY <1>1 DEF nCall, InCall
<1>4. nWaiting \in Nat
  BY <1>1 DEF nWaiting
<1>5. nCounting \in Nat
  BY <1>1 DEF nCounting
<1>6. nIdle \in Nat
  BY <1>2 DEF nIdle
<1>7. nBusy \in Nat
  BY <1>2 DEF nBusy
<1>8. nRan \in Nat
  BY <1>2 DEF nRan
<1>9. QED
  BY <1>3, <1>4, <1>5, <1>6, <1>7, <1>8

(* One producer moves.                                                     *)
LEMMA ProducerMoves ==
  ASSUME Types, NEW p \in Producers, NEW to, pc' = [pc EXCEPT ![p] = to]
  PROVE  /\ nCall' = nCall + Bit(to # "out") - Bit(pc[p] # "out")
         /\ nWaiting' = nWaiting + Bit(to \in {"blockPred", "drowsy", "blocked", "relock"})
                          - Bit(pc[p] \in {"blockPred", "drowsy", "blocked", "relock"})
         /\ nCounting' = nCounting + Bit(to \in {"count", "blockCount"})
                           - Bit(pc[p] \in {"count", "blockCount"})
<1>0. \A q \in Producers : pc'[q] = IF q = p THEN to ELSE pc[q]
  BY DEF Types, TypeOK
<1>1. \A S \in SUBSET Producers : IsFiniteSet(S)
  BY ThreadsKnown, FS_Subset
<1>2. nCall' = nCall + Bit(to # "out") - Bit(pc[p] # "out")
  <2> DEFINE A == {q \in Producers : pc[q] # "out"}
             B == {q \in Producers : pc'[q] # "out"}
  <2>1. A \ {p} = B \ {p} /\ IsFiniteSet(A)
    BY <1>0, <1>1
  <2>2. p \in A <=> pc[p] # "out"
    OBVIOUS
  <2>3. p \in B <=> to # "out"
    BY <1>0
  <2>4. nCall = Cardinality(A) /\ nCall' = Cardinality(B)
    BY DEF nCall, InCall
  <2> HIDE DEF A, B
  <2>5. Cardinality(B) = Cardinality(A) + Bit(p \in B) - Bit(p \in A)
    BY <2>1, OneMoves
  <2>6. QED
    BY <2>2, <2>3, <2>4, <2>5 DEF Bit
<1>3. ASSUME NEW S
      PROVE  Cardinality({q \in Producers : pc'[q] \in S})
             = Cardinality({q \in Producers : pc[q] \in S}) + Bit(to \in S) - Bit(pc[p] \in S)
  <2> DEFINE A == {q \in Producers : pc[q] \in S}
             B == {q \in Producers : pc'[q] \in S}
  <2>1. A \ {p} = B \ {p} /\ IsFiniteSet(A)
    BY <1>0, <1>1
  <2>2. p \in A <=> pc[p] \in S
    OBVIOUS
  <2>3. p \in B <=> to \in S
    BY <1>0
  <2> HIDE DEF A, B
  <2>4. Cardinality(B) = Cardinality(A) + Bit(p \in B) - Bit(p \in A)
    BY <2>1, OneMoves
  <2>5. Cardinality(B) = Cardinality(A) + Bit(to \in S) - Bit(pc[p] \in S)
    BY <2>2, <2>3, <2>4 DEF Bit
  <2>6. QED
    BY <2>5 DEF A, B
<1>4. nWaiting' = nWaiting + Bit(to \in {"blockPred", "drowsy", "blocked", "relock"})
                    - Bit(pc[p] \in {"blockPred", "drowsy", "blocked", "relock"})
  BY <1>3 DEF nWaiting
<1>5. nCounting' = nCounting + Bit(to \in {"count", "blockCount"})
                     - Bit(pc[p] \in {"count", "blockCount"})
  BY <1>3 DEF nCounting
<1>6. QED
  BY <1>2, <1>4, <1>5

(* One worker moves.                                                       *)
LEMMA WorkerMoves ==
  ASSUME Types, NEW w \in Workers, NEW to, wpc' = [wpc EXCEPT ![w] = to]
  PROVE  /\ nIdle' = nIdle + Bit(to \in {"pred", "drowsy", "sleeping", "relock"})
                       - Bit(wpc[w] \in {"pred", "drowsy", "sleeping", "relock"})
         /\ nBusy' = nBusy + Bit(to \in {"running", "ran"}) - Bit(wpc[w] \in {"running", "ran"})
         /\ nRan' = nRan + Bit(to \in {"ran", "unbusied"}) - Bit(wpc[w] \in {"ran", "unbusied"})
<1>0. \A v \in Workers : wpc'[v] = IF v = w THEN to ELSE wpc[v]
  BY DEF Types, TypeOK
<1>1. \A S \in SUBSET Workers : IsFiniteSet(S)
  BY WorkersFinite, FS_Subset
<1>2. ASSUME NEW S
      PROVE  Cardinality({v \in Workers : wpc'[v] \in S})
             = Cardinality({v \in Workers : wpc[v] \in S}) + Bit(to \in S) - Bit(wpc[w] \in S)
  <2> DEFINE A == {v \in Workers : wpc[v] \in S}
             B == {v \in Workers : wpc'[v] \in S}
  <2>1. A \ {w} = B \ {w} /\ IsFiniteSet(A)
    BY <1>0, <1>1
  <2>2. w \in A <=> wpc[w] \in S
    OBVIOUS
  <2>3. w \in B <=> to \in S
    BY <1>0
  <2> HIDE DEF A, B
  <2>4. Cardinality(B) = Cardinality(A) + Bit(w \in B) - Bit(w \in A)
    BY <2>1, OneMoves
  <2>5. Cardinality(B) = Cardinality(A) + Bit(to \in S) - Bit(wpc[w] \in S)
    BY <2>2, <2>3, <2>4 DEF Bit
  <2>6. QED
    BY <2>5 DEF A, B
<1>3. nIdle' = nIdle + Bit(to \in {"pred", "drowsy", "sleeping", "relock"})
                 - Bit(wpc[w] \in {"pred", "drowsy", "sleeping", "relock"})
  BY <1>2 DEF nIdle
<1>4. nBusy' = nBusy + Bit(to \in {"running", "ran"}) - Bit(wpc[w] \in {"running", "ran"})
  BY <1>2 DEF nBusy
<1>5. nRan' = nRan + Bit(to \in {"ran", "unbusied"}) - Bit(wpc[w] \in {"ran", "unbusied"})
  BY <1>2 DEF nRan
<1>6. QED
  BY <1>3, <1>4, <1>5

(* Notifications change no number.                                         *)
LEMMA WorkersNotified ==
  ASSUME \A w \in Workers : wpc'[w] = wpc[w] \/ (wpc[w] = "sleeping" /\ wpc'[w] = "relock")
  PROVE  nIdle' = nIdle /\ nBusy' = nBusy /\ nRan' = nRan
<1>1. {w \in Workers : wpc'[w] \in {"pred", "drowsy", "sleeping", "relock"}}
      = {w \in Workers : wpc[w] \in {"pred", "drowsy", "sleeping", "relock"}}
  OBVIOUS
<1>2. {w \in Workers : wpc'[w] \in {"running", "ran"}} = {w \in Workers : wpc[w] \in {"running", "ran"}}
  OBVIOUS
<1>3. {w \in Workers : wpc'[w] \in {"ran", "unbusied"}} = {w \in Workers : wpc[w] \in {"ran", "unbusied"}}
  OBVIOUS
<1>4. nIdle' = nIdle
  BY <1>1 DEF nIdle
<1>5. nBusy' = nBusy
  BY <1>2 DEF nBusy
<1>6. nRan' = nRan
  BY <1>3 DEF nRan
<1>7. QED
  BY <1>4, <1>5, <1>6

LEMMA ProducersNotified ==
  ASSUME \A p \in Producers : pc'[p] = pc[p] \/ (pc[p] = "blocked" /\ pc'[p] = "relock")
  PROVE  nCall' = nCall /\ nWaiting' = nWaiting /\ nCounting' = nCounting
<1>1. {p \in Producers : pc'[p] \in {"blockPred", "drowsy", "blocked", "relock"}}
      = {p \in Producers : pc[p] \in {"blockPred", "drowsy", "blocked", "relock"}}
  OBVIOUS
<1>2. {p \in Producers : pc'[p] \in {"count", "blockCount"}}
      = {p \in Producers : pc[p] \in {"count", "blockCount"}}
  OBVIOUS
<1>3. {p \in Producers : pc'[p] # "out"} = {p \in Producers : pc[p] # "out"}
  OBVIOUS
<1>4. nWaiting' = nWaiting
  BY <1>1 DEF nWaiting
<1>5. nCounting' = nCounting
  BY <1>2 DEF nCounting
<1>6. nCall' = nCall
  BY <1>3 DEF nCall, InCall
<1>7. QED
  BY <1>4, <1>5, <1>6

(* One task comes to life or ends it.                                      *)
LEMMA TaskLives ==
  ASSUME Types, CountInv, NEW t \in Tasks, NEW f, fate' = [fate EXCEPT ![t] = f]
  PROVE  /\ IsFiniteSet(Alive') /\ nAlive \in Nat /\ nAlive' \in Nat
         /\ nAlive' = nAlive + Bit(f \in Live) - Bit(fate[t] \in Live)
<1> DEFINE A == {x \in Tasks : fate[x] \in Live}
           B == {x \in Tasks : fate'[x] \in Live}
<1>1. \A x \in Tasks : fate'[x] = IF x = t THEN f ELSE fate[x]
  BY DEF Types, TypeOK
<1>2. A \ {t} = B \ {t} /\ (t \in A <=> fate[t] \in Live) /\ (t \in B <=> f \in Live)
  BY <1>1
<1>3. A = Alive /\ B = Alive' /\ nAlive = Cardinality(A) /\ nAlive' = Cardinality(B)
  BY DEF Alive, nAlive
<1>4. IsFiniteSet(A)
  BY <1>3 DEF CountInv
<1> HIDE DEF A, B
<1>5. /\ IsFiniteSet(B) /\ Cardinality(A) \in Nat /\ Cardinality(B) \in Nat
      /\ Cardinality(B) = Cardinality(A) + Bit(t \in B) - Bit(t \in A)
  BY <1>2, <1>4, OneMoves
<1>6. Bit(t \in B) = Bit(f \in Live) /\ Bit(t \in A) = Bit(fate[t] \in Live)
  BY <1>2 DEF Bit
<1>7. QED
  BY <1>3, <1>5, <1>6

LEMMA NothingLives ==
  ASSUME CountInv, fate' = fate
  PROVE  IsFiniteSet(Alive') /\ nAlive \in Nat /\ nAlive' = nAlive
<1>1. Alive' = Alive
  BY DEF Alive
<1>2. IsFiniteSet(Alive)
  BY DEF CountInv
<1>3. nAlive \in Nat
  BY <1>2, FS_CardinalityType DEF nAlive
<1>4. nAlive' = nAlive
  BY <1>1 DEF nAlive
<1>5. QED
  BY <1>1, <1>2, <1>3, <1>4

(* What a step of a producer has to do to the counters: a is 1 if it makes *)
(* a task live.                                                            *)
ProducerDelta(p, to, a) ==
  /\ pc' = [pc EXCEPT ![p] = to]
  /\ \A w \in Workers : wpc'[w] = wpc[w] \/ (wpc[w] = "sleeping" /\ wpc'[w] = "relock")
  /\ IsFiniteSet(Alive') /\ nAlive \in Nat /\ nAlive' = nAlive + a
  /\ count'.active_submits_ = count.active_submits_ + Bit(to # "out") - Bit(pc[p] # "out")
  /\ count'.waiting_producers_ =
       count.waiting_producers_ + Bit(to \in {"blockPred", "drowsy", "blocked", "relock"})
         - Bit(pc[p] \in {"blockPred", "drowsy", "blocked", "relock"})
  /\ count'.submitted_tasks_ = count.submitted_tasks_ + a - Bit(to \in {"count", "blockCount"})
                                 + Bit(pc[p] \in {"count", "blockCount"})
  /\ count'.workers_idle_ = count.workers_idle_
  /\ count'.busy_workers_ = count.busy_workers_
  /\ count'.completed_tasks_ = count.completed_tasks_

LEMMA ProducerCount ==
  ASSUME Types, CountInv, NEW p \in Producers, NEW to, NEW a \in Int, ProducerDelta(p, to, a)
  PROVE  CountInv'
<1> USE DEF ProducerDelta
<1>1. /\ nCall' = nCall + Bit(to # "out") - Bit(pc[p] # "out")
      /\ nWaiting' = nWaiting + Bit(to \in {"blockPred", "drowsy", "blocked", "relock"})
                       - Bit(pc[p] \in {"blockPred", "drowsy", "blocked", "relock"})
      /\ nCounting' = nCounting + Bit(to \in {"count", "blockCount"})
                        - Bit(pc[p] \in {"count", "blockCount"})
  BY ProducerMoves
<1>2. nIdle' = nIdle /\ nBusy' = nBusy /\ nRan' = nRan
  BY WorkersNotified
<1>3. nCounting \in Nat /\ nRan \in Nat
  BY NumbersNat
<1>4. count.submitted_tasks_ \in Int /\ count.completed_tasks_ \in Int
  BY DEF Types, TypeOK, Counters
<1>5. Bit(to \in {"count", "blockCount"}) \in Int /\ Bit(pc[p] \in {"count", "blockCount"}) \in Int
  BY DEF Bit
<1>6. count'.submitted_tasks_ + nCounting' = count'.completed_tasks_ + nAlive' + nRan'
  BY <1>1, <1>2, <1>3, <1>4, <1>5 DEF CountInv
<1>7. QED
  BY <1>1, <1>2, <1>6 DEF CountInv

(* The same for a worker; a is 1 if it ends the life of a task.            *)
WorkerDelta(w, to, a) ==
  /\ wpc' = [wpc EXCEPT ![w] = to]
  /\ \A p \in Producers : pc'[p] = pc[p] \/ (pc[p] = "blocked" /\ pc'[p] = "relock")
  /\ IsFiniteSet(Alive') /\ nAlive \in Nat /\ nAlive' = nAlive - a
  /\ count'.workers_idle_ =
       count.workers_idle_ + Bit(to \in {"pred", "drowsy", "sleeping", "relock"})
         - Bit(wpc[w] \in {"pred", "drowsy", "sleeping", "relock"})
  /\ count'.busy_workers_ = count.busy_workers_ + Bit(to \in {"running", "ran"})
                              - Bit(wpc[w] \in {"running", "ran"})
  /\ count'.completed_tasks_ = count.completed_tasks_ + a - Bit(to \in {"ran", "unbusied"})
                                 + Bit(wpc[w] \in {"ran", "unbusied"})
  /\ count'.active_submits_ = count.active_submits_
  /\ count'.waiting_producers_ = count.waiting_producers_
  /\ count'.submitted_tasks_ = count.submitted_tasks_

LEMMA WorkerCount ==
  ASSUME Types, CountInv, NEW w \in Workers, NEW to, NEW a \in Int, WorkerDelta(w, to, a)
  PROVE  CountInv'
<1> USE DEF WorkerDelta
<1>1. /\ nIdle' = nIdle + Bit(to \in {"pred", "drowsy", "sleeping", "relock"})
                    - Bit(wpc[w] \in {"pred", "drowsy", "sleeping", "relock"})
      /\ nBusy' = nBusy + Bit(to \in {"running", "ran"}) - Bit(wpc[w] \in {"running", "ran"})
      /\ nRan' = nRan + Bit(to \in {"ran", "unbusied"}) - Bit(wpc[w] \in {"ran", "unbusied"})
  BY WorkerMoves
<1>2. nCall' = nCall /\ nWaiting' = nWaiting /\ nCounting' = nCounting
  BY ProducersNotified
<1>3. nCounting \in Nat /\ nRan \in Nat
  BY NumbersNat
<1>4. count.submitted_tasks_ \in Int /\ count.completed_tasks_ \in Int
  BY DEF Types, TypeOK, Counters
<1>5. Bit(to \in {"ran", "unbusied"}) \in Int /\ Bit(wpc[w] \in {"ran", "unbusied"}) \in Int
  BY DEF Bit
<1>6. count'.submitted_tasks_ + nCounting' = count'.completed_tasks_ + nAlive' + nRan'
  BY <1>1, <1>2, <1>3, <1>4, <1>5 DEF CountInv
<1>7. QED
  BY <1>1, <1>2, <1>6 DEF CountInv

LEMMA ProducerCounted ==
  ASSUME PlaceInv, CountInv, count' \in Counters, NEW p \in Producers,
         ProducerStep(p) \/ SpuriousProducer(p)
  PROVE  CountInv'
<1> USE DEF ProducerGoto
<1>0. Types /\ count \in Counters
  BY DEF PlaceInv, Types, TypeOK
<1>00. \A w \in Workers : wpc'[w] = wpc[w] \/ (wpc[w] = "sleeping" /\ wpc'[w] = "relock")
  <2>1. \/ wpc' = wpc \/ wpc' \in NotifyOne(wpc, "sleeping", "relock")
    BY DEF ProducerStep, SpuriousProducer, CheckStop, PushFast, PushFastFails, CountSubmitted,
       WakeWorker, LockedReject, LockForBlock, BlockPush, BlockPushFails, BlockCount, BlockPredFalse,
       BlockPredTrue, BlockSleep, BlockRelock, Leave, workerVars
  <2>2. QED
    BY <1>0, <2>1, NotifiedWorker DEF Types
<1>1. ASSUME NEW f \in {"refused", "threw", "discarded"}, Offering(p),
             fate' = [fate EXCEPT ![call[p]] = f]
      PROVE  IsFiniteSet(Alive') /\ nAlive \in Nat /\ nAlive' = nAlive + 0
  <2>1. fate[call[p]] = "calling" /\ call[p] \in Tasks
    BY <1>0, <1>1 DEF PlaceInv, Offers, Types, Offering
  <2>2. Bit(f \in Live) = 0 /\ Bit(fate[call[p]] \in Live) = 0
    BY <2>1 DEF Bit, Live
  <2> DEFINE t == call[p]
  <2>3. fate' = [fate EXCEPT ![t] = f] /\ t \in Tasks
    BY <1>1, <2>1
  <2> HIDE DEF t
  <2>4. /\ IsFiniteSet(Alive') /\ nAlive \in Nat
        /\ nAlive' = nAlive + Bit(f \in Live) - Bit(fate[t] \in Live)
    BY <1>0, <2>3, TaskLives
  <2>5. QED
    BY <2>2, <2>4 DEF t
<1>2. ASSUME fate' = fate
      PROVE  IsFiniteSet(Alive') /\ nAlive \in Nat /\ nAlive' = nAlive + 0
  BY <1>2, NothingLives
<1>3. ASSUME IsFiniteSet(Alive'), nAlive \in Nat, nAlive' = nAlive + 0, count' = count,
             NEW to, pc' = [pc EXCEPT ![p] = to], pc[p] # "out", to # "out",
             pc[p] \in {"blockPred", "drowsy", "blocked", "relock"}
               <=> to \in {"blockPred", "drowsy", "blocked", "relock"},
             pc[p] \notin {"count", "blockCount"}, to \notin {"count", "blockCount"}
      PROVE  CountInv'
  <2>1. /\ Bit(to # "out") = 1 /\ Bit(pc[p] # "out") = 1
        /\ Bit(to \in {"blockPred", "drowsy", "blocked", "relock"})
           = Bit(pc[p] \in {"blockPred", "drowsy", "blocked", "relock"})
        /\ Bit(to \in {"blockPred", "drowsy", "blocked", "relock"}) \in Int
        /\ Bit(to \in {"count", "blockCount"}) = 0 /\ Bit(pc[p] \in {"count", "blockCount"}) = 0
    BY <1>3 DEF Bit
  <2>2. /\ count.active_submits_ \in Int /\ count.waiting_producers_ \in Int
        /\ count.submitted_tasks_ \in Int
    BY <1>0 DEF Counters
  <2>3. ProducerDelta(p, to, 0)
    BY <1>00, <1>3, <2>1, <2>2 DEF ProducerDelta
  <2>4. QED
    BY <1>0, <2>3, ProducerCount
<1>4. CASE CheckStop(p) \/ PushFastFails(p) \/ LockedReject(p)
  <2>1. /\ count' = count /\ pc[p] \in {"check", "push", "lock"}
        /\ \E to \in {"push", "lock", "leaving"} : pc' = [pc EXCEPT ![p] = to]
    BY <1>4 DEF CheckStop, PushFastFails, LockedReject
  <2>2. \/ fate' = fate
        \/ \E f \in {"refused", "threw", "discarded"} : fate' = [fate EXCEPT ![call[p]] = f]
    BY <1>4 DEF CheckStop, PushFastFails, LockedReject, Refuse
  <2>3. Offering(p)
    BY <2>1 DEF Offering
  <2>4. IsFiniteSet(Alive') /\ nAlive \in Nat /\ nAlive' = nAlive + 0
    BY <1>1, <1>2, <2>2, <2>3
  <2>5. QED
    BY <1>3, <2>1, <2>4
<1>5. CASE WakeWorker(p) \/ LockForBlock(p) \/ BlockPredFalse(p) \/ BlockSleep(p)
           \/ BlockRelock(p) \/ SpuriousProducer(p)
  <2>1. count' = count /\ fate' = fate
    BY <1>5 DEF WakeWorker, LockForBlock, BlockPredFalse, BlockSleep, BlockRelock, SpuriousProducer
  <2>2. \/ pc[p] \in {"wake", "lock"} /\ \E to \in {"leaving", "blockPush"} : pc' = [pc EXCEPT ![p] = to]
        \/ /\ pc[p] \in {"blockPred", "drowsy", "blocked", "relock"}
           /\ \E to \in {"blockPred", "drowsy", "blocked", "relock"} : pc' = [pc EXCEPT ![p] = to]
    BY <1>5 DEF WakeWorker, LockForBlock, BlockPredFalse, BlockSleep, BlockRelock, SpuriousProducer
  <2>3. QED
    BY <1>2, <1>3, <2>1, <2>2
<1>6. CASE PushFast(p) \/ BlockPush(p)
  <2>1. /\ pc[p] \in {"push", "blockPush"} /\ count' = count
        /\ \E to \in {"count", "blockCount"} : pc' = [pc EXCEPT ![p] = to]
    BY <1>6 DEF PushFast, BlockPush
  <2>2. PICK f \in Live : fate' = [fate EXCEPT ![call[p]] = f]
    BY <1>6 DEF PushFast, BlockPush, PushIncoming, Live
  <2>3. PICK to \in {"count", "blockCount"} : pc' = [pc EXCEPT ![p] = to]
    BY <2>1
  <2>4. fate[call[p]] = "calling" /\ call[p] \in Tasks
    BY <1>0, <2>1 DEF PlaceInv, Offers, Types, Offering
  <2>5. Bit(f \in Live) = 1 /\ Bit(fate[call[p]] \in Live) = 0
    BY <2>4 DEF Bit, Live
  <2>6. IsFiniteSet(Alive') /\ nAlive \in Nat /\ nAlive' = nAlive + 1
    <3> DEFINE t == call[p]
    <3>1. fate' = [fate EXCEPT ![t] = f] /\ t \in Tasks
      BY <2>2, <2>4
    <3> HIDE DEF t
    <3>2. /\ IsFiniteSet(Alive') /\ nAlive \in Nat
          /\ nAlive' = nAlive + Bit(f \in Live) - Bit(fate[t] \in Live)
      BY <1>0, <3>1, TaskLives
    <3>3. QED
      BY <2>5, <3>2 DEF t
  <2>7. /\ Bit(to # "out") = 1 /\ Bit(pc[p] # "out") = 1
        /\ Bit(to \in {"blockPred", "drowsy", "blocked", "relock"}) = 0
        /\ Bit(pc[p] \in {"blockPred", "drowsy", "blocked", "relock"}) = 0
        /\ Bit(to \in {"count", "blockCount"}) = 1 /\ Bit(pc[p] \in {"count", "blockCount"}) = 0
    BY <2>1 DEF Bit
  <2>8. /\ count.active_submits_ \in Int /\ count.waiting_producers_ \in Int
        /\ count.submitted_tasks_ \in Int
    BY <1>0 DEF Counters
  <2>9. count' = count /\ pc' = [pc EXCEPT ![p] = to]
    BY <2>1, <2>3
  <2>10. ProducerDelta(p, to, 1)
    BY <1>00, <2>6, <2>7, <2>8, <2>9 DEF ProducerDelta
  <2>11. QED
    BY <1>0, <2>10, ProducerCount
<1>7. CASE CountSubmitted(p) \/ BlockCount(p)
  <2>1. /\ pc[p] \in {"count", "blockCount"} /\ fate' = fate /\ pc' = [pc EXCEPT ![p] = "wake"]
        /\ count' = [count EXCEPT !.submitted_tasks_ = @ + 1]
    BY <1>7 DEF CountSubmitted, BlockCount
  <2>2. /\ Bit("wake" # "out") = 1 /\ Bit(pc[p] # "out") = 1
        /\ Bit("wake" \in {"blockPred", "drowsy", "blocked", "relock"}) = 0
        /\ Bit(pc[p] \in {"blockPred", "drowsy", "blocked", "relock"}) = 0
        /\ Bit("wake" \in {"count", "blockCount"}) = 0 /\ Bit(pc[p] \in {"count", "blockCount"}) = 1
    BY <2>1 DEF Bit
  <2>3. /\ count.active_submits_ \in Int /\ count.waiting_producers_ \in Int
        /\ count.submitted_tasks_ \in Int
        /\ count'.submitted_tasks_ = count.submitted_tasks_ + 1
        /\ count'.active_submits_ = count.active_submits_
        /\ count'.waiting_producers_ = count.waiting_producers_
        /\ count'.workers_idle_ = count.workers_idle_ /\ count'.busy_workers_ = count.busy_workers_
        /\ count'.completed_tasks_ = count.completed_tasks_
    BY <1>0, <2>1 DEF Counters
  <2>4. IsFiniteSet(Alive') /\ nAlive \in Nat /\ nAlive' = nAlive + 0
    BY <1>2, <2>1
  <2>5. ProducerDelta(p, "wake", 0)
    BY <1>00, <2>1, <2>2, <2>3, <2>4 DEF ProducerDelta
  <2>6. QED
    BY <1>0, <2>5, ProducerCount
<1>8. CASE BlockPushFails(p)
  <2>1. /\ pc[p] = "blockPush" /\ fate' = fate /\ pc' = [pc EXCEPT ![p] = "blockPred"]
        /\ count' = [count EXCEPT !.waiting_producers_ = @ + 1]
    BY <1>8 DEF BlockPushFails
  <2>2. /\ Bit("blockPred" # "out") = 1 /\ Bit(pc[p] # "out") = 1
        /\ Bit("blockPred" \in {"blockPred", "drowsy", "blocked", "relock"}) = 1
        /\ Bit(pc[p] \in {"blockPred", "drowsy", "blocked", "relock"}) = 0
        /\ Bit("blockPred" \in {"count", "blockCount"}) = 0
        /\ Bit(pc[p] \in {"count", "blockCount"}) = 0
    BY <2>1 DEF Bit
  <2>3. /\ count.active_submits_ \in Int /\ count.waiting_producers_ \in Int
        /\ count.submitted_tasks_ \in Int
        /\ count'.submitted_tasks_ = count.submitted_tasks_
        /\ count'.active_submits_ = count.active_submits_
        /\ count'.waiting_producers_ = count.waiting_producers_ + 1
        /\ count'.workers_idle_ = count.workers_idle_ /\ count'.busy_workers_ = count.busy_workers_
        /\ count'.completed_tasks_ = count.completed_tasks_
    BY <1>0, <2>1 DEF Counters
  <2>4. IsFiniteSet(Alive') /\ nAlive \in Nat /\ nAlive' = nAlive + 0
    BY <1>2, <2>1
  <2>5. ProducerDelta(p, "blockPred", 0)
    BY <1>00, <2>1, <2>2, <2>3, <2>4 DEF ProducerDelta
  <2>6. QED
    BY <1>0, <2>5, ProducerCount
<1>9. CASE BlockPredTrue(p)
  <2>1. /\ pc[p] = "blockPred" /\ count' = [count EXCEPT !.waiting_producers_ = @ - 1]
        /\ \/ fate' = fate
           \/ fate' = [fate EXCEPT ![call[p]] = "threw"]
        /\ \E to \in {"leaving", "blockPush"} : pc' = [pc EXCEPT ![p] = to]
    BY <1>9 DEF BlockPredTrue, Refuse
  <2>2. PICK to \in {"leaving", "blockPush"} : pc' = [pc EXCEPT ![p] = to]
    BY <2>1
  <2>3. Offering(p)
    BY <2>1 DEF Offering
  <2>4. IsFiniteSet(Alive') /\ nAlive \in Nat /\ nAlive' = nAlive + 0
    BY <1>1, <1>2, <2>1, <2>3
  <2>5. /\ Bit(to # "out") = 1 /\ Bit(pc[p] # "out") = 1
        /\ Bit(to \in {"blockPred", "drowsy", "blocked", "relock"}) = 0
        /\ Bit(pc[p] \in {"blockPred", "drowsy", "blocked", "relock"}) = 1
        /\ Bit(to \in {"count", "blockCount"}) = 0
        /\ Bit(pc[p] \in {"count", "blockCount"}) = 0
    BY <2>1 DEF Bit
  <2>6. /\ count.active_submits_ \in Int /\ count.waiting_producers_ \in Int
        /\ count.submitted_tasks_ \in Int
        /\ count'.submitted_tasks_ = count.submitted_tasks_
        /\ count'.active_submits_ = count.active_submits_
        /\ count'.waiting_producers_ = count.waiting_producers_ - 1
        /\ count'.workers_idle_ = count.workers_idle_ /\ count'.busy_workers_ = count.busy_workers_
        /\ count'.completed_tasks_ = count.completed_tasks_
    BY <1>0, <2>1 DEF Counters
  <2>7. ProducerDelta(p, to, 0)
    BY <1>00, <2>2, <2>4, <2>5, <2>6 DEF ProducerDelta
  <2>8. QED
    BY <1>0, <2>7, ProducerCount
<1>10. CASE Leave(p)
  <2>1. /\ pc[p] = "leaving" /\ fate' = fate /\ pc' = [pc EXCEPT ![p] = "out"]
        /\ count' = [count EXCEPT !.active_submits_ = @ - 1]
    BY <1>10 DEF Leave
  <2>2. /\ Bit("out" # "out") = 0 /\ Bit(pc[p] # "out") = 1
        /\ Bit("out" \in {"blockPred", "drowsy", "blocked", "relock"}) = 0
        /\ Bit(pc[p] \in {"blockPred", "drowsy", "blocked", "relock"}) = 0
        /\ Bit("out" \in {"count", "blockCount"}) = 0
        /\ Bit(pc[p] \in {"count", "blockCount"}) = 0
    BY <2>1 DEF Bit
  <2>3. /\ count.active_submits_ \in Int /\ count.waiting_producers_ \in Int
        /\ count.submitted_tasks_ \in Int
        /\ count'.submitted_tasks_ = count.submitted_tasks_
        /\ count'.active_submits_ = count.active_submits_ - 1
        /\ count'.waiting_producers_ = count.waiting_producers_
        /\ count'.workers_idle_ = count.workers_idle_ /\ count'.busy_workers_ = count.busy_workers_
        /\ count'.completed_tasks_ = count.completed_tasks_
    BY <1>0, <2>1 DEF Counters
  <2>4. IsFiniteSet(Alive') /\ nAlive \in Nat /\ nAlive' = nAlive + 0
    BY <1>2, <2>1
  <2>5. ProducerDelta(p, "out", 0)
    BY <1>00, <2>1, <2>2, <2>3, <2>4 DEF ProducerDelta
  <2>6. QED
    BY <1>0, <2>5, ProducerCount
<1>11. QED
  BY <1>4, <1>5, <1>6, <1>7, <1>8, <1>9, <1>10 DEF ProducerStep

LEMMA WorkerCounted ==
  ASSUME PlaceInv, CountInv, NEW w \in Workers, WorkerStep(w) \/ SpuriousWorker(w)
  PROVE  CountInv'
<1> USE DEF WorkerGoto
<1>0. Types /\ count \in Counters
  BY DEF PlaceInv, Types, TypeOK
<1>00. \A p \in Producers : pc'[p] = pc[p] \/ (pc[p] = "blocked" /\ pc'[p] = "relock")
  <2>1. pc' = pc \/ pc' \in NotifyOne(pc, "blocked", "relock")
    BY DEF WorkerStep, SpuriousWorker, LocalPop, LocalMiss, FillPop, FillEnd, FillStore, FillFull,
           FillNotify, Steal, StealMiss, StealNothing, LockIdle, Scan, Exit, ExitNotYet, PredTrue,
           PredFalse, IdleSleep, IdleRelock, ExecuteBegin, ExecuteBody, ExecuteUnbusy, ExecuteEnd, ExecuteNotify,
           NotifyProducer, clientVars
  <2>2. QED
    BY <1>0, <2>1, NotifiedProducer DEF Types
<1>1. ASSUME fate' = fate
      PROVE  IsFiniteSet(Alive') /\ nAlive \in Nat /\ nAlive' = nAlive - 0
  BY <1>1, NothingLives
<1>2. /\ count.active_submits_ \in Int /\ count.submitted_tasks_ \in Int
      /\ count.waiting_producers_ \in Int /\ count.workers_idle_ \in Int
      /\ count.busy_workers_ \in Int /\ count.completed_tasks_ \in Int
  BY <1>0 DEF Counters
<1>3. ASSUME fate' = fate, count' = count, NEW to, wpc' = [wpc EXCEPT ![w] = to],
             wpc[w] \in {"pred", "drowsy", "sleeping", "relock"}
               <=> to \in {"pred", "drowsy", "sleeping", "relock"},
             wpc[w] \notin {"running", "ran", "unbusied"}, to \notin {"running", "ran", "unbusied"}
      PROVE  CountInv'
  <2>1. /\ Bit(to \in {"pred", "drowsy", "sleeping", "relock"})
           = Bit(wpc[w] \in {"pred", "drowsy", "sleeping", "relock"})
        /\ Bit(to \in {"pred", "drowsy", "sleeping", "relock"}) \in Int
        /\ Bit(to \in {"running", "ran"}) = 0 /\ Bit(wpc[w] \in {"running", "ran"}) = 0
        /\ Bit(to \in {"ran", "unbusied"}) = 0 /\ Bit(wpc[w] \in {"ran", "unbusied"}) = 0
    BY <1>3 DEF Bit
  <2>2. WorkerDelta(w, to, 0)
    BY <1>00, <1>1, <1>2, <1>3, <2>1 DEF WorkerDelta
  <2>3. QED
    BY <1>0, <2>2, WorkerCount
<1> DEFINE Idles(to, i) ==
              /\ fate' = fate /\ wpc' = [wpc EXCEPT ![w] = to]
              /\ count' = [count EXCEPT !.workers_idle_ = @ + i]
              /\ \/ i = 0 /\ to = "exitScan" /\ wpc[w] = "lock"
                 \/ i = 1 /\ to = "pred" /\ wpc[w] \in {"lock", "exitScan"}
                 \/ i = -1 /\ to = "pop" /\ wpc[w] = "pred"
<1>4. ASSUME NEW to, NEW i \in Int, Idles(to, i)
      PROVE  CountInv'
  <2>0. i = Bit(to \in {"pred", "drowsy", "sleeping", "relock"})
              - Bit(wpc[w] \in {"pred", "drowsy", "sleeping", "relock"})
    BY <1>4 DEF Bit
  <2>1. /\ Bit(to \in {"pred", "drowsy", "sleeping", "relock"}) \in Int
        /\ Bit(wpc[w] \in {"pred", "drowsy", "sleeping", "relock"}) \in Int
        /\ Bit(to \in {"running", "ran"}) = 0 /\ Bit(wpc[w] \in {"running", "ran"}) = 0
        /\ Bit(to \in {"ran", "unbusied"}) = 0 /\ Bit(wpc[w] \in {"ran", "unbusied"}) = 0
    BY <1>4 DEF Bit
  <2>2. /\ count'.workers_idle_ = count.workers_idle_ + i
        /\ count'.busy_workers_ = count.busy_workers_
        /\ count'.completed_tasks_ = count.completed_tasks_
        /\ count'.active_submits_ = count.active_submits_
        /\ count'.waiting_producers_ = count.waiting_producers_
        /\ count'.submitted_tasks_ = count.submitted_tasks_
    BY <1>0, <1>4 DEF Counters
  <2>3. WorkerDelta(w, to, 0)
    BY <1>00, <1>1, <1>2, <1>4, <2>0, <2>1, <2>2 DEF WorkerDelta
  <2>4. QED
    BY <1>0, <2>3, WorkerCount
<1> HIDE DEF Idles
<1>5. CASE \/ LocalPop(w) \/ LocalMiss(w) \/ FillPop(w) \/ FillEnd(w) \/ FillStore(w) \/ FillFull(w)
           \/ FillNotify(w) \/ Steal(w) \/ StealMiss(w) \/ StealNothing(w) \/ Exit(w)
           \/ ExecuteNotify(w)
  <2>1. fate' = fate /\ count' = count
    BY <1>5 DEF LocalPop, LocalMiss, FillPop, FillEnd, FillStore, FillFull, FillNotify, Steal,
                StealMiss, StealNothing, Exit, ExecuteNotify
  <2>2. wpc[w] \in {"pop", "fill", "store", "fillNotify", "steal", "exitScan", "ranNotify"}
    BY <1>5 DEF LocalPop, LocalMiss, FillPop, FillEnd, FillStore, FillFull, FillNotify, Steal,
                StealMiss, StealNothing, Exit, ExecuteNotify
  <2>3. \E to \in {"execute", "fill", "store", "pop", "steal", "fillNotify", "lock", "exited"} :
          wpc' = [wpc EXCEPT ![w] = to]
    <3>1. CASE FillEnd(w) \/ ExecuteNotify(w)
      BY <3>1 DEF FillEnd, ExecuteNotify
    <3>2. CASE LocalPop(w) \/ LocalMiss(w) \/ FillPop(w) \/ FillStore(w) \/ FillFull(w)
      BY <3>2 DEF LocalPop, LocalMiss, FillPop, FillStore, FillFull
    <3>3. QED
      BY <1>5, <3>1, <3>2 DEF FillNotify, Steal, StealMiss, StealNothing, Exit
  <2>4. QED
    BY <1>3, <2>1, <2>2, <2>3
<1>6. CASE PredFalse(w) \/ IdleSleep(w) \/ IdleRelock(w) \/ SpuriousWorker(w)
  <2>1. /\ fate' = fate /\ count' = count /\ wpc[w] \in {"pred", "drowsy", "sleeping", "relock"}
        /\ \E to \in {"pred", "drowsy", "sleeping", "relock"} : wpc' = [wpc EXCEPT ![w] = to]
    BY <1>6 DEF PredFalse, IdleSleep, IdleRelock, SpuriousWorker
  <2>2. QED
    BY <1>3, <2>1
<1>7. CASE Scan(w)
  <2>1. UNCHANGED <<pc, wpc, count, fate>>
    BY <1>7 DEF Scan, clientVars
  <2>2. nCall' = nCall /\ nWaiting' = nWaiting /\ nCounting' = nCounting
    BY <2>1, ProducersNotified
  <2>3. nIdle' = nIdle /\ nBusy' = nBusy /\ nRan' = nRan
    BY <2>1, WorkersNotified
  <2>4. IsFiniteSet(Alive') /\ nAlive' = nAlive
    BY <2>1, NothingLives
  <2>5. QED
    BY <2>1, <2>2, <2>3, <2>4 DEF CountInv
<1>8. CASE LockIdle(w)
  <2>1. CASE stop_
    <3>1. Idles("exitScan", 0)
      BY <1>2, <1>8, <2>1 DEF LockIdle, Idles
    <3>2. QED
      BY <1>4, <3>1
  <2>2. CASE ~stop_
    <3>1. Idles("pred", 1)
      BY <1>8, <2>2 DEF LockIdle, Idles
    <3>2. QED
      BY <1>4, <3>1
  <2>3. QED
    BY <2>1, <2>2
<1>9. CASE ExitNotYet(w)
  <2>1. Idles("pred", 1)
    BY <1>9 DEF ExitNotYet, Idles
  <2>2. QED
    BY <1>4, <2>1
<1>10. CASE PredTrue(w)
  <2>1. Idles("pop", -1)
    BY <1>2, <1>10 DEF PredTrue, NoLongerIdle, Idles
  <2>2. QED
    BY <1>4, <2>1
<1>11. CASE ExecuteBegin(w)
  <2>1. /\ fate' = fate /\ wpc[w] = "execute" /\ wpc' = [wpc EXCEPT ![w] = "running"]
        /\ count' = [count EXCEPT !.busy_workers_ = @ + 1]
    BY <1>11 DEF ExecuteBegin
  <2>2. /\ Bit("running" \in {"pred", "drowsy", "sleeping", "relock"}) = 0
        /\ Bit(wpc[w] \in {"pred", "drowsy", "sleeping", "relock"}) = 0
        /\ Bit("running" \in {"running", "ran"}) = 1 /\ Bit(wpc[w] \in {"running", "ran"}) = 0
        /\ Bit("running" \in {"ran", "unbusied"}) = 0 /\ Bit(wpc[w] \in {"ran", "unbusied"}) = 0
    BY <2>1 DEF Bit
  <2>3. /\ count'.workers_idle_ = count.workers_idle_
        /\ count'.busy_workers_ = count.busy_workers_ + 1
        /\ count'.completed_tasks_ = count.completed_tasks_
        /\ count'.active_submits_ = count.active_submits_
        /\ count'.waiting_producers_ = count.waiting_producers_
        /\ count'.submitted_tasks_ = count.submitted_tasks_
    BY <1>0, <2>1 DEF Counters
  <2>4. IsFiniteSet(Alive') /\ nAlive \in Nat /\ nAlive' = nAlive - 0
    BY <1>1, <2>1
  <2>5. WorkerDelta(w, "running", 0)
    BY <1>00, <1>2, <2>1, <2>2, <2>3, <2>4 DEF WorkerDelta
  <2>6. QED
    BY <1>0, <2>5, WorkerCount
<1>12. ASSUME NEW failed \in 0 .. 1, ExecuteBody(w, failed) PROVE CountInv'
  <2> DEFINE t == held[w]
  <2>1. /\ wpc[w] = "running" /\ wpc' = [wpc EXCEPT ![w] = "ran"]
        /\ fate' = [fate EXCEPT ![t] = "done"]
        /\ count' = [count EXCEPT !.failed_tasks_ = @ + failed]
    BY <1>12 DEF ExecuteBody
  <2>2. t \in Tasks /\ fate[t] \in Live
    BY <1>0, <2>1 DEF PlaceInv, Located, Holding, Types, TypeOK, InHand
  <2> HIDE DEF t
  <2>3. /\ IsFiniteSet(Alive') /\ nAlive \in Nat
        /\ nAlive' = nAlive + Bit("done" \in Live) - Bit(fate[t] \in Live)
    BY <1>0, <2>1, <2>2, TaskLives
  <2>4. Bit("done" \in Live) = 0 /\ Bit(fate[t] \in Live) = 1
    BY <2>2 DEF Bit, Live
  <2>5. nAlive' = nAlive - 1
    BY <2>3, <2>4
  <2>6. /\ Bit("ran" \in {"pred", "drowsy", "sleeping", "relock"}) = 0
        /\ Bit(wpc[w] \in {"pred", "drowsy", "sleeping", "relock"}) = 0
        /\ Bit("ran" \in {"running", "ran"}) = 1 /\ Bit(wpc[w] \in {"running", "ran"}) = 1
        /\ Bit("ran" \in {"ran", "unbusied"}) = 1 /\ Bit(wpc[w] \in {"ran", "unbusied"}) = 0
    BY <2>1 DEF Bit
  <2>7. /\ count'.workers_idle_ = count.workers_idle_
        /\ count'.busy_workers_ = count.busy_workers_
        /\ count'.completed_tasks_ = count.completed_tasks_
        /\ count'.active_submits_ = count.active_submits_
        /\ count'.waiting_producers_ = count.waiting_producers_
        /\ count'.submitted_tasks_ = count.submitted_tasks_
    BY <1>0, <2>1 DEF Counters
  <2>8. WorkerDelta(w, "ran", 1)
    BY <1>00, <1>2, <2>1, <2>3, <2>5, <2>6, <2>7 DEF WorkerDelta
  <2>9. QED
    BY <1>0, <2>8, WorkerCount
<1>13. CASE ExecuteUnbusy(w)
  <2>1. /\ fate' = fate /\ wpc[w] = "ran" /\ wpc' = [wpc EXCEPT ![w] = "unbusied"]
        /\ count' = [count EXCEPT !.busy_workers_ = @ - 1]
    BY <1>13 DEF ExecuteUnbusy
  <2>2. /\ Bit("unbusied" \in {"pred", "drowsy", "sleeping", "relock"}) = 0
        /\ Bit(wpc[w] \in {"pred", "drowsy", "sleeping", "relock"}) = 0
        /\ Bit("unbusied" \in {"running", "ran"}) = 0 /\ Bit(wpc[w] \in {"running", "ran"}) = 1
        /\ Bit("unbusied" \in {"ran", "unbusied"}) = 1 /\ Bit(wpc[w] \in {"ran", "unbusied"}) = 1
    BY <2>1 DEF Bit
  <2>3. /\ count'.workers_idle_ = count.workers_idle_
        /\ count'.busy_workers_ = count.busy_workers_ - 1
        /\ count'.completed_tasks_ = count.completed_tasks_
        /\ count'.active_submits_ = count.active_submits_
        /\ count'.waiting_producers_ = count.waiting_producers_
        /\ count'.submitted_tasks_ = count.submitted_tasks_
    BY <1>0, <2>1 DEF Counters
  <2>4. IsFiniteSet(Alive') /\ nAlive \in Nat /\ nAlive' = nAlive - 0
    BY <1>1, <2>1
  <2>5. WorkerDelta(w, "unbusied", 0)
    BY <1>00, <1>2, <2>1, <2>2, <2>3, <2>4 DEF WorkerDelta
  <2>6. QED
    BY <1>0, <2>5, WorkerCount
<1>14. CASE ExecuteEnd(w)
  <2>1. /\ fate' = fate /\ wpc[w] = "unbusied" /\ wpc' = [wpc EXCEPT ![w] = "ranNotify"]
        /\ count' = [count EXCEPT !.completed_tasks_ = @ + 1]
    BY <1>14 DEF ExecuteEnd
  <2>2. /\ Bit("ranNotify" \in {"pred", "drowsy", "sleeping", "relock"}) = 0
        /\ Bit(wpc[w] \in {"pred", "drowsy", "sleeping", "relock"}) = 0
        /\ Bit("ranNotify" \in {"running", "ran"}) = 0 /\ Bit(wpc[w] \in {"running", "ran"}) = 0
        /\ Bit("ranNotify" \in {"ran", "unbusied"}) = 0 /\ Bit(wpc[w] \in {"ran", "unbusied"}) = 1
    BY <2>1 DEF Bit
  <2>3. /\ count'.workers_idle_ = count.workers_idle_
        /\ count'.busy_workers_ = count.busy_workers_
        /\ count'.completed_tasks_ = count.completed_tasks_ + 1
        /\ count'.active_submits_ = count.active_submits_
        /\ count'.waiting_producers_ = count.waiting_producers_
        /\ count'.submitted_tasks_ = count.submitted_tasks_
    BY <1>0, <2>1 DEF Counters
  <2>4. IsFiniteSet(Alive') /\ nAlive \in Nat /\ nAlive' = nAlive - 0
    BY <1>1, <2>1
  <2>5. WorkerDelta(w, "ranNotify", 0)
    BY <1>00, <1>2, <2>1, <2>2, <2>3, <2>4 DEF WorkerDelta
  <2>6. QED
    BY <1>0, <2>5, WorkerCount
<1>15. QED
  BY <1>5, <1>6, <1>7, <1>8, <1>9, <1>10, <1>11, <1>12, <1>13, <1>14 DEF WorkerStep

LEMMA NextCounted ==
  ASSUME PlaceInv, CountInv, [Next]_vars
  PROVE  CountInv'
<1>0. Types /\ Types' /\ count \in Counters
  BY NextTypes DEF PlaceInv, Types, TypeOK
<1>1. ASSUME NEW p \in Producers, NEW k \in Kinds, NEW t \in Tasks, Enter(p, k, t)
      PROVE  CountInv'
  <2>1. /\ fate[t] = "new" /\ pc[p] = "out" /\ pc' = [pc EXCEPT ![p] = "check"]
        /\ fate' = [fate EXCEPT ![t] = "calling"] /\ wpc' = wpc
        /\ count' = [count EXCEPT !.active_submits_ = @ + 1]
    BY <1>1 DEF Enter, ProducerGoto, workerVars
  <2>2. /\ IsFiniteSet(Alive') /\ nAlive \in Nat
        /\ nAlive' = nAlive + Bit("calling" \in Live) - Bit(fate[t] \in Live)
    BY <1>0, <2>1, TaskLives
  <2>3. Bit("calling" \in Live) = 0 /\ Bit(fate[t] \in Live) = 0
    BY <2>1 DEF Bit, Live
  <2>4. /\ Bit("check" # "out") = 1 /\ Bit(pc[p] # "out") = 0
        /\ Bit("check" \in {"blockPred", "drowsy", "blocked", "relock"}) = 0
        /\ Bit(pc[p] \in {"blockPred", "drowsy", "blocked", "relock"}) = 0
        /\ Bit("check" \in {"count", "blockCount"}) = 0
        /\ Bit(pc[p] \in {"count", "blockCount"}) = 0
    BY <2>1 DEF Bit
  <2>5. /\ count.active_submits_ \in Int /\ count.waiting_producers_ \in Int
        /\ count.submitted_tasks_ \in Int
        /\ count'.submitted_tasks_ = count.submitted_tasks_
        /\ count'.active_submits_ = count.active_submits_ + 1
        /\ count'.waiting_producers_ = count.waiting_producers_
        /\ count'.workers_idle_ = count.workers_idle_ /\ count'.busy_workers_ = count.busy_workers_
        /\ count'.completed_tasks_ = count.completed_tasks_
    BY <1>0, <2>1 DEF Counters
  <2>6. nAlive' = nAlive + 0
    BY <2>2, <2>3
  <2>7. ProducerDelta(p, "check", 0)
    BY <2>1, <2>2, <2>4, <2>5, <2>6 DEF ProducerDelta
  <2>8. QED
    BY <1>0, <2>7, ProducerCount
<1>2. CASE \E p \in Producers : ProducerStep(p) \/ SpuriousProducer(p)
  <2>1. count' \in Counters
    BY <1>0 DEF Types, TypeOK
  <2>2. QED
    BY <1>2, <2>1, ProducerCounted
<1>3. CASE \E w \in Workers : WorkerStep(w) \/ SpuriousWorker(w)
  BY <1>3, WorkerCounted
<1>4. CASE (\E c \in Closers : Shutdown(c) \/ ShutdownStep(c)) \/ Destroy \/ UNCHANGED vars
  <2>1. UNCHANGED <<fate, count>>
    BY <1>4 DEF Shutdown, ShutdownStep, ShutdownNotifyCv, ShutdownNotifyNotFull,
                ShutdownAwaitSubmits, ShutdownJoin, Destroy, vars
  <2>2. /\ wpc' = wpc \/ wpc' = NotifyAll(wpc, "sleeping", "relock")
        /\ pc' = pc \/ pc' = NotifyAll(pc, "blocked", "relock")
    BY <1>4 DEF Shutdown, ShutdownStep, ShutdownNotifyCv, ShutdownNotifyNotFull, workerVars,
                ShutdownAwaitSubmits, ShutdownJoin, Destroy, NotifyAllCv, clientVars, vars
  <2>3. \A w \in Workers : wpc'[w] = wpc[w] \/ (wpc[w] = "sleeping" /\ wpc'[w] = "relock")
    BY <1>0, <2>2, NotifiedWorker DEF Types
  <2>4. \A p \in Producers : pc'[p] = pc[p] \/ (pc[p] = "blocked" /\ pc'[p] = "relock")
    BY <1>0, <2>2, NotifiedProducer DEF Types
  <2>5. nCall' = nCall /\ nWaiting' = nWaiting /\ nCounting' = nCounting
    BY <2>4, ProducersNotified
  <2>6. nIdle' = nIdle /\ nBusy' = nBusy /\ nRan' = nRan
    BY <2>3, WorkersNotified
  <2>7. IsFiniteSet(Alive') /\ nAlive' = nAlive
    BY <2>1, NothingLives
  <2>8. QED
    BY <2>1, <2>5, <2>6, <2>7 DEF CountInv
<1>5. QED
  BY <1>1, <1>2, <1>3, <1>4 DEF Next, Terminated

LEMMA InitCounted == Init => CountInv
<1> SUFFICES ASSUME Init PROVE CountInv
  OBVIOUS
<1>1. /\ InCall = {} /\ Alive = {}
      /\ {w \in Workers : wpc[w] \in {"pred", "drowsy", "sleeping", "relock"}} = {}
      /\ {p \in Producers : pc[p] \in {"blockPred", "drowsy", "blocked", "relock"}} = {}
      /\ {w \in Workers : wpc[w] \in {"running", "ran"}} = {}
      /\ {p \in Producers : pc[p] \in {"count", "blockCount"}} = {}
      /\ {w \in Workers : wpc[w] \in {"ran", "unbusied"}} = {}
  <2>1. (\A p \in Producers : pc[p] = "out") /\ (\A w \in Workers : wpc[w] = "pop")
        /\ \A t \in Tasks : fate[t] = "new"
    BY DEF Init
  <2>2. InCall = {} /\ Alive = {}
    BY <2>1 DEF InCall, Alive, Live
  <2>3. QED
    BY <2>1, <2>2
<1>2. IsFiniteSet({}) /\ Cardinality({}) = 0
  BY FS_EmptySet
<1>3. /\ nCall = 0 /\ nIdle = 0 /\ nWaiting = 0 /\ nBusy = 0 /\ nCounting = 0 /\ nRan = 0
      /\ nAlive = 0 /\ IsFiniteSet(Alive)
  BY <1>1, <1>2 DEF nCall, nIdle, nWaiting, nBusy, nCounting, nRan, nAlive
<1>4. /\ count.active_submits_ = 0 /\ count.workers_idle_ = 0 /\ count.waiting_producers_ = 0
      /\ count.busy_workers_ = 0 /\ count.submitted_tasks_ = 0 /\ count.completed_tasks_ = 0
  BY DEF Init
<1>5. QED
  BY <1>3, <1>4 DEF CountInv

(* The counters that decide who is notified and when shutdown() goes on    *)
(* agree with where the threads are, although each is bumped some steps    *)
(* before or after the event it counts; and the metrics balance.           *)
THEOREM StealingCounted == Spec => []Counted
<1> DEFINE Inv == PlaceInv /\ CountInv
<1>1. Init => Inv
  BY InitPlace, InitCounted
<1>2. Inv /\ [Next]_vars => Inv'
  BY NextPlace, NextCounted
<1>3. Inv => Counted
  <2> SUFFICES ASSUME Inv PROVE Counted
    OBVIOUS
  <2>1. {t \in Tasks : Places(t) # {}} = Alive
    BY WhereLive DEF Alive
  <2>2. Cardinality({t \in Tasks : Places(t) # {}}) = nAlive
    BY <2>1 DEF nAlive
  <2>3. QED
    BY <2>2 DEF Counted, CountInv, nCall, nIdle, nWaiting, nBusy, nCounting, nRan
<1>4. QED
  BY <1>1, <1>2, <1>3, PTL DEF Spec
=============================================================================
