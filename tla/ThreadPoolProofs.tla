-------------------------- MODULE ThreadPoolProofs --------------------------
(***************************************************************************)
(* Theorems about ThreadPool for any number of producers, workers, closers *)
(* and tasks, any capacity and any set of reject policies.                 *)
(***************************************************************************)
EXTENDS ThreadPool, FiniteSetTheorems, TLAPS

(* cv.notify_one() moves sleeping workers at most, and nowhere but to the  *)
(* evaluation of their predicate.                                          *)
LEMMA NotifyOneWorker ==
  ASSUME TypeOK, wpc' \in NotifyOne(wpc, "waiting", "check")
  PROVE  /\ wpc' \in [Workers -> {"check", "waiting", "taken", "executing", "executed",
                                  "unbusied", "exited"}]
         /\ \A w \in Workers : wpc'[w] = wpc[w] \/ (wpc[w] = "waiting" /\ wpc'[w] = "check")
  BY DEF NotifyOne, TypeOK

(* The same of not_full_cv.notify_one() and the blocked producers.         *)
LEMMA NotifyOneProducer ==
  ASSUME TypeOK, pc' \in NotifyOne(pc, "blocked", "enqueue")
  PROVE  /\ pc' \in [Producers -> {"out", "checkStop", "enqueue", "blocked", "notify",
                                   "leaving"}]
         /\ \A p \in Producers : pc'[p] = pc[p] \/ (pc[p] = "blocked" /\ pc'[p] = "enqueue")
  BY DEF NotifyOne, TypeOK

-----------------------------------------------------------------------------
LEMMA InitTypeOK == Init => TypeOK
<1> SUFFICES ASSUME Init PROVE TypeOK
  OBVIOUS
<1> USE DEF Init
<1>1. tasks \in Seq(Tasks) /\ Len(tasks) <= Capacity
  BY CapacityPositive
<1>2. \A w \in Workers : held[w] = NULL <=> wpc[w] \in {"check", "waiting", "exited"}
  OBVIOUS
<1>3. call \in [Producers -> [kind : Kinds, task : Tasks] \cup {NULL}]
  OBVIOUS
<1>4. /\ pc \in [Producers -> {"out", "checkStop", "enqueue", "blocked", "notify", "leaving"}]
      /\ \A p \in Producers : pc[p] # "out" => call[p] # NULL
      /\ held \in [Workers -> Tasks \cup {NULL}]
  OBVIOUS
<1>5. /\ wpc \in [Workers -> {"check", "waiting", "taken", "executing", "executed",
                              "unbusied", "exited"}]
      /\ cpc \in [Closers -> {"out", "notifyCv", "notifyNotFull", "awaitSubmits", "join",
                              "joined", "skipped", "destroyed"}]
  OBVIOUS
<1>6. /\ fate \in [Tasks -> {"new", "calling", "queued", "taken", "done", "discarded",
                             "threw", "refused"}]
      /\ future \in [Tasks -> {"none", "pending", "value", "exception", "broken"}]
  OBVIOUS
<1>7. stop \in BOOLEAN /\ reject_policy \in Policies
  OBVIOUS
<1>8. /\ active_submits \in Int /\ busy_workers \in Int
      /\ submitted_tasks \in Nat /\ completed_tasks \in Nat /\ failed_tasks \in Nat
  OBVIOUS
<1>9. QED
  BY <1>1, <1>2, <1>3, <1>4, <1>5, <1>6, <1>7, <1>8 DEF TypeOK

(* A client's step keeps the types: the ring is only pushed when not full. *)
LEMMA ProducerTypeOK ==
  ASSUME TypeOK, NEW p \in Producers, ProducerStep(p) \/ SpuriousProducer(p)
  PROVE  TypeOK'
<1> USE CapacityPositive, NullIsNothing DEF TypeOK, poolVars
<1>1. CASE CheckStop(p)
  BY <1>1 DEF CheckStop, GiveUp, Abandon
<1>2. CASE WaitNotFull(p)
  BY <1>2 DEF WaitNotFull, Enqueuing
<1>3. CASE RejectFull(p)
  BY <1>3 DEF RejectFull, Enqueuing, GiveUp, Abandon
<1>4. CASE RejectStopped(p)
  BY <1>4 DEF RejectStopped, Enqueuing, GiveUp, Abandon
<1>5. CASE TryRefuse(p)
  BY <1>5 DEF TryRefuse, GiveUp, Abandon
<1>6. CASE Push(p)
  BY <1>6 DEF Push, Accepting, full
<1>7. CASE NotifyWorker(p)
  BY <1>7, NotifyOneWorker DEF NotifyWorker, NotifyCv
<1>8. CASE Leave(p)
  BY <1>8 DEF Leave, EndSubmit
<1>9. CASE SpuriousProducer(p)
  BY <1>9 DEF SpuriousProducer
<1>10. QED
  BY <1>1, <1>2, <1>3, <1>4, <1>5, <1>6, <1>7, <1>8, <1>9 DEF ProducerStep

LEMMA EnterTypeOK ==
  ASSUME TypeOK, NEW p \in Producers, NEW kind \in Kinds, NEW t \in Tasks, Enter(p, kind, t)
  PROVE  TypeOK'
<1> DEFINE r == [kind |-> kind, task |-> t]
<1>1. r \in [kind : Kinds, task : Tasks] /\ (r # NULL => call'[p] # NULL)
  BY DEF TypeOK, Enter
<1>2. r # NULL
  BY NullIsNothing
<1>3. QED
  BY <1>1, <1>2 DEF TypeOK, Enter

(* A worker's step keeps the types; it holds a task exactly from pop to    *)
(* the end of the loop body.                                               *)
LEMMA WorkerTypeOK ==
  ASSUME TypeOK, NEW w \in Workers, WorkerStep(w) \/ SpuriousWorker(w)
  PROVE  TypeOK'
<1> USE CapacityPositive, NullIsNothing DEF TypeOK, poolVars
<1>1. CASE WorkerWait(w)
  BY <1>1 DEF WorkerWait
<1>2. CASE WorkerExit(w)
  BY <1>2 DEF WorkerExit, MayExit
<1>3. CASE WorkerTake(w)
  <2>1. Head(tasks) \in Tasks /\ Tail(tasks) \in Seq(Tasks) /\ Len(Tail(tasks)) <= Capacity
    BY <1>3 DEF WorkerTake, PopFront, NotifyNotFull, empty
  <2>2. QED
    BY <1>3, <2>1, NotifyOneProducer DEF WorkerTake, PopFront, NotifyNotFull
<1>4. CASE WorkerBusy(w)
  BY <1>4 DEF WorkerBusy
<1>5. CASE \E throws \in BOOLEAN : WorkerExecute(w, throws)
  BY <1>5 DEF WorkerExecute, Outcome
<1>6. CASE WorkerUnbusy(w)
  BY <1>6 DEF WorkerUnbusy
<1>7. CASE WorkerComplete(w)
  BY <1>7 DEF WorkerComplete
<1>8. CASE SpuriousWorker(w)
  BY <1>8 DEF SpuriousWorker
<1>9. QED
  BY <1>1, <1>2, <1>3, <1>4, <1>5, <1>6, <1>7, <1>8 DEF WorkerStep

LEMMA CloserTypeOK ==
  ASSUME TypeOK, NEW c \in Closers, Shutdown(c) \/ ShutdownStep(c)
  PROVE  TypeOK'
<1> USE DEF TypeOK, poolVars, CloserStep
<1>1. CASE Shutdown(c)
  BY <1>1 DEF Shutdown
<1>2. CASE ShutdownNotifyCv(c)
  BY <1>2 DEF ShutdownNotifyCv, NotifyAllCv, NotifyAll
<1>3. CASE ShutdownNotifyNotFull(c)
  BY <1>3 DEF ShutdownNotifyNotFull, NotifyAllNotFull, NotifyAll
<1>4. CASE ShutdownAwaitSubmits(c)
  BY <1>4 DEF ShutdownAwaitSubmits, SubmitsDone
<1>5. CASE ShutdownJoin(c)
  BY <1>5 DEF ShutdownJoin
<1>6. QED
  BY <1>1, <1>2, <1>3, <1>4, <1>5 DEF ShutdownStep

LEMMA NextTypeOK == TypeOK /\ [Next]_vars => TypeOK'
<1> SUFFICES ASSUME TypeOK, [Next]_vars PROVE TypeOK'
  OBVIOUS
<1>1. CASE \E p \in Producers, kind \in Kinds, t \in Tasks : Enter(p, kind, t)
  BY <1>1, EnterTypeOK
<1>2. CASE \E p \in Producers : ProducerStep(p) \/ SpuriousProducer(p)
  BY <1>2, ProducerTypeOK
<1>3. CASE \E w \in Workers : WorkerStep(w) \/ SpuriousWorker(w)
  BY <1>3, WorkerTypeOK
<1>4. CASE \E c \in Closers : Shutdown(c) \/ ShutdownStep(c)
  BY <1>4, CloserTypeOK
<1>5. CASE Destroy
  BY <1>5, DestroyerCloses DEF Destroy, TypeOK, poolVars, Abandon
<1>6. CASE UNCHANGED vars
  BY <1>6 DEF vars, poolVars, TypeOK
<1>7. QED
  BY <1>1, <1>2, <1>3, <1>4, <1>5, <1>6 DEF Next, Terminated

(* The types hold in every reachable state.                                *)
THEOREM PoolTypeOK == Spec => []TypeOK
  BY InitTypeOK, NextTypeOK, PTL DEF Spec

-----------------------------------------------------------------------------
(* Ownership of tasks.  OneOwner is not inductive: that a task is queued   *)
(* once follows from its caller being the only one to hold it, and that it *)
(* is taken once from a worker being the only one to hold it until done.   *)

(* A task is in one place at a time, so it runs at most once, and one that *)
(* submit or trySubmit did not accept is nowhere in the pool.              *)
OneOwner ==
  /\ \A i, j \in DOMAIN tasks : tasks[i] = tasks[j] => i = j
  /\ \A i \in DOMAIN tasks : fate[tasks[i]] = "queued"
  /\ \A w \in InHand : fate[held[w]] \in {"taken", "done"}
  /\ \A v, w \in InHand : held[v] = held[w] => v = w
  /\ \A p \in InCall : pc[p] \in {"checkStop", "enqueue", "blocked"} =>
                         fate[call[p].task] = "calling"

Offering(p) == pc[p] \in {"checkStop", "enqueue", "blocked"}

Placed ==
  /\ \A p, q \in Producers : Offering(p) /\ Offering(q) /\ p # q =>
                               call[p].task # call[q].task
  /\ \A t \in Tasks : fate[t] = "queued" => \E i \in DOMAIN tasks : tasks[i] = t
  /\ \A t \in Tasks : fate[t] = "taken" =>
       \E w \in Workers : held[w] = t /\ wpc[w] \in {"taken", "executing"}
  /\ \A w \in Workers : wpc[w] \in {"taken", "executing"} => fate[held[w]] = "taken"

OwnerInv == TypeOK /\ OneOwner /\ Placed

LEMMA InitOwner == Init => OwnerInv
<1> SUFFICES ASSUME Init PROVE OwnerInv
  OBVIOUS
<1>1. OneOwner
  BY DEF Init, OneOwner, InHand, InCall
<1>2. Placed
  BY DEF Init, Placed, Offering
<1>3. QED
  BY <1>1, <1>2, InitTypeOK DEF OwnerInv

LEMMA ProducerOwner ==
  ASSUME OwnerInv, NEW p \in Producers, ProducerStep(p) \/ SpuriousProducer(p)
  PROVE  OneOwner' /\ Placed'
<1> USE DEF OwnerInv, TypeOK, OneOwner, Placed, Offering, InHand, InCall, poolVars
<1>1. CASE CheckStop(p)
  <2>1. CASE pc' = [pc EXCEPT ![p] = "enqueue"] /\ UNCHANGED <<fate, tasks, held, wpc, call>>
    BY <1>1, <2>1 DEF CheckStop
  <2>2. CASE GiveUp(p, "refused")
    BY <1>1, <2>2 DEF CheckStop, GiveUp
  <2>3. QED
    BY <1>1, <2>1, <2>2 DEF CheckStop
<1>2. CASE WaitNotFull(p)
  BY <1>2 DEF WaitNotFull, Enqueuing
<1>3. CASE RejectFull(p)
  BY <1>3 DEF RejectFull, Enqueuing, GiveUp
<1>4. CASE RejectStopped(p)
  BY <1>4 DEF RejectStopped, Enqueuing, GiveUp
<1>5. CASE TryRefuse(p)
  BY <1>5 DEF TryRefuse, GiveUp
<1>6. CASE Push(p)
  <2> DEFINE t == call[p].task
  <2>1. /\ t \in Tasks /\ fate[t] = "calling"
        /\ tasks' = Append(tasks, t) /\ fate' = [fate EXCEPT ![t] = "queued"]
        /\ pc' = [pc EXCEPT ![p] = "notify"] /\ UNCHANGED <<call, held, wpc>>
    BY <1>6 DEF Push, Accepting
  <2>2. /\ DOMAIN tasks' = 1..(Len(tasks) + 1) /\ DOMAIN tasks = 1..Len(tasks)
        /\ \A i \in 1..Len(tasks) : tasks'[i] = tasks[i] /\ tasks[i] # t
        /\ tasks'[Len(tasks) + 1] = t
    BY <2>1
  <2>3. \A i, j \in DOMAIN tasks' : tasks'[i] = tasks'[j] => i = j
    BY <2>2
  <2>4. \A i \in DOMAIN tasks' : fate'[tasks'[i]] = "queued"
    BY <2>1, <2>2
  <2>5. \A u \in Tasks : fate'[u] = "queued" => \E i \in DOMAIN tasks' : tasks'[i] = u
    <3> SUFFICES ASSUME NEW u \in Tasks, fate'[u] = "queued"
                 PROVE  \E i \in DOMAIN tasks' : tasks'[i] = u
      OBVIOUS
    <3>1. CASE u = t
      BY <2>2, <3>1
    <3>2. CASE u # t
      BY <2>1, <2>2, <3>2
    <3>3. QED
      BY <3>1, <3>2
  <2>6. /\ \A v \in InHand' : fate'[held'[v]] \in {"taken", "done"}
        /\ \A u, v \in InHand' : held'[u] = held'[v] => u = v
        /\ \A u \in Tasks : fate'[u] = "taken" =>
             \E v \in Workers : held'[v] = u /\ wpc'[v] \in {"taken", "executing"}
        /\ \A v \in Workers : wpc'[v] \in {"taken", "executing"} => fate'[held'[v]] = "taken"
    BY <2>1
  <2>7. /\ \A q \in InCall' : Offering(q)' => fate'[call'[q].task] = "calling"
        /\ \A q, r \in Producers : Offering(q)' /\ Offering(r)' /\ q # r =>
                                    call'[q].task # call'[r].task
    BY <1>6, <2>1 DEF Push, Accepting
  <2>8. QED
    BY <2>3, <2>4, <2>5, <2>6, <2>7
<1>7. CASE NotifyWorker(p)
  BY <1>7, NotifyOneWorker, SMTT(30) DEF NotifyWorker, NotifyCv
<1>8. CASE Leave(p)
  BY <1>8 DEF Leave, EndSubmit
<1>9. CASE SpuriousProducer(p)
  BY <1>9 DEF SpuriousProducer
<1>10. QED
  BY <1>1, <1>2, <1>3, <1>4, <1>5, <1>6, <1>7, <1>8, <1>9 DEF ProducerStep

LEMMA EnterOwner ==
  ASSUME OwnerInv, NEW p \in Producers, NEW kind \in Kinds, NEW t \in Tasks, Enter(p, kind, t)
  PROVE  OneOwner' /\ Placed'
  BY DEF Enter, OwnerInv, TypeOK, OneOwner, Placed, Offering, InHand, InCall

LEMMA WorkerOwner ==
  ASSUME OwnerInv, NEW w \in Workers, WorkerStep(w) \/ SpuriousWorker(w)
  PROVE  OneOwner' /\ Placed'
<1> USE NullIsNothing DEF OwnerInv, TypeOK, OneOwner, Placed, Offering, InHand, InCall,
                          poolVars
<1>1. CASE WorkerWait(w)
  BY <1>1 DEF WorkerWait
<1>2. CASE WorkerExit(w)
  BY <1>2 DEF WorkerExit, MayExit
<1>3. CASE WorkerTake(w)
  <2> DEFINE t == Head(tasks)
  <2>1. /\ tasks # <<>> /\ wpc[w] = "check" /\ held[w] = NULL
        /\ tasks' = Tail(tasks) /\ fate' = [fate EXCEPT ![t] = "taken"]
        /\ held' = [held EXCEPT ![w] = t] /\ wpc' = [wpc EXCEPT ![w] = "taken"]
        /\ call' = call
    BY <1>3 DEF WorkerTake, PopFront, NotifyNotFull, empty
  <2>2. /\ t = tasks[1] /\ t \in Tasks /\ fate[t] = "queued"
        /\ DOMAIN tasks' = 1..(Len(tasks) - 1) /\ DOMAIN tasks = 1..Len(tasks)
        /\ \A i \in 1..(Len(tasks) - 1) : tasks'[i] = tasks[i + 1] /\ tasks'[i] # t
    BY <2>1
  <2>3. /\ \A i, j \in DOMAIN tasks' : tasks'[i] = tasks'[j] => i = j
        /\ \A i \in DOMAIN tasks' : fate'[tasks'[i]] = "queued"
    <3>1. Len(tasks) \in Nat /\ \A i \in DOMAIN tasks' : i + 1 \in DOMAIN tasks
      BY <2>2
    <3>2. ASSUME NEW i \in DOMAIN tasks', NEW j \in DOMAIN tasks', tasks'[i] = tasks'[j]
          PROVE  i = j
      <4>1. i + 1 = j + 1
        BY <2>2, <3>1, <3>2
      <4>2. QED
        BY <2>2, <3>1, <4>1
    <3>3. ASSUME NEW i \in DOMAIN tasks'
          PROVE  fate'[tasks'[i]] = "queued"
      BY <2>1, <2>2, <3>1
    <3>4. QED
      BY <3>2, <3>3
  <2>4. \A u \in Tasks : fate'[u] = "queued" => \E i \in DOMAIN tasks' : tasks'[i] = u
    <3> SUFFICES ASSUME NEW u \in Tasks, fate'[u] = "queued"
                 PROVE  \E i \in DOMAIN tasks' : tasks'[i] = u
      OBVIOUS
    <3>1. PICK i \in 1..Len(tasks) : tasks[i] = u
      BY <2>1, <2>2
    <3>2. i # 1 /\ i - 1 \in DOMAIN tasks' /\ tasks'[i - 1] = u
      BY <2>1, <2>2, <3>1
    <3>3. QED
      BY <3>2
  <2>5. \A v \in InHand' : fate'[held'[v]] \in {"taken", "done"}
    BY <2>1, <2>2
  <2>6. \A u, v \in InHand' : held'[u] = held'[v] => u = v
    BY <2>1, <2>2
  <2>7. \A v \in Workers : wpc'[v] \in {"taken", "executing"} => fate'[held'[v]] = "taken"
    BY <2>1, <2>2
  <2>8. \A u \in Tasks : fate'[u] = "taken" =>
          \E v \in Workers : held'[v] = u /\ wpc'[v] \in {"taken", "executing"}
    <3> SUFFICES ASSUME NEW u \in Tasks, fate'[u] = "taken"
                 PROVE  \E v \in Workers : held'[v] = u /\ wpc'[v] \in {"taken", "executing"}
      OBVIOUS
    <3>1. CASE u = t
      BY <2>1, <3>1
    <3>2. CASE u # t
      <4>1. PICK v \in Workers : held[v] = u /\ wpc[v] \in {"taken", "executing"}
        BY <2>1, <2>2, <3>2
      <4>2. QED
        BY <2>1, <4>1
    <3>3. QED
      BY <3>1, <3>2
  <2>9. \A q \in Producers : pc'[q] = pc[q] \/ (pc[q] = "blocked" /\ pc'[q] = "enqueue")
    BY <1>3, NotifyOneProducer DEF WorkerTake, PopFront, NotifyNotFull
  <2>10. /\ \A q \in InCall' : Offering(q)' => fate'[call'[q].task] = "calling"
         /\ \A q, r \in Producers : Offering(q)' /\ Offering(r)' /\ q # r =>
                                     call'[q].task # call'[r].task
    BY <2>1, <2>2, <2>9
  <2>11. QED
    BY <2>3, <2>4, <2>5, <2>6, <2>7, <2>8, <2>10
<1>4. CASE WorkerBusy(w)
  BY <1>4 DEF WorkerBusy
<1>5. CASE \E throws \in BOOLEAN : WorkerExecute(w, throws)
  BY <1>5 DEF WorkerExecute, Outcome
<1>6. CASE WorkerUnbusy(w)
  BY <1>6 DEF WorkerUnbusy
<1>7. CASE WorkerComplete(w)
  BY <1>7, SMTT(30) DEF WorkerComplete
<1>8. CASE SpuriousWorker(w)
  BY <1>8 DEF SpuriousWorker
<1>9. QED
  BY <1>1, <1>2, <1>3, <1>4, <1>5, <1>6, <1>7, <1>8 DEF WorkerStep

LEMMA CloserOwner ==
  ASSUME OwnerInv, NEW c \in Closers, Shutdown(c) \/ ShutdownStep(c)
  PROVE  OneOwner' /\ Placed'
<1> USE DEF OwnerInv, TypeOK, OneOwner, Placed, Offering, InHand, InCall, poolVars
<1>1. CASE Shutdown(c)
  BY <1>1 DEF Shutdown
<1>2. CASE ShutdownNotifyCv(c)
  <2>1. \A w \in Workers : wpc'[w] = wpc[w] \/ (wpc[w] = "waiting" /\ wpc'[w] = "check")
    BY <1>2 DEF ShutdownNotifyCv, NotifyAllCv, NotifyAll
  <2>2. UNCHANGED <<tasks, pc, call, held, fate>>
    BY <1>2 DEF ShutdownNotifyCv, NotifyAllCv
  <2>3. OneOwner'
    BY <2>2
  <2>4. Placed'
    BY <2>1, <2>2
  <2>5. QED
    BY <2>3, <2>4
<1>3. CASE ShutdownNotifyNotFull(c)
  BY <1>3 DEF ShutdownNotifyNotFull, NotifyAllNotFull, NotifyAll
<1>4. CASE ShutdownAwaitSubmits(c)
  BY <1>4 DEF ShutdownAwaitSubmits, SubmitsDone
<1>5. CASE ShutdownJoin(c)
  BY <1>5 DEF ShutdownJoin
<1>6. QED
  BY <1>1, <1>2, <1>3, <1>4, <1>5 DEF ShutdownStep

LEMMA NextOwner == OwnerInv /\ [Next]_vars => OwnerInv'
<1> SUFFICES ASSUME OwnerInv, [Next]_vars PROVE OwnerInv'
  OBVIOUS
<1>0. TypeOK'
  BY NextTypeOK DEF OwnerInv
<1>1. CASE \E p \in Producers, kind \in Kinds, t \in Tasks : Enter(p, kind, t)
  BY <1>0, <1>1, EnterOwner DEF OwnerInv
<1>2. CASE \E p \in Producers : ProducerStep(p) \/ SpuriousProducer(p)
  BY <1>0, <1>2, ProducerOwner DEF OwnerInv
<1>3. CASE \E w \in Workers : WorkerStep(w) \/ SpuriousWorker(w)
  BY <1>0, <1>3, WorkerOwner DEF OwnerInv
<1>4. CASE \E c \in Closers : Shutdown(c) \/ ShutdownStep(c)
  BY <1>0, <1>4, CloserOwner DEF OwnerInv
<1>5. CASE Destroy
  BY <1>0, <1>5 DEF Destroy, OwnerInv, OneOwner, Placed, Offering, InHand, InCall, poolVars
<1>6. CASE UNCHANGED vars
  BY <1>0, <1>6 DEF vars, OwnerInv, OneOwner, Placed, Offering, InHand, InCall, poolVars
<1>7. QED
  BY <1>1, <1>2, <1>3, <1>4, <1>5, <1>6 DEF Next, Terminated

(* No task is ever in two places, so none runs twice, and none that was    *)
(* refused runs at all.                                                    *)
THEOREM PoolOneOwner == Spec => []OneOwner
<1>1. OwnerInv => OneOwner
  BY DEF OwnerInv
<1>2. QED
  BY <1>1, InitOwner, NextOwner, PTL DEF Spec

-----------------------------------------------------------------------------
(* The counters.                                                           *)

LEMMA SetsFinite == IsFiniteSet(InCall) /\ IsFiniteSet(Busy) /\ IsFiniteSet(InHand)
<1>1. InCall \subseteq Producers /\ Busy \subseteq Workers /\ InHand \subseteq Workers
  BY DEF InCall, Busy, InHand
<1>2. QED
  BY <1>1, ThreadsFinite, FS_Subset

LEMMA CardinalityPlusOne ==
  ASSUME NEW S, IsFiniteSet(S), NEW x, x \notin S
  PROVE  Cardinality(S \cup {x}) = Cardinality(S) + 1
  BY FS_AddElement

LEMMA CardinalityMinusOne ==
  ASSUME NEW S, IsFiniteSet(S), NEW x \in S
  PROVE  Cardinality(S \ {x}) = Cardinality(S) - 1
  BY FS_RemoveElement

LEMMA CardinalitiesNatural ==
  Cardinality(InCall) \in Nat /\ Cardinality(Busy) \in Nat /\ Cardinality(InHand) \in Nat
  BY SetsFinite, FS_CardinalityType

LEMMA InitAccounting == Init => Accounting
<1> SUFFICES ASSUME Init PROVE Accounting
  OBVIOUS
<1>1. InCall = {} /\ Busy = {} /\ InHand = {}
  BY DEF Init, InCall, Busy, InHand
<1>2. Len(tasks) = 0
  BY DEF Init
<1>3. Cardinality({}) = 0
  BY FS_EmptySet
<1>4. QED
  BY <1>1, <1>2, <1>3 DEF Init, Accounting

(* Every step that moves a thread into or out of one of the three sets     *)
(* moves the counter of that set by one in the same direction.             *)
LEMMA NextAccounting == TypeOK /\ Accounting /\ [Next]_vars => Accounting'
<1> SUFFICES ASSUME TypeOK, Accounting, [Next]_vars PROVE Accounting'
  OBVIOUS
<1> DEFINE Same == /\ InCall' = InCall /\ Busy' = Busy /\ InHand' = InHand
                   /\ Len(tasks') = Len(tasks)
                   /\ UNCHANGED <<active_submits, busy_workers, submitted_tasks,
                                  completed_tasks>>
<1> USE SetsFinite, CardinalitiesNatural
<1>0. ASSUME Same PROVE Accounting'
  BY <1>0 DEF Accounting
<1>1. CASE \E p \in Producers, kind \in Kinds, t \in Tasks : Enter(p, kind, t)
  <2>1. PICK p \in Producers, kind \in Kinds, t \in Tasks : Enter(p, kind, t)
    BY <1>1
  <2>2. /\ p \notin InCall /\ InCall' = InCall \cup {p}
        /\ Busy' = Busy /\ InHand' = InHand
    BY <2>1 DEF Enter, TypeOK, InCall, Busy, InHand
  <2>3. Cardinality(InCall') = Cardinality(InCall) + 1
    BY <2>2, CardinalityPlusOne
  <2>4. QED
    BY <2>1, <2>2, <2>3 DEF Enter, Accounting
<1>2. ASSUME NEW p \in Producers, ProducerStep(p) \/ SpuriousProducer(p)
      PROVE  Accounting'
  <2> USE DEF poolVars, TypeOK
  <2>1. CASE CheckStop(p)
    BY <1>0, <2>1 DEF CheckStop, GiveUp, InCall, Busy, InHand
  <2>2. CASE WaitNotFull(p)
    BY <1>0, <2>2 DEF WaitNotFull, Enqueuing, InCall, Busy, InHand
  <2>3. CASE RejectFull(p)
    BY <1>0, <2>3 DEF RejectFull, Enqueuing, GiveUp, InCall, Busy, InHand
  <2>4. CASE RejectStopped(p)
    BY <1>0, <2>4 DEF RejectStopped, Enqueuing, GiveUp, InCall, Busy, InHand
  <2>5. CASE TryRefuse(p)
    BY <1>0, <2>5 DEF TryRefuse, GiveUp, InCall, Busy, InHand
  <2>6. CASE Push(p)
    <3>1. InCall' = InCall /\ Busy' = Busy /\ InHand' = InHand
      BY <2>6 DEF Push, Accepting, InCall, Busy, InHand
    <3>2. Len(tasks') = Len(tasks) + 1
      BY <2>6 DEF Push, Accepting, InCall, Busy, InHand
    <3>3. QED
      BY <2>6, <3>1, <3>2 DEF Push, Accepting, Accounting
  <2>7. CASE NotifyWorker(p)
    <3>1. InCall' = InCall /\ Busy' = Busy /\ InHand' = InHand
      BY <2>7, NotifyOneWorker DEF NotifyWorker, NotifyCv, InCall, Busy, InHand
    <3>2. QED
      BY <1>0, <2>7, <3>1 DEF NotifyWorker, NotifyCv, InCall, Busy, InHand
  <2>8. CASE Leave(p)
    <3>1. /\ p \in InCall /\ InCall' = InCall \ {p}
          /\ Busy' = Busy /\ InHand' = InHand
      BY <2>8 DEF Leave, EndSubmit, InCall, Busy, InHand
    <3>2. Cardinality(InCall') = Cardinality(InCall) - 1
      BY <3>1, CardinalityMinusOne
    <3>3. QED
      BY <2>8, <3>1, <3>2 DEF Leave, EndSubmit, Accounting
  <2>9. CASE SpuriousProducer(p)
    BY <1>0, <2>9 DEF SpuriousProducer, InCall, Busy, InHand
  <2>10. QED
    BY <1>2, <2>1, <2>2, <2>3, <2>4, <2>5, <2>6, <2>7, <2>8, <2>9 DEF ProducerStep
<1>3. ASSUME NEW w \in Workers, WorkerStep(w) \/ SpuriousWorker(w)
      PROVE  Accounting'
  <2> USE NullIsNothing DEF poolVars, TypeOK
  <2>1. CASE WorkerWait(w)
    BY <1>0, <2>1 DEF WorkerWait, InCall, Busy, InHand
  <2>2. CASE WorkerExit(w)
    BY <1>0, <2>2 DEF WorkerExit, MayExit, InCall, Busy, InHand
  <2>3. CASE WorkerTake(w)
    <3>1. /\ InCall' = InCall /\ Busy' = Busy
      BY <2>3, NotifyOneProducer DEF WorkerTake, PopFront, NotifyNotFull, InCall, Busy, InHand
    <3>2. Head(tasks) \in Tasks /\ Len(tasks') = Len(tasks) - 1
      BY <2>3 DEF WorkerTake, PopFront, NotifyNotFull, empty, InCall, Busy, InHand
    <3>3. w \notin InHand /\ InHand' = InHand \cup {w}
      BY <2>3, <3>2 DEF WorkerTake, PopFront, NotifyNotFull, InCall, Busy, InHand
    <3>4. Cardinality(InHand') = Cardinality(InHand) + 1
      BY <3>3, CardinalityPlusOne
    <3>5. UNCHANGED <<active_submits, busy_workers, submitted_tasks, completed_tasks>>
      BY <2>3 DEF WorkerTake, PopFront, NotifyNotFull
    <3>6. Len(tasks) \in Nat
      OBVIOUS
    <3> HIDE DEF TypeOK
    <3>7. QED
      BY <3>1, <3>2, <3>4, <3>5, <3>6 DEF Accounting, TypeOK
  <2>4. CASE WorkerBusy(w)
    <3>1. /\ w \notin Busy /\ Busy' = Busy \cup {w}
          /\ InCall' = InCall /\ InHand' = InHand
      BY <2>4 DEF WorkerBusy, InCall, Busy, InHand
    <3>2. Cardinality(Busy') = Cardinality(Busy) + 1
      BY <3>1, CardinalityPlusOne
    <3>3. QED
      BY <2>4, <3>1, <3>2 DEF WorkerBusy, Accounting
  <2>5. CASE \E throws \in BOOLEAN : WorkerExecute(w, throws)
    BY <1>0, <2>5 DEF WorkerExecute, Outcome, InCall, Busy, InHand
  <2>6. CASE WorkerUnbusy(w)
    <3>1. /\ w \in Busy /\ Busy' = Busy \ {w}
          /\ InCall' = InCall /\ InHand' = InHand
      BY <2>6 DEF WorkerUnbusy, InCall, Busy, InHand
    <3>2. Cardinality(Busy') = Cardinality(Busy) - 1
      BY <3>1, CardinalityMinusOne
    <3>3. QED
      BY <2>6, <3>1, <3>2 DEF WorkerUnbusy, Accounting
  <2>7. CASE WorkerComplete(w)
    <3>1. /\ w \in InHand /\ InHand' = InHand \ {w}
          /\ InCall' = InCall /\ Busy' = Busy
      BY <2>7 DEF WorkerComplete, InCall, Busy, InHand
    <3>2. Cardinality(InHand') = Cardinality(InHand) - 1
      BY <3>1, CardinalityMinusOne
    <3>3. QED
      BY <2>7, <3>1, <3>2 DEF WorkerComplete, Accounting
  <2>8. CASE SpuriousWorker(w)
    BY <1>0, <2>8 DEF SpuriousWorker, InCall, Busy, InHand
  <2>9. QED
    BY <1>3, <2>1, <2>2, <2>3, <2>4, <2>5, <2>6, <2>7, <2>8 DEF WorkerStep
<1>4. ASSUME NEW c \in Closers, Shutdown(c) \/ ShutdownStep(c)
      PROVE  Accounting'
  <2> USE DEF poolVars, TypeOK
  <2>1. CASE Shutdown(c)
    BY <1>0, <2>1 DEF Shutdown, InCall, Busy, InHand
  <2>2. CASE ShutdownNotifyCv(c)
    <3>1. Busy' = Busy
      BY <2>2 DEF ShutdownNotifyCv, NotifyAllCv, NotifyAll, InCall, Busy, InHand
    <3>2. QED
      BY <1>0, <2>2, <3>1 DEF ShutdownNotifyCv, NotifyAllCv, InCall, Busy, InHand
  <2>3. CASE ShutdownNotifyNotFull(c)
    <3>1. InCall' = InCall
      BY <2>3 DEF ShutdownNotifyNotFull, NotifyAllNotFull, NotifyAll, InCall, Busy, InHand
    <3>2. QED
      BY <1>0, <2>3, <3>1 DEF ShutdownNotifyNotFull, NotifyAllNotFull, InCall, Busy, InHand
  <2>4. CASE ShutdownAwaitSubmits(c)
    BY <1>0, <2>4 DEF ShutdownAwaitSubmits, SubmitsDone, InCall, Busy, InHand
  <2>5. CASE ShutdownJoin(c)
    BY <1>0, <2>5 DEF ShutdownJoin, InCall, Busy, InHand
  <2>6. QED
    BY <1>4, <2>1, <2>2, <2>3, <2>4, <2>5 DEF ShutdownStep
<1>5. CASE Destroy
  BY <1>0, <1>5 DEF Destroy, poolVars, InCall, Busy, InHand
<1>6. CASE UNCHANGED vars
  BY <1>0, <1>6 DEF vars, poolVars, InCall, Busy, InHand
<1>7. QED
  BY <1>1, <1>2, <1>3, <1>4, <1>5, <1>6 DEF Next, Terminated

(* active_submits counts the calls in flight, busy_workers the workers     *)
(* between fetch_add and fetch_sub, and every submitted task is completed, *)
(* queued or in a worker's hands.                                          *)
THEOREM PoolAccounting == Spec => []Accounting
  BY InitAccounting, NextAccounting, PoolTypeOK, PTL DEF Spec

-----------------------------------------------------------------------------
(* Shutdown.  A worker leaves only a stopped, empty pool, and a stopped    *)
(* pool accepts nothing, so the pool stays empty from then on.             *)

ExitedMeansDrained ==
  /\ \A w \in Workers : wpc[w] = "exited" => stop /\ tasks = <<>>
  /\ \A c \in Closers : cpc[c] = "joined" => Exited = Workers

LEMMA InitDrained == Init => ExitedMeansDrained
  BY DEF Init, ExitedMeansDrained

LEMMA NextDrained ==
  TypeOK /\ ExitedMeansDrained /\ [Next]_vars => ExitedMeansDrained'
<1> SUFFICES ASSUME TypeOK, ExitedMeansDrained, [Next]_vars PROVE ExitedMeansDrained'
  OBVIOUS
<1> DEFINE Harmless == /\ \A w \in Workers : wpc'[w] = "exited" <=> wpc[w] = "exited"
                       /\ stop => stop' /\ tasks' = tasks
                       /\ \A c \in Closers : cpc'[c] = "joined" => cpc[c] = "joined"
<1>0. ASSUME Harmless, tasks' = tasks PROVE ExitedMeansDrained'
  BY <1>0 DEF ExitedMeansDrained, Exited
<1>1. CASE \E p \in Producers, kind \in Kinds, t \in Tasks : Enter(p, kind, t)
  BY <1>0, <1>1 DEF Enter
<1>2. ASSUME NEW p \in Producers, ProducerStep(p) \/ SpuriousProducer(p)
      PROVE  ExitedMeansDrained'
  <2>1. CASE Push(p)
    BY <2>1 DEF Push, Accepting, ExitedMeansDrained, Exited
  <2>2. CASE NotifyWorker(p)
    BY <1>0, <2>2, NotifyOneWorker DEF NotifyWorker, NotifyCv, poolVars
  <2>3. CASE ~Push(p) /\ ~NotifyWorker(p)
    BY <1>0, <1>2, <2>3
       DEF ProducerStep, SpuriousProducer, CheckStop, WaitNotFull, RejectFull, RejectStopped,
           TryRefuse, Leave, EndSubmit, GiveUp, poolVars
  <2>4. QED
    BY <2>1, <2>2, <2>3
<1>3. ASSUME NEW w \in Workers, WorkerStep(w) \/ SpuriousWorker(w)
      PROVE  ExitedMeansDrained'
  <2>1. CASE WorkerExit(w)
    BY <2>1 DEF WorkerExit, MayExit, empty, poolVars, TypeOK, ExitedMeansDrained, Exited
  <2>2. CASE WorkerTake(w)
    BY <2>2 DEF WorkerTake, PopFront, NotifyNotFull, empty, TypeOK, ExitedMeansDrained, Exited
  <2>3. CASE ~WorkerExit(w) /\ ~WorkerTake(w)
    BY <1>0, <1>3, <2>3
       DEF WorkerStep, SpuriousWorker, WorkerWait, WorkerBusy, WorkerExecute, Outcome,
           WorkerUnbusy, WorkerComplete, poolVars, TypeOK
  <2>4. QED
    BY <2>1, <2>2, <2>3
<1>4. ASSUME NEW c \in Closers, Shutdown(c) \/ ShutdownStep(c)
      PROVE  ExitedMeansDrained'
  <2>1. CASE ShutdownJoin(c)
    BY <2>1 DEF ShutdownJoin, CloserStep, poolVars, ExitedMeansDrained, Exited
  <2>2. CASE ShutdownNotifyCv(c)
    BY <1>0, <2>2 DEF ShutdownNotifyCv, NotifyAllCv, NotifyAll, CloserStep, poolVars, TypeOK
  <2>3. CASE Shutdown(c)
    BY <1>0, <2>3 DEF Shutdown, CloserStep, TypeOK
  <2>4. CASE ShutdownNotifyNotFull(c) \/ ShutdownAwaitSubmits(c)
    BY <1>0, <2>4 DEF ShutdownNotifyNotFull, NotifyAllNotFull, ShutdownAwaitSubmits,
                      SubmitsDone, CloserStep, poolVars, TypeOK
  <2>5. QED
    BY <1>4, <2>1, <2>2, <2>3, <2>4 DEF ShutdownStep
<1>5. CASE Destroy
  BY <1>0, <1>5, DestroyerCloses DEF Destroy, poolVars, TypeOK
<1>6. CASE UNCHANGED vars
  BY <1>0, <1>6 DEF vars, poolVars
<1>7. QED
  BY <1>1, <1>2, <1>3, <1>4, <1>5, <1>6 DEF Next, Terminated

LEMMA DrainedFromInvariant ==
  OwnerInv /\ Accounting /\ ExitedMeansDrained => DrainedOnJoin
<1> SUFFICES ASSUME OwnerInv, Accounting, ExitedMeansDrained, Workers # {},
                    NEW c \in Closers, cpc[c] = "joined"
             PROVE  /\ Exited = Workers
                    /\ tasks = <<>>
                    /\ \A t \in Tasks : fate[t] \notin {"queued", "taken"}
                    /\ completed_tasks = submitted_tasks
  BY DEF DrainedOnJoin
<1>1. Exited = Workers /\ \A w \in Workers : wpc[w] = "exited"
  BY DEF ExitedMeansDrained, Exited
<1>2. tasks = <<>>
  BY <1>1 DEF ExitedMeansDrained
<1>3. \A t \in Tasks : fate[t] \notin {"queued", "taken"}
  BY <1>1, <1>2 DEF OwnerInv, Placed
<1>4. InHand = {}
  BY <1>1 DEF OwnerInv, TypeOK, InHand
<1>5. Cardinality(InHand) = 0 /\ Len(tasks) = 0
  BY <1>2, <1>4, FS_EmptySet
<1>6. completed_tasks = submitted_tasks
  BY <1>5 DEF Accounting, OwnerInv, TypeOK
<1>7. QED
  BY <1>1, <1>2, <1>3, <1>6

(* Graceful shutdown, for every pool with at least one worker: when the    *)
(* shutdown() that stopped the pool returns, every accepted task has run.  *)
THEOREM PoolDrainedOnJoin == Spec => []DrainedOnJoin
<1>1. Init => OwnerInv /\ ExitedMeansDrained
  BY InitOwner, InitDrained
<1>2. OwnerInv /\ ExitedMeansDrained /\ [Next]_vars => (OwnerInv /\ ExitedMeansDrained)'
  BY NextOwner, NextDrained DEF OwnerInv
<1>3. QED
  BY <1>1, <1>2, PoolAccounting, DrainedFromInvariant, PTL DEF Spec

(* submit() after shutdown throws, in every pool with at least one worker. *)
(* The queue is empty by then, so no policy finds it full first.           *)
THEOREM PoolLateSubmitThrows == Workers # {} => (Spec => LateSubmitThrows)
<1> SUFFICES ASSUME Workers # {} PROVE Spec => LateSubmitThrows
  OBVIOUS
<1> DEFINE A == \A p \in Producers :
                  /\ \E c \in Closers : cpc[c] = "joined"
                  /\ Enqueuing(p) /\ pc'[p] # "enqueue"
                  => fate'[call[p].task] = "threw"
<1>1. TypeOK /\ ExitedMeansDrained /\ [Next]_vars => [A]_vars
  <2> SUFFICES ASSUME TypeOK, ExitedMeansDrained, Next,
                      NEW p \in Producers, NEW c \in Closers, cpc[c] = "joined",
                      Enqueuing(p), pc'[p] # "enqueue"
               PROVE  fate'[call[p].task] = "threw"
    OBVIOUS
  <2>1. stop /\ ~full
    <3>1. PICK w \in Workers : wpc[w] = "exited"
      BY DEF ExitedMeansDrained, Exited
    <3>2. stop /\ tasks = <<>> /\ Len(tasks) = 0
      BY <3>1 DEF ExitedMeansDrained
    <3>3. QED
      BY <3>2, CapacityPositive DEF full
  <2>2. RejectStopped(p)
    <3>1. pc[p] = "enqueue" /\ pc'[p] # pc[p] /\ call[p].kind # "trySubmit"
      BY DEF Enqueuing
    <3>2. ASSUME NEW q \in Producers, ProducerStep(q) \/ SpuriousProducer(q)
                                     \/ \E kind \in Kinds, t \in Tasks : Enter(q, kind, t)
          PROVE  q = p /\ ProducerStep(p)
      BY <3>1, <3>2
         DEF TypeOK, ProducerStep, SpuriousProducer, Enter, CheckStop, WaitNotFull, RejectFull,
             RejectStopped, TryRefuse, Push, Accepting, NotifyWorker, NotifyCv, Leave, EndSubmit, GiveUp
    <3>3. ASSUME NEW w \in Workers, WorkerStep(w) \/ SpuriousWorker(w)
          PROVE  FALSE
      <4>1. ~WorkerTake(w)
        BY <2>1 DEF WorkerTake, PopFront, NotifyNotFull, ExitedMeansDrained, Exited, empty
      <4>2. QED
        BY <3>1, <3>3, <4>1
           DEF WorkerStep, SpuriousWorker, WorkerWait, WorkerExit, MayExit, WorkerBusy,
               WorkerExecute, Outcome, WorkerUnbusy, WorkerComplete
    <3>4. ASSUME NEW d \in Closers, Shutdown(d) \/ ShutdownStep(d)
          PROVE  FALSE
      BY <3>1, <3>4
         DEF TypeOK, Shutdown, ShutdownStep, ShutdownNotifyCv, NotifyAllCv,
             ShutdownNotifyNotFull, NotifyAllNotFull,
             ShutdownAwaitSubmits, SubmitsDone, ShutdownJoin, NotifyAll
    <3>5. ~Destroy /\ ~Terminated
      BY <3>1 DEF Destroy, Terminated, vars
    <3>6. ProducerStep(p)
      BY <3>2, <3>3, <3>4, <3>5 DEF Next
    <3>7. QED
      BY <2>1, <3>1, <3>6
         DEF ProducerStep, CheckStop, WaitNotFull, RejectFull, TryRefuse, Push, Accepting, NotifyWorker,
             NotifyCv, Leave, EndSubmit
  <2>3. QED
    BY <2>2 DEF RejectStopped, Enqueuing, GiveUp, TypeOK
<1>2. Init => ExitedMeansDrained
  BY InitDrained
<1>3. TypeOK /\ ExitedMeansDrained /\ [Next]_vars => ExitedMeansDrained'
  BY NextDrained
<1>4. QED
  BY <1>1, <1>2, <1>3, PoolTypeOK, PTL DEF Spec, LateSubmitThrows

-----------------------------------------------------------------------------
(* Wake-ups.  Besides the types the invariant needs that only submit and   *)
(* submitVoid block: a producer woken on not_full_cv comes for the slot,   *)
(* and does not turn out to be a trySubmit.                                *)

Checking  == {w \in Workers : wpc[w] = "check"}
Notifying == {p \in Producers : pc[p] = "notify"}
Coming    == {p \in Producers : Enqueuing(p)}

WorkersWoken   == Waiting # {} /\ ~stop => Len(tasks) <= Cardinality(Checking) + Cardinality(Notifying)
ProducersWoken == Blocked # {} /\ ~stop => Capacity - Len(tasks) <= Cardinality(Coming)
StopTold == /\ Waiting # {} /\ stop => \E c \in Closers : cpc[c] = "notifyCv"
            /\ Blocked # {} /\ stop => \E c \in Closers : cpc[c] \in {"notifyCv", "notifyNotFull"}
OnlySubmitBlocks == \A p \in Blocked : call[p].kind # "trySubmit"

LEMMA WakeupParts == NoLostWakeup <=> WorkersWoken /\ ProducersWoken /\ StopTold
  BY DEF NoLostWakeup, WorkersWoken, ProducersWoken, StopTold, Checking, Notifying, Coming

LEMMA WakersFinite ==
  /\ IsFiniteSet(Checking) /\ Cardinality(Checking) \in Nat
  /\ IsFiniteSet(Notifying) /\ Cardinality(Notifying) \in Nat
  /\ IsFiniteSet(Coming) /\ Cardinality(Coming) \in Nat
<1>1. Checking \subseteq Workers /\ Notifying \subseteq Producers /\ Coming \subseteq Producers
  BY DEF Checking, Notifying, Coming
<1>2. IsFiniteSet(Checking) /\ IsFiniteSet(Notifying) /\ IsFiniteSet(Coming)
  BY <1>1, ThreadsFinite, FS_Subset
<1>3. QED
  BY <1>2, FS_CardinalityType

LEMMA WakersFiniteNext ==
  /\ IsFiniteSet(Checking') /\ Cardinality(Checking') \in Nat
  /\ IsFiniteSet(Notifying') /\ Cardinality(Notifying') \in Nat
  /\ IsFiniteSet(Coming') /\ Cardinality(Coming') \in Nat
<1>1. Checking' \subseteq Workers /\ Notifying' \subseteq Producers /\ Coming' \subseteq Producers
  BY DEF Checking, Notifying, Coming
<1>2. IsFiniteSet(Checking') /\ IsFiniteSet(Notifying') /\ IsFiniteSet(Coming')
  BY <1>1, ThreadsFinite, FS_Subset
<1>3. QED
  BY <1>2, FS_CardinalityType

LEMMA CardinalityGrows ==
  ASSUME NEW S, NEW T, IsFiniteSet(T), S \subseteq T
  PROVE  Cardinality(S) <= Cardinality(T)
  BY FS_Subset

(* Steps that take no waker away and add no task (no free slot).           *)
LEMMA WorkersStayWoken ==
  ASSUME TypeOK, TypeOK', WorkersWoken, Waiting' \subseteq Waiting, stop => stop',
         Len(tasks') <= Len(tasks), Checking \subseteq Checking', Notifying \subseteq Notifying'
  PROVE  WorkersWoken'
<1>1. Cardinality(Checking) <= Cardinality(Checking')
  BY WakersFiniteNext, CardinalityGrows
<1>2. Cardinality(Notifying) <= Cardinality(Notifying')
  BY WakersFiniteNext, CardinalityGrows
<1>3. Len(tasks) \in Nat /\ Len(tasks') \in Nat
  BY DEF TypeOK
<1>4. QED
  BY <1>1, <1>2, <1>3, WakersFinite, WakersFiniteNext DEF WorkersWoken

LEMMA ProducersStayWoken ==
  ASSUME TypeOK, TypeOK', ProducersWoken, Blocked' \subseteq Blocked, stop => stop',
         Len(tasks') >= Len(tasks), Coming \subseteq Coming'
  PROVE  ProducersWoken'
<1>1. Cardinality(Coming) <= Cardinality(Coming')
  BY WakersFiniteNext, CardinalityGrows
<1>2. Len(tasks) \in Nat /\ Len(tasks') \in Nat
  BY DEF TypeOK
<1>3. QED
  BY <1>1, <1>2, CapacityPositive, WakersFinite, WakersFiniteNext DEF ProducersWoken

LEMMA StopStaysTold ==
  ASSUME StopTold, Waiting' \subseteq Waiting, Blocked' \subseteq Blocked, stop' => stop, cpc' = cpc
  PROVE  StopTold'
  BY DEF StopTold

LEMMA NextOnlySubmitBlocks ==
  ASSUME TypeOK, OnlySubmitBlocks, [Next]_vars
  PROVE  OnlySubmitBlocks'
<1> USE DEF OnlySubmitBlocks, Blocked
<1>1. CASE \E p \in Producers, kind \in Kinds, t \in Tasks : Enter(p, kind, t)
  BY <1>1 DEF Enter, TypeOK
<1>2. ASSUME NEW p \in Producers, ProducerStep(p) \/ SpuriousProducer(p)
      PROVE  OnlySubmitBlocks'
  BY <1>2 DEF ProducerStep, SpuriousProducer, CheckStop, WaitNotFull, RejectFull, RejectStopped,
              TryRefuse, Push, Accepting, NotifyWorker, NotifyCv, Leave, EndSubmit, GiveUp, Enqueuing, TypeOK
<1>3. ASSUME NEW w \in Workers, WorkerStep(w) \/ SpuriousWorker(w)
      PROVE  OnlySubmitBlocks'
  <2>1. CASE WorkerTake(w)
    BY <2>1, NotifyOneProducer DEF WorkerTake, PopFront, NotifyNotFull
  <2>2. CASE ~WorkerTake(w)
    BY <1>3, <2>2 DEF WorkerStep, SpuriousWorker, WorkerWait, WorkerExit, MayExit, WorkerBusy,
           WorkerExecute, Outcome, WorkerUnbusy, WorkerComplete
  <2>3. QED
    BY <2>1, <2>2
<1>4. ASSUME NEW c \in Closers, Shutdown(c) \/ ShutdownStep(c)
      PROVE  OnlySubmitBlocks'
  BY <1>4 DEF Shutdown, ShutdownStep, ShutdownNotifyCv, NotifyAllCv, ShutdownNotifyNotFull,
              NotifyAllNotFull, NotifyAll, ShutdownAwaitSubmits, SubmitsDone, ShutdownJoin, TypeOK
<1>5. CASE Destroy \/ UNCHANGED vars
  BY <1>5 DEF Destroy, vars
<1>6. QED
  BY <1>1, <1>2, <1>3, <1>4, <1>5 DEF Next, Terminated

WakeInv == TypeOK /\ OnlySubmitBlocks /\ NoLostWakeup

LEMMA ProducerWakes ==
  ASSUME WakeInv, TypeOK', NEW p \in Producers, ProducerStep(p) \/ SpuriousProducer(p)
  PROVE  WorkersWoken' /\ ProducersWoken' /\ StopTold'
<1>0. TypeOK /\ WorkersWoken /\ ProducersWoken /\ StopTold
  BY WakeupParts DEF WakeInv
<1>1. CASE Push(p)
  <2>1. /\ Len(tasks') = Len(tasks) + 1 /\ Len(tasks) \in Nat
        /\ wpc' = wpc /\ cpc' = cpc /\ stop' = stop /\ ~stop
    BY <1>0, <1>1 DEF Push, Accepting, TypeOK
  <2>2. /\ Checking' = Checking /\ Waiting' = Waiting /\ Blocked' = Blocked
        /\ p \notin Notifying /\ Notifying' = Notifying \cup {p}
        /\ Coming' = Coming \/ (p \in Coming /\ Coming' = Coming \ {p})
    BY <1>0, <1>1 DEF Push, Accepting, TypeOK, Checking, Waiting, Blocked, Notifying, Coming, Enqueuing
  <2>3. Cardinality(Notifying') = Cardinality(Notifying) + 1
    BY <2>2, WakersFinite, CardinalityPlusOne
  <2>4. Cardinality(Coming') >= Cardinality(Coming) - 1
    BY <2>2, WakersFinite, CardinalityMinusOne
  <2>5. WorkersWoken'
    BY <1>0, <2>1, <2>2, <2>3, WakersFinite DEF WorkersWoken
  <2>6. ProducersWoken'
    BY <1>0, <2>1, <2>2, <2>4, WakersFinite, WakersFiniteNext, CapacityPositive DEF ProducersWoken
  <2>7. StopTold'
    BY <2>1, <2>2 DEF StopTold
  <2>8. QED
    BY <2>5, <2>6, <2>7
<1>2. CASE NotifyWorker(p)
  <2>1. /\ Len(tasks') = Len(tasks) /\ Len(tasks) \in Nat /\ cpc' = cpc /\ stop' = stop
    BY <1>0, <1>2 DEF NotifyWorker, NotifyCv, TypeOK, poolVars
  <2>2. /\ Blocked' = Blocked /\ Coming' = Coming
        /\ p \in Notifying /\ Notifying' = Notifying \ {p}
    BY <1>0, <1>2 DEF NotifyWorker, NotifyCv, TypeOK, Blocked, Notifying, Coming, Enqueuing
  <2>3. \/ Waiting = {} /\ Waiting' = {}
        \/ \E w \in Workers : w \notin Checking /\ Checking' = Checking \cup {w}
                             /\ Waiting' \subseteq Waiting
    BY <1>0, <1>2 DEF NotifyWorker, NotifyCv, NotifyOne, TypeOK, Waiting, Checking
  <2>4. Cardinality(Notifying') = Cardinality(Notifying) - 1
    BY <2>2, WakersFinite, CardinalityMinusOne
  <2>5. Waiting' = {} \/ Cardinality(Checking') = Cardinality(Checking) + 1
    BY <2>3, WakersFinite, CardinalityPlusOne
  <2>6. WorkersWoken'
    BY <1>0, <2>1, <2>3, <2>4, <2>5, WakersFinite DEF WorkersWoken
  <2>7. ProducersWoken' /\ StopTold'
    BY <1>0, <2>1, <2>2, <2>3 DEF ProducersWoken, StopTold
  <2>8. QED
    BY <2>6, <2>7
<1>3. CASE WaitNotFull(p)
  <2>1. /\ Len(tasks') = Len(tasks) /\ Len(tasks) = Capacity /\ ~stop /\ ~stop'
        /\ Waiting' = Waiting /\ Checking' = Checking /\ Notifying' = Notifying
    BY <1>0, <1>3 DEF WaitNotFull, Enqueuing, full, poolVars, TypeOK, Waiting, Checking, Notifying
  <2>2. QED
    BY <1>0, <2>1, CapacityPositive, WakersFiniteNext DEF WorkersWoken, ProducersWoken, StopTold
<1>4. CASE RejectFull(p) \/ RejectStopped(p) \/ TryRefuse(p) \/ (CheckStop(p) /\ stop)
  <2>1. /\ pc[p] \in {"enqueue", "checkStop"} /\ pc' = [pc EXCEPT ![p] = "leaving"]
        /\ UNCHANGED <<tasks, stop, call, wpc, cpc>>
        /\ Len(tasks) = Capacity \/ stop \/ ~Enqueuing(p)
    BY <1>4 DEF RejectFull, RejectStopped, TryRefuse, CheckStop, GiveUp, Enqueuing, full, poolVars
  <2>2. /\ Waiting' = Waiting /\ Checking' = Checking /\ Notifying' = Notifying
        /\ Blocked' = Blocked
    BY <1>0, <2>1 DEF TypeOK, Waiting, Checking, Notifying, Blocked
  <2>3. WorkersWoken' /\ StopTold'
    BY <1>0, <2>1, <2>2 DEF WorkersWoken, StopTold
  <2>4. CASE Len(tasks) = Capacity \/ stop
    BY <2>1, <2>3, <2>4, CapacityPositive, WakersFiniteNext DEF ProducersWoken
  <2>5. CASE ~Enqueuing(p)
    <3>1. Coming' = Coming
      BY <1>0, <2>1, <2>5 DEF TypeOK, Coming, Enqueuing
    <3>2. QED
      BY <1>0, <2>1, <2>2, <2>3, <3>1 DEF ProducersWoken
  <2>6. QED
    BY <2>1, <2>4, <2>5
<1>5. CASE Leave(p) \/ SpuriousProducer(p) \/ (CheckStop(p) /\ ~stop)
  <2>1. /\ UNCHANGED <<tasks, stop, wpc, cpc>> /\ Len(tasks) \in Nat
        /\ Waiting' = Waiting /\ Checking' = Checking /\ Notifying' = Notifying
        /\ Blocked' \subseteq Blocked /\ Coming \subseteq Coming'
    BY <1>0, <1>5 DEF Leave, EndSubmit, SpuriousProducer, CheckStop, poolVars, TypeOK,
                      Waiting, Checking, Notifying, Blocked, Coming, Enqueuing
  <2>2. QED
    BY <1>0, <2>1, WorkersStayWoken, ProducersStayWoken, StopStaysTold
<1>6. QED
  BY <1>1, <1>2, <1>3, <1>4, <1>5 DEF ProducerStep

LEMMA WorkerWakes ==
  ASSUME WakeInv, TypeOK', NEW w \in Workers, WorkerStep(w) \/ SpuriousWorker(w)
  PROVE  WorkersWoken' /\ ProducersWoken' /\ StopTold'
<1>0. TypeOK /\ WorkersWoken /\ ProducersWoken /\ StopTold /\ OnlySubmitBlocks
  BY WakeupParts DEF WakeInv
<1>1. CASE WorkerTake(w)
  <2>1. /\ Len(tasks') = Len(tasks) - 1 /\ Len(tasks) \in Nat /\ cpc' = cpc /\ stop' = stop
        /\ wpc[w] = "check" /\ wpc' = [wpc EXCEPT ![w] = "taken"] /\ call' = call
    BY <1>0, <1>1 DEF WorkerTake, PopFront, NotifyNotFull, empty, TypeOK
  <2>2. w \in Checking /\ Checking' = Checking \ {w} /\ Waiting' = Waiting
    BY <1>0, <2>1 DEF TypeOK, Checking, Waiting
  <2>3. \/ Blocked = {} /\ pc' = pc
        \/ \E p \in Blocked : pc' = [pc EXCEPT ![p] = "enqueue"]
    BY <1>0, <1>1 DEF WorkerTake, PopFront, NotifyNotFull, NotifyOne, Blocked, TypeOK
  <2>4. Notifying' = Notifying
    BY <1>0, <2>3 DEF Notifying, Blocked, TypeOK
  <2>5. \/ Blocked = {} /\ Blocked' = {}
        \/ \E p \in Blocked : /\ p \notin Coming /\ Coming' = Coming \cup {p}
                              /\ Blocked' \subseteq Blocked
    <3>1. CASE Blocked = {} /\ pc' = pc
      BY <3>1 DEF Blocked
    <3>2. ASSUME NEW p \in Blocked, pc' = [pc EXCEPT ![p] = "enqueue"]
          PROVE  p \notin Coming /\ Coming' = Coming \cup {p} /\ Blocked' \subseteq Blocked
      <4>1. p \in Producers /\ pc[p] = "blocked" /\ call[p].kind # "trySubmit"
        BY <1>0, <3>2 DEF Blocked, OnlySubmitBlocks
      <4>2. \A q \in Producers : pc'[q] = IF q = p THEN "enqueue" ELSE pc[q]
        BY <1>0, <3>2 DEF TypeOK
      <4>3. QED
        BY <2>1, <4>1, <4>2 DEF Blocked, Coming, Enqueuing
    <3>3. QED
      BY <2>3, <3>1, <3>2
  <2>6. Cardinality(Checking') = Cardinality(Checking) - 1
    BY <2>2, WakersFinite, CardinalityMinusOne
  <2>7. Blocked' = {} \/ Cardinality(Coming') = Cardinality(Coming) + 1
    BY <2>5, WakersFinite, CardinalityPlusOne
  <2>8. WorkersWoken'
    BY <1>0, <2>1, <2>2, <2>4, <2>6, WakersFinite DEF WorkersWoken
  <2>9. ProducersWoken'
    BY <1>0, <2>1, <2>5, <2>7, WakersFinite, CapacityPositive DEF ProducersWoken
  <2>10. StopTold'
    BY <1>0, <2>1, <2>2, <2>5 DEF StopTold
  <2>11. QED
    BY <2>8, <2>9, <2>10
<1>2. CASE WorkerWait(w)
  <2>1. /\ ~stop /\ ~stop' /\ tasks = <<>> /\ tasks' = <<>>
        /\ Blocked' = Blocked /\ Coming' = Coming
    BY <1>2 DEF WorkerWait, empty, poolVars, Blocked, Coming, Enqueuing
  <2>2. Len(tasks) = 0 /\ Len(tasks') = 0
    BY <2>1
  <2>3. QED
    BY <1>0, <2>1, <2>2, WakersFiniteNext DEF WorkersWoken, ProducersWoken, StopTold
<1>3. CASE WorkerExit(w)
  <2>1. /\ stop /\ stop' /\ cpc' = cpc /\ Waiting' = Waiting /\ Blocked' = Blocked
    BY <1>0, <1>3 DEF WorkerExit, MayExit, poolVars, TypeOK, Waiting, Blocked
  <2>2. QED
    BY <1>0, <2>1 DEF WorkersWoken, ProducersWoken, StopTold
<1>4. CASE ~WorkerTake(w) /\ ~WorkerWait(w) /\ ~WorkerExit(w)
  <2>1. /\ UNCHANGED <<tasks, stop, cpc, pc, call>> /\ Len(tasks) \in Nat
        /\ Waiting' \subseteq Waiting /\ Checking \subseteq Checking'
    BY <1>0, <1>4 DEF WorkerStep, SpuriousWorker, WorkerBusy, WorkerExecute, Outcome, WorkerUnbusy,
                      WorkerComplete, poolVars, TypeOK, Waiting, Checking
  <2>2. Notifying' = Notifying /\ Blocked' = Blocked /\ Coming' = Coming
    BY <2>1 DEF Notifying, Blocked, Coming, Enqueuing
  <2>3. QED
    BY <1>0, <2>1, <2>2, WorkersStayWoken, ProducersStayWoken, StopStaysTold
<1>5. QED
  BY <1>1, <1>2, <1>3, <1>4

LEMMA CloserWakes ==
  ASSUME WakeInv, TypeOK', NEW c \in Closers, Shutdown(c) \/ ShutdownStep(c)
  PROVE  WorkersWoken' /\ ProducersWoken' /\ StopTold'
<1>0. TypeOK /\ WorkersWoken /\ ProducersWoken /\ StopTold
  BY WakeupParts DEF WakeInv
<1>1. CASE Shutdown(c)
  <2>1. /\ stop' /\ Waiting' = Waiting /\ Blocked' = Blocked /\ cpc[c] = "out"
        /\ cpc' = [cpc EXCEPT ![c] = IF stop THEN "skipped" ELSE "notifyCv"]
    BY <1>1 DEF Shutdown, CloserStep, Waiting, Blocked
  <2>2. StopTold'
    BY <1>0, <2>1 DEF StopTold, TypeOK
  <2>3. QED
    BY <2>1, <2>2 DEF WorkersWoken, ProducersWoken
<1>2. CASE ShutdownNotifyCv(c)
  <2>1. /\ cpc' = [cpc EXCEPT ![c] = "notifyNotFull"] /\ UNCHANGED <<tasks, stop, pc, call>>
        /\ cpc[c] = "notifyCv" /\ Len(tasks) \in Nat
    BY <1>0, <1>2 DEF ShutdownNotifyCv, NotifyAllCv, CloserStep, poolVars, TypeOK
  <2>2. Waiting' = {} /\ Checking \subseteq Checking'
    BY <1>0, <1>2 DEF ShutdownNotifyCv, NotifyAllCv, NotifyAll, TypeOK, Waiting, Checking
  <2>3. Notifying' = Notifying /\ Blocked' = Blocked /\ Coming' = Coming
    BY <2>1 DEF Notifying, Blocked, Coming, Enqueuing
  <2>4. StopTold'
    BY <1>0, <2>1, <2>2, <2>3 DEF StopTold, TypeOK
  <2>5. QED
    BY <1>0, <2>1, <2>2, <2>3, <2>4 DEF WorkersWoken, ProducersWoken
<1>3. CASE ShutdownNotifyNotFull(c)
  <2>1. /\ cpc' = [cpc EXCEPT ![c] = "awaitSubmits"] /\ UNCHANGED <<tasks, stop, wpc>>
        /\ cpc[c] = "notifyNotFull" /\ Len(tasks) \in Nat
    BY <1>0, <1>3 DEF ShutdownNotifyNotFull, NotifyAllNotFull, CloserStep, poolVars, TypeOK
  <2>2. Blocked' = {} /\ Notifying' = Notifying
    BY <1>0, <1>3 DEF ShutdownNotifyNotFull, NotifyAllNotFull, NotifyAll, TypeOK, Blocked, Notifying
  <2>3. Checking' = Checking /\ Waiting' = Waiting
    BY <2>1 DEF Checking, Waiting
  <2>4. StopTold'
    BY <1>0, <2>1, <2>2, <2>3 DEF StopTold, TypeOK
  <2>5. QED
    BY <1>0, <2>1, <2>2, <2>3, <2>4 DEF WorkersWoken, ProducersWoken
<1>4. CASE ShutdownAwaitSubmits(c) \/ ShutdownJoin(c)
  <2>1. /\ \E l \in {"join", "joined"} : cpc' = [cpc EXCEPT ![c] = l]
        /\ cpc[c] \in {"awaitSubmits", "join"} /\ UNCHANGED <<tasks, stop, wpc, pc, call>>
    BY <1>4 DEF ShutdownAwaitSubmits, SubmitsDone, ShutdownJoin, CloserStep, poolVars
  <2>2. /\ Checking' = Checking /\ Waiting' = Waiting
        /\ Notifying' = Notifying /\ Blocked' = Blocked /\ Coming' = Coming
    BY <2>1 DEF Checking, Waiting, Notifying, Blocked, Coming, Enqueuing
  <2>3. StopTold'
    BY <1>0, <2>1, <2>2 DEF StopTold, TypeOK
  <2>4. QED
    BY <1>0, <2>1, <2>2, <2>3 DEF WorkersWoken, ProducersWoken
<1>5. QED
  BY <1>1, <1>2, <1>3, <1>4 DEF ShutdownStep

LEMMA NextWakes == WakeInv /\ [Next]_vars => WakeInv'
<1> SUFFICES ASSUME WakeInv, [Next]_vars PROVE WakeInv'
  OBVIOUS
<1>0. TypeOK /\ WorkersWoken /\ ProducersWoken /\ StopTold /\ OnlySubmitBlocks
  BY WakeupParts DEF WakeInv
<1>1. TypeOK' /\ OnlySubmitBlocks'
  BY <1>0, NextTypeOK, NextOnlySubmitBlocks
<1>2. CASE \E p \in Producers, kind \in Kinds, t \in Tasks : Enter(p, kind, t)
  <2>1. /\ UNCHANGED <<tasks, stop, wpc, cpc>> /\ Len(tasks) \in Nat
        /\ Waiting' = Waiting /\ Checking' = Checking /\ Notifying' = Notifying
        /\ Blocked' = Blocked /\ Coming \subseteq Coming'
    BY <1>0, <1>2 DEF Enter, TypeOK, Waiting, Checking, Notifying, Blocked, Coming, Enqueuing
  <2>2. WorkersWoken' /\ ProducersWoken' /\ StopTold'
    BY <1>0, <1>1, <2>1, WorkersStayWoken, ProducersStayWoken, StopStaysTold
  <2>3. QED
    BY <1>1, <2>2 DEF WakeInv, NoLostWakeup, WorkersWoken, ProducersWoken, StopTold, Checking,
                      Notifying, Coming
<1>3. CASE Destroy \/ UNCHANGED vars
  <2>1. /\ UNCHANGED <<tasks, stop, wpc, pc, call>>
        /\ \A c \in Closers : cpc[c] \in {"notifyCv", "notifyNotFull"} => cpc'[c] = cpc[c]
    BY <1>0, <1>3 DEF Destroy, Returned, vars, poolVars, TypeOK
  <2>2. WorkersWoken' /\ ProducersWoken' /\ StopTold'
    BY <1>0, <2>1 DEF WorkersWoken, ProducersWoken, StopTold, Waiting, Checking, Notifying,
                      Blocked, Coming, Enqueuing
  <2>3. QED
    BY <1>1, <2>2 DEF WakeInv, NoLostWakeup, WorkersWoken, ProducersWoken, StopTold, Checking,
                      Notifying, Coming
<1>4. CASE \/ \E p \in Producers : ProducerStep(p) \/ SpuriousProducer(p)
           \/ \E w \in Workers : WorkerStep(w) \/ SpuriousWorker(w)
           \/ \E c \in Closers : Shutdown(c) \/ ShutdownStep(c)
  <2>1. WorkersWoken' /\ ProducersWoken' /\ StopTold'
    BY <1>1, <1>4, ProducerWakes, WorkerWakes, CloserWakes
  <2>2. QED
    BY <1>1, <2>1 DEF WakeInv, NoLostWakeup, WorkersWoken, ProducersWoken, StopTold, Checking,
                      Notifying, Coming
<1>5. QED
  BY <1>2, <1>3, <1>4 DEF Next, Terminated

(* No wake-up is lost on cv or not_full_cv, whatever the number of threads *)
(* and slots: neither the notifications sent after mtx is released nor the *)
(* trySubmit calls that take slots without ever waiting leave a sleeper    *)
(* with work (or a slot) that nobody is coming for.                        *)
THEOREM PoolNoLostWakeup == Spec => []NoLostWakeup
<1>1. Init => WakeInv
  <2> SUFFICES ASSUME Init PROVE WakeInv
    OBVIOUS
  <2>1. Waiting = {} /\ Blocked = {}
    BY DEF Init, Waiting, Blocked
  <2>2. QED
    BY <2>1, InitTypeOK DEF WakeInv, NoLostWakeup, OnlySubmitBlocks
<1>2. WakeInv => NoLostWakeup
  BY DEF WakeInv
<1>3. QED
  BY <1>1, <1>2, NextWakes, PTL DEF Spec

-----------------------------------------------------------------------------
(* Futures.  A promise still open belongs to a task that has not run.  The *)
(* destructor's own shutdown() may have nothing to do, but then the one    *)
(* that stopped the pool has returned (no member call runs beside the      *)
(* destructor) and the workers are gone: nothing that was accepted is left *)
(* but what the ring holds, and that breaks its promises when it dies.     *)

Stopping == {c \in Closers : cpc[c] \in {"notifyCv", "notifyNotFull", "awaitSubmits", "join", "joined"}}

Stopped ==
  /\ \A c \in Closers : cpc[c] # "out" => stop
  /\ stop => Stopping # {} \/ Exited = Workers
  /\ cpc[Destroyer] \in {"skipped", "destroyed"} => Exited = Workers

OpenPromises ==
  /\ \A t \in Tasks : future[t] = "pending" => fate[t] \in {"calling", "queued", "taken"}
  /\ cpc[Destroyer] = "destroyed" =>
       \A t \in Tasks : future[t] = "pending" => fate[t] = "calling"

LEMMA InitFutures == Init => Stopped /\ OpenPromises
  BY DestroyerCloses DEF Init, Stopped, OpenPromises

(* Steps that leave stop and the closers alone let no worker back in.      *)
LEMMA StaysStopped ==
  ASSUME Stopped, UNCHANGED <<stop, cpc>>,
         \A w \in Workers : wpc[w] = "exited" => wpc'[w] = "exited"
  PROVE  Stopped'
<1>1. Exited = Workers => Exited' = Workers
  BY DEF Exited
<1>2. Stopping' = Stopping
  BY DEF Stopping
<1>3. QED
  BY <1>1, <1>2 DEF Stopped

LEMMA NextStopped ==
  ASSUME TypeOK, ExitedMeansDrained, Stopped, [Next]_vars
  PROVE  Stopped'
<1>1. CASE \E p \in Producers, kind \in Kinds, t \in Tasks : Enter(p, kind, t)
  BY <1>1, StaysStopped DEF Enter
<1>2. ASSUME NEW p \in Producers, ProducerStep(p) \/ SpuriousProducer(p)
      PROVE  Stopped'
  <2>1. UNCHANGED <<stop, cpc>> /\ (NotifyWorker(p) \/ wpc' = wpc)
    BY <1>2 DEF ProducerStep, SpuriousProducer, CheckStop, WaitNotFull, RejectFull, RejectStopped,
                TryRefuse, Push, Accepting, NotifyWorker, Leave, GiveUp, poolVars
  <2>2. QED
    BY <2>1, StaysStopped, NotifyOneWorker DEF NotifyWorker, NotifyCv
<1>3. ASSUME NEW w \in Workers, WorkerStep(w) \/ SpuriousWorker(w)
      PROVE  Stopped'
  <2>1. UNCHANGED <<stop, cpc>> /\ \A v \in Workers : wpc[v] = "exited" => wpc'[v] = "exited"
    BY <1>3 DEF WorkerStep, SpuriousWorker, WorkerWait, WorkerExit, MayExit, WorkerTake, WorkerBusy,
                WorkerExecute, WorkerUnbusy, WorkerComplete, poolVars, TypeOK
  <2>2. QED
    BY <2>1, StaysStopped
<1>4. ASSUME NEW c \in Closers, Shutdown(c) \/ ShutdownStep(c)
      PROVE  Stopped'
  <2>1. CASE Shutdown(c)
    <3>1. /\ stop' /\ cpc[c] = "out" /\ MayClose(c) /\ Exited' = Exited
          /\ cpc' = [cpc EXCEPT ![c] = IF stop THEN "skipped" ELSE "notifyCv"]
      BY <2>1 DEF Shutdown, CloserStep, Exited
    <3>2. Stopping' # {} \/ Exited' = Workers
      BY <3>1 DEF Stopped, Stopping, TypeOK
    <3>3. ASSUME cpc'[Destroyer] \in {"skipped", "destroyed"} PROVE Exited = Workers
      <4>1. CASE cpc[Destroyer] \in {"skipped", "destroyed"}
        BY <4>1 DEF Stopped
      <4>2. CASE c = Destroyer /\ stop
        <5>1. \A e \in Stopping : cpc[e] = "joined"
          BY <3>1, <4>2 DEF MayClose, Stopping, Returned
        <5>2. QED
          BY <4>2, <5>1 DEF Stopped, Stopping, ExitedMeansDrained
      <4>3. QED
        BY <3>1, <3>3, <4>1, <4>2, DestroyerCloses DEF TypeOK
    <3>4. QED
      BY <3>1, <3>2, <3>3 DEF Stopped
  <2>2. CASE ShutdownStep(c)
    <3>1. /\ UNCHANGED stop /\ c \in Stopping
          /\ \E l \in {"notifyNotFull", "awaitSubmits", "join", "joined"} :
               cpc' = [cpc EXCEPT ![c] = l]
      BY <2>2 DEF ShutdownStep, ShutdownNotifyCv, ShutdownNotifyNotFull, ShutdownAwaitSubmits,
                  ShutdownJoin, CloserStep, poolVars, Stopping
    <3>2. \A w \in Workers : wpc[w] = "exited" => wpc'[w] = "exited"
      BY <2>2 DEF ShutdownStep, ShutdownNotifyCv, NotifyAllCv, NotifyAll, ShutdownNotifyNotFull,
                  ShutdownAwaitSubmits, ShutdownJoin, poolVars, TypeOK
    <3>3. Exited = Workers => Exited' = Workers
      BY <3>2 DEF Exited
    <3>4. c \in Stopping' /\ \A d \in Closers : cpc'[d] # cpc[d] => d = c
      BY <3>1 DEF Stopping, TypeOK
    <3>5. cpc'[Destroyer] \in {"skipped", "destroyed"} => cpc[Destroyer] \in {"skipped", "destroyed"}
      BY <3>1, DestroyerCloses DEF TypeOK
    <3>6. stop
      BY <3>1 DEF Stopped, Stopping
    <3>7. QED
      BY <3>1, <3>3, <3>4, <3>5, <3>6 DEF Stopped
  <2>3. QED
    BY <1>4, <2>1, <2>2
<1>5. CASE Destroy
  <2>1. /\ Destroyer \in Returned /\ cpc' = [cpc EXCEPT ![Destroyer] = "destroyed"]
        /\ UNCHANGED <<stop, wpc>>
    BY <1>5 DEF Destroy, poolVars
  <2>2. Exited = Workers /\ Exited' = Exited
    BY <2>1, DestroyerCloses DEF Returned, Stopped, ExitedMeansDrained, Exited
  <2>3. stop
    BY <2>1 DEF Returned, Stopped
  <2>4. QED
    BY <2>1, <2>2, <2>3 DEF Stopped
<1>6. CASE UNCHANGED vars
  BY <1>6, StaysStopped DEF vars, poolVars
<1>7. QED
  BY <1>1, <1>2, <1>3, <1>4, <1>5, <1>6 DEF Next, Terminated

LEMMA NextPromises ==
  ASSUME OwnerInv, ExitedMeansDrained, Stopped, OpenPromises, [Next]_vars
  PROVE  OpenPromises'
<1>0. TypeOK /\ (cpc[Destroyer] = "destroyed" => stop /\ \A w \in Workers : wpc[w] = "exited")
  BY DestroyerCloses DEF OwnerInv, Stopped, Exited
<1>1. CASE \E p \in Producers, kind \in Kinds, t \in Tasks : Enter(p, kind, t)
  BY <1>0, <1>1 DEF Enter, MayCall, OpenPromises, TypeOK
<1>2. ASSUME NEW p \in Producers, ProducerStep(p) \/ SpuriousProducer(p)
      PROVE  OpenPromises'
  <2>1. cpc' = cpc
    BY <1>2 DEF ProducerStep, SpuriousProducer, CheckStop, WaitNotFull, RejectFull, RejectStopped,
                TryRefuse, Push, Accepting, NotifyWorker, Leave, GiveUp, poolVars
  <2>2. CASE \E how \in {"refused", "discarded", "threw"} : GiveUp(p, how) /\ pc[p] # "out"
    BY <1>0, <2>1, <2>2, NullIsNothing DEF GiveUp, Abandon, OpenPromises, TypeOK
  <2>3. CASE Push(p)
    <3>1. call[p].task \in Tasks /\ cpc[Destroyer] # "destroyed"
      BY <1>0, <2>3 DEF Push, Accepting, TypeOK
    <3>2. QED
      BY <1>0, <2>1, <2>3, <3>1 DEF Push, Accepting, OpenPromises, TypeOK
  <2>4. CASE UNCHANGED <<fate, future>>
    BY <2>1, <2>4 DEF OpenPromises
  <2>5. QED
    BY <1>2, <2>2, <2>3, <2>4
       DEF ProducerStep, SpuriousProducer, CheckStop, WaitNotFull, RejectFull, RejectStopped,
           TryRefuse, Enqueuing, NotifyWorker, Leave
<1>3. ASSUME NEW w \in Workers, WorkerStep(w) \/ SpuriousWorker(w)
      PROVE  OpenPromises'
  <2>1. cpc' = cpc /\ cpc[Destroyer] # "destroyed"
    BY <1>0, <1>3 DEF WorkerStep, SpuriousWorker, WorkerWait, WorkerExit, WorkerTake, WorkerBusy,
                WorkerExecute, WorkerUnbusy, WorkerComplete
  <2>2. CASE WorkerTake(w)
    <3>1. Head(tasks) \in Tasks
      BY <1>0, <2>2 DEF WorkerTake, empty, TypeOK
    <3>2. QED
      BY <1>0, <2>1, <2>2, <3>1 DEF WorkerTake, OpenPromises, TypeOK
  <2>3. CASE \E throws \in BOOLEAN : WorkerExecute(w, throws)
    <3>1. held[w] \in Tasks
      BY <1>0, <2>3 DEF WorkerExecute, TypeOK
    <3>2. QED
      BY <1>0, <2>1, <2>3, <3>1 DEF WorkerExecute, Outcome, OpenPromises, TypeOK
  <2>4. CASE UNCHANGED <<fate, future>>
    BY <2>1, <2>4 DEF OpenPromises
  <2>5. QED
    BY <1>3, <2>2, <2>3, <2>4 DEF WorkerStep, SpuriousWorker, WorkerWait, WorkerExit, WorkerBusy,
                                  WorkerUnbusy, WorkerComplete
<1>4. ASSUME NEW c \in Closers, Shutdown(c) \/ ShutdownStep(c)
      PROVE  OpenPromises'
  <2>1. UNCHANGED <<fate, future>> /\ (cpc'[Destroyer] = "destroyed" => cpc[Destroyer] = "destroyed")
    BY <1>0, <1>4, DestroyerCloses
       DEF Shutdown, ShutdownStep, ShutdownNotifyCv, ShutdownNotifyNotFull, ShutdownAwaitSubmits,
           ShutdownJoin, CloserStep, TypeOK
  <2>2. QED
    BY <2>1 DEF OpenPromises
<1>5. CASE Destroy
  <2>1. \A w \in Workers : wpc[w] = "exited"
    BY <1>5, DestroyerCloses DEF Destroy, Returned, Stopped, ExitedMeansDrained, Exited
  <2>2. \A t \in Tasks : fate[t] # "taken"
    BY <2>1 DEF OwnerInv, Placed
  <2>3. QED
    BY <1>0, <1>5, <2>2 DEF Destroy, Abandon, OpenPromises, TypeOK
<1>6. CASE UNCHANGED vars
  BY <1>6 DEF vars, OpenPromises
<1>7. QED
  BY <1>1, <1>2, <1>3, <1>4, <1>5, <1>6 DEF Next, Terminated

(* No client waits forever on a future: whoever shut the pool down, and    *)
(* with any number of workers, none included, a task accepted by submit()  *)
(* has a value, an exception or a broken promise when the pool is gone.    *)
THEOREM PoolFuturesResolved == Spec => []FuturesResolved
<1> DEFINE Inv == OwnerInv /\ ExitedMeansDrained /\ Stopped /\ OpenPromises
<1>1. Init => Inv
  BY InitOwner, InitDrained, InitFutures
<1>2. Inv /\ [Next]_vars => Inv'
  BY NextOwner, NextDrained, NextStopped, NextPromises DEF OwnerInv
<1>3. Inv => FuturesResolved
  BY DEF OpenPromises, FuturesResolved
<1>4. QED
  BY <1>1, <1>2, <1>3, PTL DEF Spec

-----------------------------------------------------------------------------
(* The destructor.  While nobody else has called shutdown(), the           *)
(* destructor's own call is the one that sets stop, so it waits for the    *)
(* calls in flight and joins, and no call can start once it has begun.     *)

Alone == \A c \in Closers \ {Destroyer} : cpc[c] = "out"

DestructorInv ==
  Alone => /\ stop => cpc[Destroyer] # "out"
           /\ cpc[Destroyer] # "skipped"
           /\ cpc[Destroyer] \in {"join", "joined", "destroyed"} => InCall = {}

LEMMA NextDestructor ==
  ASSUME TypeOK, Accounting, DestructorInv, [Next]_vars
  PROVE  DestructorInv'
<1> USE DEF DestructorInv
<1>0. ASSUME InCall' \subseteq InCall, UNCHANGED <<stop, cpc>>
      PROVE  DestructorInv'
  BY <1>0 DEF Alone
<1>1. CASE \E p \in Producers, kind \in Kinds, t \in Tasks : Enter(p, kind, t)
  BY <1>1 DEF Enter, MayCall, Alone
<1>2. CASE \E p \in Producers : ProducerStep(p) \/ SpuriousProducer(p)
  BY <1>0, <1>2
     DEF ProducerStep, SpuriousProducer, CheckStop, WaitNotFull, RejectFull, RejectStopped,
         TryRefuse, Push, Accepting, NotifyWorker, Leave, GiveUp, Enqueuing, poolVars, TypeOK, InCall
<1>3. ASSUME NEW w \in Workers, WorkerStep(w) \/ SpuriousWorker(w)
      PROVE  DestructorInv'
  <2>1. CASE WorkerTake(w)
    BY <1>0, <2>1, NotifyOneProducer DEF WorkerTake, PopFront, NotifyNotFull, TypeOK, InCall
  <2>2. CASE ~WorkerTake(w)
    BY <1>0, <1>3, <2>2
       DEF WorkerStep, SpuriousWorker, WorkerWait, WorkerExit, WorkerBusy, WorkerExecute,
           WorkerUnbusy, WorkerComplete, poolVars, TypeOK, InCall
  <2>3. QED
    BY <2>1, <2>2
<1>4. ASSUME NEW c \in Closers, Shutdown(c) \/ ShutdownStep(c)
      PROVE  DestructorInv'
  <2> USE DEF CloserStep, TypeOK, poolVars
  <2>1. CASE c # Destroyer
    <3>1. cpc'[c] # "out"
      BY <1>4 DEF Shutdown, ShutdownStep, ShutdownNotifyCv, ShutdownNotifyNotFull,
                  ShutdownAwaitSubmits, ShutdownJoin
    <3>2. QED
      BY <2>1, <3>1 DEF Alone
  <2>2. CASE c = Destroyer
    <3>1. Alone' => Alone
      BY <1>4, <2>2 DEF Alone, Shutdown, ShutdownStep, ShutdownNotifyCv, ShutdownNotifyNotFull,
                        ShutdownAwaitSubmits, ShutdownJoin
    <3>2. CASE Shutdown(c)
      BY <2>2, <3>1, <3>2 DEF Shutdown
    <3>3. CASE ShutdownNotifyCv(c)
      BY <2>2, <3>1, <3>3 DEF ShutdownNotifyCv
    <3>4. CASE ShutdownNotifyNotFull(c)
      BY <2>2, <3>1, <3>4 DEF ShutdownNotifyNotFull
    <3>5. CASE ShutdownAwaitSubmits(c)
      <4>1. InCall = {}
        BY <3>5, SetsFinite, FS_EmptySet DEF ShutdownAwaitSubmits, SubmitsDone, Accounting
      <4>2. QED
        BY <2>2, <3>1, <3>5, <4>1 DEF ShutdownAwaitSubmits, InCall
    <3>6. CASE ShutdownJoin(c)
      BY <2>2, <3>1, <3>6 DEF ShutdownJoin, InCall
    <3>7. QED
      BY <1>4, <3>2, <3>3, <3>4, <3>5, <3>6 DEF ShutdownStep
  <2>3. QED
    BY <2>1, <2>2
<1>5. CASE Destroy
  <2>1. /\ cpc[Destroyer] \in {"joined", "skipped"} /\ cpc'[Destroyer] = "destroyed"
        /\ (Alone' => Alone) /\ InCall' = InCall
    BY <1>5, DestroyerCloses DEF Destroy, Returned, poolVars, TypeOK, InCall, Alone
  <2>2. QED
    BY <2>1
<1>6. CASE UNCHANGED vars
  BY <1>0, <1>6 DEF vars, poolVars, InCall
<1>7. QED
  BY <1>1, <1>2, <1>3, <1>4, <1>5, <1>6 DEF Next, Terminated

(* The lifetime contract of include/ThreadPool.h, where it holds: no       *)
(* worker runs when the members are destroyed, whoever shut the pool down; *)
(* and if only the destructor did, no submit is in flight either.          *)
THEOREM PoolDestroyedQuiescent == Spec => []DestroyedQuiescent
<1> DEFINE Inv == OwnerInv /\ ExitedMeansDrained /\ Stopped /\ DestructorInv
<1>1. Init => Inv
  <2>1. Init => DestructorInv
    BY DestroyerCloses DEF Init, DestructorInv
  <2>2. QED
    BY <2>1, InitOwner, InitDrained, InitFutures
<1>2. Accounting /\ Inv /\ [Next]_vars => Inv'
  BY NextOwner, NextDrained, NextStopped, NextDestructor DEF OwnerInv
<1>3. Inv => DestroyedQuiescent
  BY DEF Stopped, DestructorInv, Alone, DestroyedQuiescent
<1>4. QED
  BY <1>1, <1>2, <1>3, PoolAccounting, PTL DEF Spec

-----------------------------------------------------------------------------
(* The service that clients see.  A step of the pool that they notice is   *)
(* one of PoolService; all others leave what they see as it is.            *)

StoppedByOne ==
  /\ \A c \in Closers : cpc[c] # "out" => stop
  /\ stop => Stopping # {} \/ Joined
  /\ cpc[Destroyer] = "skipped" => Joined

LEMMA InitStoppedByOne == Init => StoppedByOne
  BY DestroyerCloses DEF Init, StoppedByOne

(* Who joins has stopped the pool, and it stays joined.                    *)
LEMMA NextStoppedByOne ==
  ASSUME TypeOK, StoppedByOne, [Next]_vars
  PROVE  StoppedByOne' /\ (Joined => Joined') /\ (stop => stop')
<1>0. ASSUME UNCHANGED <<stop, cpc>> PROVE StoppedByOne' /\ Joined' = Joined
  BY <1>0 DEF StoppedByOne, Stopping, Joined
<1>1. CASE \E p \in Producers, kind \in Kinds, t \in Tasks : Enter(p, kind, t)
  BY <1>0, <1>1 DEF Enter
<1>2. CASE \E p \in Producers : ProducerStep(p) \/ SpuriousProducer(p)
  BY <1>0, <1>2
     DEF ProducerStep, SpuriousProducer, CheckStop, WaitNotFull, RejectFull, RejectStopped,
         TryRefuse, Push, NotifyWorker, Leave, GiveUp, poolVars
<1>3. CASE \E w \in Workers : WorkerStep(w) \/ SpuriousWorker(w)
  BY <1>0, <1>3
     DEF WorkerStep, SpuriousWorker, WorkerWait, WorkerExit, WorkerTake, WorkerBusy,
         WorkerExecute, WorkerUnbusy, WorkerComplete, poolVars
<1>4. ASSUME NEW c \in Closers, Shutdown(c)
      PROVE  StoppedByOne' /\ (Joined => Joined') /\ (stop => stop')
  <2>1. /\ stop' /\ cpc[c] = "out" /\ MayClose(c)
        /\ cpc' = [cpc EXCEPT ![c] = IF stop THEN "skipped" ELSE "notifyCv"]
    BY <1>4 DEF Shutdown, CloserStep
  <2>2. Joined => Joined'
    BY <2>1, DestroyerCloses DEF Joined, TypeOK
  <2>3. Stopping' # {} \/ Joined'
    BY <2>1, <2>2 DEF StoppedByOne, Stopping, TypeOK
  <2>4. ASSUME cpc'[Destroyer] = "skipped" PROVE Joined'
    <3>1. CASE cpc[Destroyer] = "skipped"
      BY <2>2, <3>1 DEF StoppedByOne
    <3>2. CASE c = Destroyer /\ stop
      <4>1. \A e \in Stopping : cpc[e] = "joined"
        BY <2>1, <3>2 DEF MayClose, Stopping, Returned
      <4>2. Joined
        BY <3>2, <4>1 DEF StoppedByOne, Stopping, Joined
      <4>3. QED
        BY <2>2, <4>2
    <3>3. QED
      BY <2>1, <2>4, <3>1, <3>2, DestroyerCloses DEF TypeOK
  <2>5. QED
    BY <2>1, <2>2, <2>3, <2>4 DEF StoppedByOne
<1>5. ASSUME NEW c \in Closers, ShutdownStep(c)
      PROVE  StoppedByOne' /\ (Joined => Joined') /\ (stop => stop')
  <2>1. /\ UNCHANGED stop /\ c \in Stopping /\ cpc[c] # "joined"
        /\ \E l \in {"notifyNotFull", "awaitSubmits", "join", "joined"} :
             cpc' = [cpc EXCEPT ![c] = l]
    BY <1>5 DEF ShutdownStep, ShutdownNotifyCv, ShutdownNotifyNotFull, ShutdownAwaitSubmits,
                ShutdownJoin, CloserStep, poolVars, Stopping
  <2>2. c \in Stopping' /\ stop
    BY <2>1 DEF Stopping, StoppedByOne, TypeOK
  <2>3. Joined => Joined'
    BY <2>1, DestroyerCloses DEF Joined, Stopping, TypeOK
  <2>4. cpc'[Destroyer] = "skipped" => cpc[Destroyer] = "skipped"
    BY <2>1, DestroyerCloses DEF TypeOK
  <2>5. QED
    BY <2>1, <2>2, <2>3, <2>4 DEF StoppedByOne
<1>6. CASE Destroy
  <2>1. /\ Destroyer \in Returned /\ cpc' = [cpc EXCEPT ![Destroyer] = "destroyed"]
        /\ UNCHANGED stop
    BY <1>6 DEF Destroy, poolVars
  <2>2. cpc'[Destroyer] = "destroyed" /\ Joined' /\ stop
    BY <2>1, DestroyerCloses DEF TypeOK, Joined, Returned, StoppedByOne
  <2>3. QED
    BY <2>1, <2>2 DEF StoppedByOne
<1>7. CASE UNCHANGED vars
  BY <1>0, <1>7 DEF vars, poolVars
<1>8. QED
  BY <1>1, <1>2, <1>3, <1>4, <1>5, <1>6, <1>7 DEF Next, Terminated

LEMMA SeenMoves ==
  ASSUME TypeOK, NEW t \in Tasks, NEW f, fate' = [fate EXCEPT ![t] = f]
  PROVE  SeenTasks' = [SeenTasks EXCEPT ![t] = SeenAs(f)] /\ SeenTasks[t] = SeenAs(fate[t])
  BY DEF SeenTasks, TypeOK

LEMMA SeenPhaseKept ==
  ASSUME stop' = stop, Joined' = Joined
  PROVE  SeenPhase' = SeenPhase
  BY DEF SeenPhase

LEMMA ServiceStutters ==
  ASSUME UNCHANGED <<tasks, fate, stop>>, Joined' = Joined
  PROVE  UNCHANGED Service!serviceVars
  BY SeenPhaseKept DEF Service!serviceVars, SeenTasks

LEMMA ProducerServes ==
  ASSUME OwnerInv, NEW p \in Producers, ProducerStep(p) \/ SpuriousProducer(p)
  PROVE  [Service!Next]_Service!serviceVars
<1> DEFINE t == call[p].task
<1>1. UNCHANGED <<stop, cpc>>
  BY DEF ProducerStep, SpuriousProducer, CheckStop, WaitNotFull, RejectFull, RejectStopped,
         TryRefuse, Push, NotifyWorker, Leave, GiveUp, poolVars
<1>2. Joined' = Joined /\ SeenPhase' = SeenPhase
  BY <1>1, SeenPhaseKept DEF Joined
<1>3. TypeOK /\ (Offering(p) => t \in Tasks /\ fate[t] = "calling")
  BY NullIsNothing DEF OwnerInv, OneOwner, Offering, TypeOK, InCall
<1>4. ASSUME NEW how \in {"refused", "discarded", "threw"}, GiveUp(p, how), Offering(p), stop \/ full
      PROVE  Service!Next
  <2>1. SeenTasks' = [SeenTasks EXCEPT ![t] = "refused"] /\ SeenTasks[t] = "new" /\ tasks' = tasks
    BY <1>3, <1>4, SeenMoves DEF GiveUp, SeenAs, poolVars
  <2>2. SeenPhase # "open" \/ Len(tasks) = Capacity
    BY <1>4 DEF SeenPhase, full
  <2>3. Service!Refuse(t)
    BY <1>2, <2>1, <2>2 DEF Service!Refuse
  <2>4. QED
    BY <1>3, <1>4, <2>3 DEF Service!Next
<1>5. CASE Push(p)
  <2>1. Offering(p) /\ ~stop /\ ~full /\ fate' = [fate EXCEPT ![t] = "queued"]
        /\ tasks' = Append(tasks, t)
    BY <1>5 DEF Push, Accepting, Offering
  <2>2. SeenTasks' = [SeenTasks EXCEPT ![t] = "waiting"] /\ SeenTasks[t] = "new"
    BY <1>3, <2>1, SeenMoves DEF SeenAs
  <2>3. SeenPhase = "open" /\ Len(tasks) < Capacity
    BY <1>3, <2>1, CapacityPositive DEF SeenPhase, full, TypeOK
  <2>4. Service!Accept(t)
    BY <1>2, <2>1, <2>2, <2>3 DEF Service!Accept
  <2>5. QED
    BY <1>3, <2>1, <2>4 DEF Service!Next
<1>6. CASE UNCHANGED <<tasks, fate>>
  BY <1>1, <1>2, <1>6, ServiceStutters
<1>7. QED
  <2>1. \/ Push(p) \/ UNCHANGED <<tasks, fate>>
        \/ \E how \in {"refused", "discarded", "threw"} : GiveUp(p, how) /\ Offering(p) /\ (stop \/ full)
    BY DEF ProducerStep, SpuriousProducer, CheckStop, WaitNotFull, RejectFull, RejectStopped,
           TryRefuse, Enqueuing, Offering, NotifyWorker, Leave, poolVars
  <2>2. QED
    BY <1>4, <1>5, <1>6, <2>1

LEMMA WorkerServes ==
  ASSUME OwnerInv, NEW w \in Workers, WorkerStep(w) \/ SpuriousWorker(w)
  PROVE  [Service!Next]_Service!serviceVars
<1>1. UNCHANGED <<stop, cpc>>
  BY DEF WorkerStep, SpuriousWorker, WorkerWait, WorkerExit, WorkerTake, WorkerBusy,
         WorkerExecute, WorkerUnbusy, WorkerComplete, poolVars
<1>2. Joined' = Joined /\ SeenPhase' = SeenPhase
  BY <1>1, SeenPhaseKept DEF Joined
<1>3. TypeOK
  BY DEF OwnerInv
<1>4. CASE WorkerTake(w)
  <2> DEFINE t == Head(tasks)
  <2>1. tasks # <<>> /\ tasks' = Tail(tasks) /\ fate' = [fate EXCEPT ![t] = "taken"]
    BY <1>4 DEF WorkerTake, PopFront, empty
  <2>2. t \in Tasks /\ fate[t] = "queued"
    <3>1. tasks \in Seq(Tasks) /\ 1 \in DOMAIN tasks /\ t = tasks[1]
      BY <1>3, <2>1 DEF TypeOK
    <3>2. QED
      BY <3>1 DEF OwnerInv, OneOwner
  <2> HIDE DEF t
  <2>3. SeenTasks' = [SeenTasks EXCEPT ![t] = "running"] /\ SeenTasks[t] = "waiting"
    BY <1>3, <2>1, <2>2, SeenMoves DEF SeenAs
  <2>4. Service!Start(t)
    BY <1>2, <2>1, <2>3 DEF Service!Start, t
  <2>5. QED
    BY <2>2, <2>4 DEF Service!Next
<1>5. CASE \E throws \in BOOLEAN : WorkerExecute(w, throws)
  <2> DEFINE t == held[w]
  <2>1. wpc[w] = "executing" /\ fate' = [fate EXCEPT ![t] = "done"] /\ tasks' = tasks
    BY <1>5 DEF WorkerExecute
  <2>2. t \in Tasks /\ fate[t] = "taken"
    BY <1>3, <2>1 DEF OwnerInv, Placed, TypeOK
  <2>3. SeenTasks' = [SeenTasks EXCEPT ![t] = "done"] /\ SeenTasks[t] = "running"
    BY <1>3, <2>1, <2>2, SeenMoves DEF SeenAs
  <2>4. Service!Finish(t)
    BY <1>2, <2>1, <2>3 DEF Service!Finish
  <2>5. QED
    BY <2>2, <2>4 DEF Service!Next
<1>6. CASE UNCHANGED <<tasks, fate>>
  BY <1>1, <1>2, <1>6, ServiceStutters
<1>7. QED
  BY <1>4, <1>5, <1>6 DEF WorkerStep, SpuriousWorker, WorkerWait, WorkerExit, WorkerBusy,
                          WorkerUnbusy, WorkerComplete, poolVars

LEMMA CloserServes ==
  ASSUME OwnerInv, ExitedMeansDrained, StoppedByOne, Workers # {},
         NEW c \in Closers, Shutdown(c) \/ ShutdownStep(c)
  PROVE  [Service!Next]_Service!serviceVars
<1>1. TypeOK /\ UNCHANGED <<tasks, fate>>
  BY DEF OwnerInv, Shutdown, ShutdownStep, ShutdownNotifyCv, ShutdownNotifyNotFull,
         ShutdownAwaitSubmits, ShutdownJoin, poolVars
<1>2. SeenTasks' = SeenTasks
  BY <1>1 DEF SeenTasks
<1>3. CASE Shutdown(c) /\ ~stop
  <2>1. stop' /\ \A e \in Closers : cpc'[e] \in {"out", "notifyCv"}
    BY <1>1, <1>3 DEF Shutdown, CloserStep, StoppedByOne, TypeOK
  <2>2. ~Joined'
    BY <2>1, DestroyerCloses DEF Joined
  <2>3. SeenPhase = "open" /\ SeenPhase' = "closing"
    BY <1>3, <2>1, <2>2 DEF SeenPhase
  <2>4. QED
    BY <1>1, <1>2, <2>3 DEF Service!Next, Service!Close
<1>4. CASE ShutdownJoin(c) /\ ~Joined
  <2>1. /\ Exited = Workers /\ cpc[c] = "join" /\ stop' = stop
        /\ cpc' = [cpc EXCEPT ![c] = "joined"]
    BY <1>4 DEF ShutdownJoin, CloserStep, poolVars
  <2>2. stop /\ Joined'
    BY <1>1, <2>1 DEF StoppedByOne, Joined, TypeOK
  <2>3. SeenPhase = "closing" /\ SeenPhase' = "closed"
    BY <1>4, <2>1, <2>2 DEF SeenPhase
  <2>4. tasks = <<>> /\ \A w \in Workers : wpc[w] = "exited"
    BY <2>1 DEF ExitedMeansDrained, Exited
  <2>5. \A t \in Tasks : fate[t] \notin {"queued", "taken"}
    BY <2>4 DEF OwnerInv, Placed
  <2>6. \A t \in Tasks : SeenTasks[t] \in {"new", "done", "refused"}
    BY <1>1, <2>5 DEF SeenTasks, SeenAs, TypeOK
  <2>7. QED
    BY <1>1, <1>2, <2>3, <2>6 DEF Service!Next, Service!Closed
<1>5. CASE Shutdown(c) /\ stop
  <2>1. /\ stop' = stop /\ cpc[c] = "out" /\ cpc' = [cpc EXCEPT ![c] = "skipped"]
    BY <1>5 DEF Shutdown, CloserStep, TypeOK, OwnerInv
  <2>2. Joined' = Joined
    BY <1>1, <2>1, DestroyerCloses DEF Joined, TypeOK
  <2>3. QED
    BY <1>1, <2>1, <2>2, ServiceStutters
<1>6. CASE ShutdownStep(c) /\ (ShutdownJoin(c) => Joined)
  <2>1. /\ UNCHANGED stop /\ cpc[c] \in {"notifyCv", "notifyNotFull", "awaitSubmits", "join"}
        /\ \E l \in {"notifyNotFull", "awaitSubmits", "join", "joined"} :
             cpc' = [cpc EXCEPT ![c] = l] /\ (l = "joined" => Joined)
    BY <1>6 DEF ShutdownStep, ShutdownNotifyCv, ShutdownNotifyNotFull, ShutdownAwaitSubmits,
                ShutdownJoin, CloserStep, poolVars
  <2>2. Joined' = Joined
    BY <1>1, <2>1, DestroyerCloses DEF Joined, TypeOK
  <2>3. QED
    BY <1>1, <2>1, <2>2, ServiceStutters
<1>7. QED
  BY <1>3, <1>4, <1>5, <1>6

LEMMA NextServes ==
  ASSUME OwnerInv, ExitedMeansDrained, StoppedByOne, Workers # {}, [Next]_vars
  PROVE  [Service!Next]_Service!serviceVars
<1>1. ASSUME NEW p \in Producers, NEW kind \in Kinds, NEW t \in Tasks, Enter(p, kind, t)
      PROVE  [Service!Next]_Service!serviceVars
  <2>1. /\ UNCHANGED <<tasks, stop, cpc>> /\ fate[t] = "new"
        /\ fate' = [fate EXCEPT ![t] = "calling"]
    BY <1>1 DEF Enter
  <2>2. \A u \in Tasks : SeenAs(fate'[u]) = SeenAs(fate[u])
    BY <2>1 DEF SeenAs, OwnerInv, TypeOK
  <2>3. SeenTasks' = SeenTasks
    BY <2>2 DEF SeenTasks
  <2>4. SeenPhase' = SeenPhase
    BY <2>1, SeenPhaseKept DEF Joined
  <2>5. QED
    BY <2>1, <2>3, <2>4 DEF Service!serviceVars
<1>2. CASE \E p \in Producers : ProducerStep(p) \/ SpuriousProducer(p)
  BY <1>2, ProducerServes
<1>3. CASE \E w \in Workers : WorkerStep(w) \/ SpuriousWorker(w)
  BY <1>3, WorkerServes
<1>4. CASE \E c \in Closers : Shutdown(c) \/ ShutdownStep(c)
  BY <1>4, CloserServes
<1>5. CASE Destroy
  <2>1. /\ UNCHANGED <<tasks, fate, stop>> /\ Destroyer \in Returned
        /\ cpc[Destroyer] # "destroyed" /\ cpc' = [cpc EXCEPT ![Destroyer] = "destroyed"]
    BY <1>5 DEF Destroy, poolVars
  <2>2. Joined /\ Joined'
    BY <2>1, DestroyerCloses DEF Returned, StoppedByOne, Joined, OwnerInv, TypeOK
  <2>3. QED
    BY <2>1, <2>2, ServiceStutters
<1>6. CASE UNCHANGED vars
  BY <1>6, ServiceStutters DEF vars, poolVars, Joined
<1>7. QED
  BY <1>1, <1>2, <1>3, <1>4, <1>5, <1>6 DEF Next, Terminated

(* The pool of src/ThreadPool.cpp, if it has a worker, is the service that *)
(* PoolService describes, for any number of threads, tasks and slots and   *)
(* every reject policy.                                                    *)
THEOREM PoolIsService == Workers # {} => (Spec => ImplementsService)
<1> SUFFICES ASSUME Workers # {} PROVE Spec => ImplementsService
  OBVIOUS
<1> DEFINE Inv == OwnerInv /\ ExitedMeansDrained /\ StoppedByOne
<1>1. Init => Service!Init
  <2> SUFFICES ASSUME Init PROVE Service!Init
    OBVIOUS
  <2>1. SeenTasks = [t \in Tasks |-> "new"]
    BY DEF Init, SeenTasks, SeenAs
  <2>2. QED
    BY <2>1 DEF Init, Service!Init, SeenPhase
<1>2. Init => Inv
  BY InitOwner, InitDrained, InitStoppedByOne
<1>3. Inv /\ [Next]_vars => Inv'
  BY NextOwner, NextDrained, NextStoppedByOne DEF OwnerInv
<1>4. Inv /\ [Next]_vars => [Service!Next]_Service!serviceVars
  BY NextServes
<1>5. QED
  BY <1>1, <1>2, <1>3, <1>4, PTL DEF Spec, ImplementsService, Service!Spec
=============================================================================
