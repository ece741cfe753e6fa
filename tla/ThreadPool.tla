----------------------------- MODULE ThreadPool -----------------------------
(***************************************************************************)
(* The pool of include/ThreadPool.h and src/ThreadPool.cpp: client threads *)
(* submit tasks into one bounded FIFO guarded by mtx, workers take and run *)
(* them, and shutdown() / ~ThreadPool() stop the pool.                     *)
(*                                                                         *)
(* Granularity.  One critical section of mtx is one step: everything it    *)
(* reads and writes, except the atomics it only increments, is touched by  *)
(* no other thread without mtx.  Everything done outside mtx (the in-      *)
(* flight counter, notifications, the metrics around execute(), the waits  *)
(* of shutdown) is a step of its own.                                      *)
(*                                                                         *)
(* tasks is the abstract queue that RingBuffer is shown to implement.  The *)
(* optional wrapping by makeTraceableTask touches none of this state and   *)
(* is not part of this module.                                             *)
(***************************************************************************)
EXTENDS Integers, Sequences, FiniteSets

CONSTANTS
  Producers,    \* client threads that call submit, submitVoid and trySubmit
  Workers,      \* the pool's threads; tests also build pools with none
  Closers,      \* client threads that call shutdown(), the Destroyer among them
  Destroyer,    \* the one that runs ~ThreadPool()
  Tasks,        \* the callables clients submit, each at most once (a bound)
  Capacity,     \* slots of the ring, after rounding up to a power of two
  Policies,     \* reject policies the constructor may be given
  LateSubmits,  \* may clients start calls after a shutdown() has returned?
  NULL

Kinds == {"submit", "submitVoid", "trySubmit"}

ASSUME ThreadsFinite == /\ IsFiniteSet(Producers)
                        /\ IsFiniteSet(Workers)
ASSUME CapacityPositive == Capacity \in Nat \ {0}
ASSUME PoliciesKnown == Policies \subseteq {"BLOCK", "DISCARD", "THROW"}
ASSUME DestroyerCloses == Destroyer \in Closers
ASSUME NullIsNothing == NULL \notin Tasks \cup [kind : Kinds, task : Tasks]
ASSUME LateSubmitsBoolean == LateSubmits \in BOOLEAN

VARIABLES
  tasks,            \* RingBuffer<Task> tasks, as the sequence it holds
  stop, reject_policy,
  active_submits, submitted_tasks, completed_tasks, busy_workers, failed_tasks,
  pc,               \* where each producer is in its call
  call,             \* the kind and the task of that call
  wpc,              \* where each worker is in its loop
  held,             \* the local "Task task" of each worker
  cpc,              \* where each closer is in shutdown() or the destructor
  fate,             \* what has become of each task
  future            \* the shared state of the std::future that submit returns

poolVars == <<tasks, stop, reject_policy, active_submits, submitted_tasks,
              completed_tasks, busy_workers, failed_tasks>>
vars == <<poolVars, pc, call, wpc, held, cpc, fate, future>>

-----------------------------------------------------------------------------
(* Mutant: full() is off by one.                                           *)
fullTooLate == Len(tasks) > Capacity

full  == Len(tasks) = Capacity
empty == tasks = <<>>

InCall   == {p \in Producers : pc[p] # "out"}
Blocked  == {p \in Producers : pc[p] = "blocked"}
Waiting  == {w \in Workers : wpc[w] = "waiting"}
Exited   == {w \in Workers : wpc[w] = "exited"}
InHand   == {w \in Workers : held[w] # NULL}
Busy     == {w \in Workers : wpc[w] \in {"executing", "executed"}}
Returned == {c \in Closers : cpc[c] \in {"joined", "skipped", "destroyed"}}

(* std::condition_variable::notify_one: some waiter, if there is one, goes *)
(* back to evaluating its predicate.                                       *)
NotifyOne(at, sleeping, awake) ==
  LET sleepers == {x \in DOMAIN at : at[x] = sleeping}
  IN  IF sleepers = {} THEN {at}
      ELSE {[at EXCEPT ![x] = awake] : x \in sleepers}

(* std::condition_variable::notify_all.                                    *)
NotifyAll(at, sleeping, awake) ==
  [x \in DOMAIN at |-> IF at[x] = sleeping THEN awake ELSE at[x]]

(* A std::packaged_task destroyed without having run breaks its promise.   *)
Abandon(f) == IF f = "pending" THEN "broken" ELSE f

-----------------------------------------------------------------------------
(* Clients: submit, submitVoid, trySubmit.                                 *)

(* The contract of the lifetime comment: the object is alive, and clients  *)
(* that keep to it start no call after a shutdown() has returned.          *)
MayCall == /\ cpc[Destroyer] = "out"
           /\ LateSubmits \/ Returned = {}

Enter(p, kind, t) ==
  /\ pc[p] = "out"
  /\ fate[t] = "new"
  /\ MayCall
  /\ active_submits' = active_submits + 1
  /\ call' = [call EXCEPT ![p] = [kind |-> kind, task |-> t]]
  /\ pc' = [pc EXCEPT ![p] = IF kind = "trySubmit" THEN "checkStop" ELSE "enqueue"]
  /\ fate' = [fate EXCEPT ![t] = "calling"]
  /\ future' = [future EXCEPT ![t] = IF kind = "submit" THEN "pending" ELSE "none"]
  /\ UNCHANGED <<tasks, stop, reject_policy, submitted_tasks, completed_tasks,
                 busy_workers, failed_tasks, wpc, held, cpc>>

(* The call ends without having queued its task: the Task temporary dies.  *)
GiveUp(p, how) ==
  LET t == call[p].task
  IN  /\ pc' = [pc EXCEPT ![p] = "leaving"]
      /\ fate' = [fate EXCEPT ![t] = how]
      /\ future' = [future EXCEPT ![t] = Abandon(@)]
      /\ UNCHANGED <<poolVars, call, wpc, held, cpc>>

(* trySubmit reads stop before it builds the task.                         *)
CheckStop(p) ==
  /\ pc[p] = "checkStop"
  /\ \/ /\ stop
        /\ GiveUp(p, "refused")
     \/ /\ ~stop
        /\ pc' = [pc EXCEPT ![p] = "enqueue"]
        /\ UNCHANGED <<poolVars, call, wpc, held, cpc, fate, future>>

Enqueuing(p) == pc[p] = "enqueue" /\ call[p].kind # "trySubmit"

(* BLOCK: not_full_cv.wait sleeps while the queue is full and not stopped. *)
WaitNotFull(p) ==
  /\ Enqueuing(p)
  /\ reject_policy = "BLOCK" /\ full /\ ~stop
  /\ pc' = [pc EXCEPT ![p] = "blocked"]
  /\ UNCHANGED <<poolVars, call, wpc, held, cpc, fate, future>>

(* DISCARD and THROW look at the queue before they look at stop.           *)
RejectFull(p) ==
  /\ Enqueuing(p)
  /\ reject_policy # "BLOCK" /\ full
  /\ GiveUp(p, IF reject_policy = "DISCARD" THEN "discarded" ELSE "threw")

RejectStopped(p) ==
  /\ Enqueuing(p)
  /\ stop
  /\ reject_policy = "BLOCK" \/ ~full
  /\ GiveUp(p, "threw")

(* tryEnqueueTask refuses without throwing.                                *)
TryRefuse(p) ==
  /\ pc[p] = "enqueue" /\ call[p].kind = "trySubmit"
  /\ stop \/ full
  /\ GiveUp(p, "refused")

(* Mutant: a producer that had to wait does not look at stop again.        *)
AcceptingLate == ~full

Accepting == ~stop /\ ~full

(* The common tail of enqueueTask and tryEnqueueTask.                      *)
Push(p) ==
  /\ pc[p] = "enqueue"
  /\ Accepting
  /\ tasks' = Append(tasks, call[p].task)
  /\ submitted_tasks' = submitted_tasks + 1
  /\ fate' = [fate EXCEPT ![call[p].task] = "queued"]
  /\ pc' = [pc EXCEPT ![p] = "notify"]
  /\ UNCHANGED <<stop, reject_policy, active_submits, completed_tasks, busy_workers,
                 failed_tasks, call, wpc, held, cpc, future>>

(* Mutant: the notification is forgotten.                                  *)
NotifyCvNot == UNCHANGED wpc

(* cv.notify_one(), after mtx has been released.                           *)
NotifyCv == wpc' \in NotifyOne(wpc, "waiting", "check")

NotifyWorker(p) ==
  /\ pc[p] = "notify"
  /\ NotifyCv
  /\ pc' = [pc EXCEPT ![p] = "leaving"]
  /\ UNCHANGED <<poolVars, call, held, cpc, fate, future>>

(* Mutant: the guard forgets to count down.                                *)
EndSubmitNot == UNCHANGED active_submits

(* ~SubmitGuard, on a normal return and on an exception alike.             *)
EndSubmit == active_submits' = active_submits - 1

Leave(p) ==
  /\ pc[p] = "leaving"
  /\ EndSubmit
  /\ pc' = [pc EXCEPT ![p] = "out"]
  /\ call' = [call EXCEPT ![p] = NULL]
  /\ UNCHANGED <<tasks, stop, reject_policy, submitted_tasks, completed_tasks,
                 busy_workers, failed_tasks, wpc, held, cpc, fate, future>>

(* A condition variable may wake a waiter for no reason.                   *)
SpuriousProducer(p) ==
  /\ pc[p] = "blocked"
  /\ pc' = [pc EXCEPT ![p] = "enqueue"]
  /\ UNCHANGED <<poolVars, call, wpc, held, cpc, fate, future>>

-----------------------------------------------------------------------------
(* The worker loop of the constructor's lambda.                            *)

WorkerWait(w) ==
  /\ wpc[w] = "check"
  /\ ~stop /\ empty
  /\ wpc' = [wpc EXCEPT ![w] = "waiting"]
  /\ UNCHANGED <<poolVars, pc, call, held, cpc, fate, future>>

(* Mutant: a worker leaves as soon as stop is set.                         *)
MayExitAtStop == stop

MayExit == stop /\ empty

WorkerExit(w) ==
  /\ wpc[w] = "check"
  /\ MayExit
  /\ wpc' = [wpc EXCEPT ![w] = "exited"]
  /\ UNCHANGED <<poolVars, pc, call, held, cpc, fate, future>>

PopFront == tasks' = Tail(tasks)

(* Mutant: no producer is told that a slot is free.                        *)
NotifyNotFullNot == UNCHANGED pc

NotifyNotFull == pc' \in NotifyOne(pc, "blocked", "enqueue")

(* pop and not_full_cv.notify_one() under mtx, then the lock is released.  *)
WorkerTake(w) ==
  /\ wpc[w] = "check"
  /\ ~empty
  /\ held' = [held EXCEPT ![w] = Head(tasks)]
  /\ PopFront
  /\ fate' = [fate EXCEPT ![Head(tasks)] = "taken"]
  /\ NotifyNotFull
  /\ wpc' = [wpc EXCEPT ![w] = "taken"]
  /\ UNCHANGED <<stop, reject_policy, active_submits, submitted_tasks, completed_tasks,
                 busy_workers, failed_tasks, call, cpc, future>>

WorkerBusy(w) ==
  /\ wpc[w] = "taken"
  /\ busy_workers' = busy_workers + 1
  /\ wpc' = [wpc EXCEPT ![w] = "executing"]
  /\ UNCHANGED <<tasks, stop, reject_policy, active_submits, submitted_tasks,
                 completed_tasks, failed_tasks, pc, call, held, cpc, fate, future>>

(* Mutant: an exception is swallowed and the promise left as it is.        *)
OutcomeSwallowed(f, throws) == IF f # "pending" \/ throws THEN f ELSE "value"

(* The std::packaged_task stores what the callable returned or threw.      *)
Outcome(f, throws) == CASE f # "pending" -> f
                        [] f = "pending" /\ throws -> "exception"
                        [] f = "pending" /\ ~throws -> "value"

(* task.execute(): an exception goes into the future, or without a future  *)
(* into failed_tasks.                                                      *)
WorkerExecute(w, throws) ==
  LET t == held[w]
  IN  /\ wpc[w] = "executing"
      /\ fate' = [fate EXCEPT ![t] = "done"]
      /\ future' = [future EXCEPT ![t] = Outcome(@, throws)]
      /\ failed_tasks' = IF throws /\ future[t] = "none" THEN failed_tasks + 1
                                                         ELSE failed_tasks
      /\ wpc' = [wpc EXCEPT ![w] = "executed"]
      /\ UNCHANGED <<tasks, stop, reject_policy, active_submits, submitted_tasks,
                     completed_tasks, busy_workers, pc, call, held, cpc>>

WorkerUnbusy(w) ==
  /\ wpc[w] = "executed"
  /\ busy_workers' = busy_workers - 1
  /\ wpc' = [wpc EXCEPT ![w] = "unbusied"]
  /\ UNCHANGED <<tasks, stop, reject_policy, active_submits, submitted_tasks,
                 completed_tasks, failed_tasks, pc, call, held, cpc, fate, future>>

(* completed_tasks.fetch_add, then the loop body ends and its Task dies.   *)
WorkerComplete(w) ==
  /\ wpc[w] = "unbusied"
  /\ completed_tasks' = completed_tasks + 1
  /\ held' = [held EXCEPT ![w] = NULL]
  /\ wpc' = [wpc EXCEPT ![w] = "check"]
  /\ UNCHANGED <<tasks, stop, reject_policy, active_submits, submitted_tasks,
                 busy_workers, failed_tasks, pc, call, cpc, fate, future>>

SpuriousWorker(w) ==
  /\ wpc[w] = "waiting"
  /\ wpc' = [wpc EXCEPT ![w] = "check"]
  /\ UNCHANGED <<poolVars, pc, call, held, cpc, fate, future>>

-----------------------------------------------------------------------------
(* shutdown() and the destructor.                                          *)

(* The destructor must not run beside another member call than submit.     *)
MayClose(c) == IF c = Destroyer
               THEN \A d \in Closers : cpc[d] = "out" \/ d \in Returned
               ELSE cpc[Destroyer] = "out"

CloserStep(c, from, to) == cpc[c] = from /\ cpc' = [cpc EXCEPT ![c] = to]

(* The critical section: only the first call stops the pool.               *)
Shutdown(c) ==
  /\ MayClose(c)
  /\ stop' = TRUE
  /\ CloserStep(c, "out", IF stop THEN "skipped" ELSE "notifyCv")
  /\ UNCHANGED <<tasks, reject_policy, active_submits, submitted_tasks, completed_tasks,
                 busy_workers, failed_tasks, pc, call, wpc, held, fate, future>>

(* Mutant: sleeping workers are not told.                                  *)
NotifyAllCvNot == UNCHANGED wpc

NotifyAllCv == wpc' = NotifyAll(wpc, "waiting", "check")

ShutdownNotifyCv(c) ==
  /\ CloserStep(c, "notifyCv", "notifyNotFull")
  /\ NotifyAllCv
  /\ UNCHANGED <<poolVars, pc, call, held, fate, future>>

(* Mutant: blocked producers are not told.                                 *)
NotifyAllNotFullNot == UNCHANGED pc

NotifyAllNotFull == pc' = NotifyAll(pc, "blocked", "enqueue")

ShutdownNotifyNotFull(c) ==
  /\ CloserStep(c, "notifyNotFull", "awaitSubmits")
  /\ NotifyAllNotFull
  /\ UNCHANGED <<poolVars, call, wpc, held, fate, future>>

(* Mutant: submits in flight are not waited for.                           *)
SubmitsIgnored == TRUE

SubmitsDone == active_submits = 0

ShutdownAwaitSubmits(c) ==
  /\ SubmitsDone
  /\ CloserStep(c, "awaitSubmits", "join")
  /\ UNCHANGED <<poolVars, pc, call, wpc, held, fate, future>>

ShutdownJoin(c) ==
  /\ Exited = Workers
  /\ CloserStep(c, "join", "joined")
  /\ UNCHANGED <<poolVars, pc, call, wpc, held, fate, future>>

(* The members die, and with the ring the tasks that never ran.            *)
Destroy ==
  /\ Destroyer \in Returned
  /\ cpc[Destroyer] # "destroyed"
  /\ cpc' = [cpc EXCEPT ![Destroyer] = "destroyed"]
  /\ future' = [t \in Tasks |-> IF fate[t] = "queued" THEN Abandon(future[t])
                                                      ELSE future[t]]
  /\ UNCHANGED <<poolVars, pc, call, wpc, held, fate>>

-----------------------------------------------------------------------------
Init ==
  /\ tasks = <<>>
  /\ stop = FALSE
  /\ reject_policy \in Policies
  /\ active_submits = 0
  /\ submitted_tasks = 0
  /\ completed_tasks = 0
  /\ busy_workers = 0
  /\ failed_tasks = 0
  /\ pc = [p \in Producers |-> "out"]
  /\ call = [p \in Producers |-> NULL]
  /\ wpc = [w \in Workers |-> "check"]
  /\ held = [w \in Workers |-> NULL]
  /\ cpc = [c \in Closers |-> "out"]
  /\ fate = [t \in Tasks |-> "new"]
  /\ future = [t \in Tasks |-> "none"]

(* The steps a thread takes once it is inside the pool's code.             *)
ProducerStep(p) ==
  \/ CheckStop(p) \/ WaitNotFull(p) \/ RejectFull(p) \/ RejectStopped(p)
  \/ TryRefuse(p) \/ Push(p) \/ NotifyWorker(p) \/ Leave(p)

WorkerStep(w) ==
  \/ WorkerWait(w) \/ WorkerExit(w) \/ WorkerTake(w) \/ WorkerBusy(w)
  \/ \E throws \in BOOLEAN : WorkerExecute(w, throws)
  \/ WorkerUnbusy(w) \/ WorkerComplete(w)

ShutdownStep(c) ==
  \/ ShutdownNotifyCv(c) \/ ShutdownNotifyNotFull(c)
  \/ ShutdownAwaitSubmits(c) \/ ShutdownJoin(c)

(* The program is over: the pool is gone and no thread is inside it.       *)
Terminated ==
  /\ cpc[Destroyer] = "destroyed"
  /\ InCall = {}
  /\ UNCHANGED vars

Next ==
  \/ \E p \in Producers : \/ \E kind \in Kinds, t \in Tasks : Enter(p, kind, t)
                          \/ ProducerStep(p)
                          \/ SpuriousProducer(p)
  \/ \E w \in Workers : WorkerStep(w) \/ SpuriousWorker(w)
  \/ \E c \in Closers : Shutdown(c) \/ ShutdownStep(c)
  \/ Destroy
  \/ Terminated

Spec == Init /\ [][Next]_vars

(* Every thread that can take a step inside the pool eventually does; in   *)
(* particular a thread waiting for mtx eventually gets it.  Clients need   *)
(* not call, and nobody is woken spuriously on purpose.                    *)
FairSpec ==
  /\ Spec
  /\ \A p \in Producers : WF_vars(ProducerStep(p))
  /\ \A w \in Workers : WF_vars(WorkerStep(w))
  /\ \A c \in Closers : WF_vars(ShutdownStep(c))

-----------------------------------------------------------------------------
(* Properties.                                                             *)

(* The variables have their types; in particular the ring never holds more *)
(* tasks than it has slots.                                                *)
TypeOK ==
  /\ tasks \in Seq(Tasks) /\ Len(tasks) <= Capacity
  /\ stop \in BOOLEAN
  /\ reject_policy \in Policies
  /\ active_submits \in Int
  /\ submitted_tasks \in Nat
  /\ completed_tasks \in Nat
  /\ busy_workers \in Int
  /\ failed_tasks \in Nat
  /\ pc \in [Producers -> {"out", "checkStop", "enqueue", "blocked", "notify", "leaving"}]
  /\ call \in [Producers -> [kind : Kinds, task : Tasks] \cup {NULL}]
  /\ \A p \in Producers : pc[p] # "out" => call[p] # NULL
  /\ wpc \in [Workers -> {"check", "waiting", "taken", "executing", "executed",
                          "unbusied", "exited"}]
  /\ held \in [Workers -> Tasks \cup {NULL}]
  /\ \A w \in Workers : held[w] = NULL <=> wpc[w] \in {"check", "waiting", "exited"}
  /\ cpc \in [Closers -> {"out", "notifyCv", "notifyNotFull", "awaitSubmits", "join",
                          "joined", "skipped", "destroyed"}]
  /\ fate \in [Tasks -> {"new", "calling", "queued", "taken", "done", "discarded",
                         "threw", "refused"}]
  /\ future \in [Tasks -> {"none", "pending", "value", "exception", "broken"}]

(* The counters agree with what the threads are doing: shutdown() may rely *)
(* on active_submits = 0, and the metrics balance.                         *)
Accounting ==
  /\ active_submits = Cardinality(InCall)
  /\ busy_workers = Cardinality(Busy)
  /\ submitted_tasks = completed_tasks + Len(tasks) + Cardinality(InHand)

(* No wake-up is lost on cv or not_full_cv: while a worker sleeps, every   *)
(* queued task has a worker or a notification on its way; while a producer *)
(* is blocked, every free slot has an awake producer coming for it; and    *)
(* after stop, whoever still sleeps will be notified by shutdown().        *)
NoLostWakeup ==
  /\ Waiting # {} /\ ~stop =>
       Len(tasks) <= Cardinality({w \in Workers : wpc[w] = "check"})
                     + Cardinality({p \in Producers : pc[p] = "notify"})
  /\ Blocked # {} /\ ~stop =>
       Capacity - Len(tasks) <= Cardinality({p \in Producers : Enqueuing(p)})
  /\ Waiting # {} /\ stop => \E c \in Closers : cpc[c] = "notifyCv"
  /\ Blocked # {} /\ stop =>
       \E c \in Closers : cpc[c] \in {"notifyCv", "notifyNotFull"}

(* Graceful shutdown: when the shutdown() that stopped the pool returns,   *)
(* the workers are gone and every task ever accepted has been executed.    *)
DrainedOnJoin ==
  Workers # {} /\ (\E c \in Closers : cpc[c] = "joined") =>
    /\ Exited = Workers
    /\ tasks = <<>>
    /\ \A t \in Tasks : fate[t] \notin {"queued", "taken"}
    /\ completed_tasks = submitted_tasks

(* When ~ThreadPool() has destroyed the members, no worker is left to      *)
(* touch them, whoever shut the pool down; and no submit is in flight if   *)
(* the destructor's shutdown() is the only one ever called.  With another  *)
(* before it the destructor finds stop set and skips the wait.             *)
DestroyedQuiescent ==
  cpc[Destroyer] = "destroyed" =>
    /\ Exited = Workers
    /\ (\A c \in Closers \ {Destroyer} : cpc[c] = "out") => InCall = {}

(* No client waits forever on a future: when the pool is gone, every       *)
(* future that submit() returned has a value, an exception, or a broken    *)
(* promise.                                                                *)
FuturesResolved ==
  cpc[Destroyer] = "destroyed" =>
    \A t \in Tasks : future[t] = "pending" => fate[t] = "calling"

(* submit() after shutdown throws: once a shutdown() has joined the        *)
(* workers, a submit or submitVoid can end in no other way.                *)
LateSubmitThrows ==
  [][\A p \in Producers :
       /\ \E c \in Closers : cpc[c] = "joined"
       /\ Enqueuing(p) /\ pc'[p] # "enqueue"
       => fate'[call[p].task] = "threw"]_vars

(* What clients see of the pool: a task that a call is still offering is   *)
(* as good as new, and shutdown() is over for good once it has joined the  *)
(* workers.                                                                *)
Joined == cpc[Destroyer] = "destroyed" \/ \E c \in Closers : cpc[c] = "joined"

SeenAs(f) == CASE f \in {"new", "calling"} -> "new"
               [] f = "queued" -> "waiting"
               [] f = "taken" -> "running"
               [] f = "done" -> "done"
               [] f \in {"discarded", "threw", "refused"} -> "refused"

SeenTasks == [t \in Tasks |-> SeenAs(fate[t])]

SeenPhase == CASE ~stop -> "open"
               [] stop /\ ~Joined -> "closing"
               [] stop /\ Joined -> "closed"

Service == INSTANCE PoolService WITH Jobs <- Tasks, Slots <- Capacity,
                                     waiting <- tasks, at <- SeenTasks, phase <- SeenPhase

(* With all its threads, locks and notifications the pool is that service: *)
(* tasks start in the order in which they were accepted, each once; none   *)
(* is accepted once stop is set; and shutdown() returns when all have run. *)
ImplementsService == Service!Spec

(* An accepted task is eventually executed.                                *)
AcceptedRuns == \A t \in Tasks : fate[t] = "queued" ~> fate[t] = "done"

(* A submit, submitVoid or trySubmit call eventually returns or throws.    *)
CallsReturn == \A p \in Producers : pc[p] # "out" ~> pc[p] = "out"

(* shutdown() eventually returns.                                          *)
ShutdownReturns == \A c \in Closers : cpc[c] = "notifyCv" ~> c \in Returned
=============================================================================
