# A TLA+ model of the low-latency engine

This directory specifies and verifies the repository: its two thread pools, the
queues and deques they are built on, the gate that protects a growing deque, the
pool of tasks, the tracing of tasks, the rounding of capacities and the pipeline
demo. Paths below are relative to the repository root (`include/`, `src/`,
`app/`, `tests/`).

## 1. The system

| component | state | operations | interacts with |
|---|---|---|---|
| `ThreadPool` | `tasks` (ring), `stop`, `active_submits`, metrics, `mtx`, `cv`, `not_full_cv` | `submit`, `submitVoid`, `trySubmit`, `shutdown`, destructor, worker loop, getters | clients call it; it runs their tasks; owns a `RingBuffer<Task>` |
| `WorkStealingThreadPool` | `incoming_`, one deque per worker, `stop_`, counters, `mtx_`, `cv_`, `not_full_cv_` | as above; workers pop, refill, steal, sleep | owns a `LockFreeQueue<Task>` and `WorkStealingDeque<Task>`s |
| `RingBuffer`, `LockedRingBuffer` | slots, `head`, `tail`, `size_` (and a mutex) | `push`, `pop`, `empty`, `full` | `ThreadPool`; benchmarks |
| `LockFreeQueue` | cells with a `sequence`, `head_`, `tail_` | `push`, `pop`, `empty`, `full` | entrance of `WorkStealingThreadPool` |
| `WorkStealingDeque` (V1) | `top_`, `bottom_`, cells with pointer and round | `push`, `pop` (owner), `steal` (thieves) | `WorkStealingThreadPool` |
| `WorkStealingQueue` (V2) | growable array of cells, `top`, the owner's private `bottom_` | `push` with `grow`, `pop`, `steal`, `stealBatch`, `empty` | `LightEpoch`; tests and benchmarks |
| `LightEpoch` | `gate_`, `active_` | `enter`, `exit`, `QuiesceWindow` | `WorkStealingQueue` |
| `SPSCRingBuffer` | slots, `head_`, `tail_` | single and batch push and pop | tests and benchmarks |
| `MemoryPool` | blocks of `Task`s and a free list | `acquire`, `release` | `Task`; tests and benchmarks |
| task tracing | `trace_enabled`, `trace_sink` in both pools | `setTraceSink`, `makeTraceableTask` | both pools |
| `NextPowerOfTwo` | none (a pure function) | rounding with an overflow check | every ring and queue |
| `Task`, `Worker` | a `std::function`, a `std::thread` | `setFunction`, `execute`, `reset`, `join` | both pools, `MemoryPool` |
| `app/pipeline_demo.cpp` | counters, a sink of samples | producers, tasks, the polling main thread | `ThreadPool`, `LockFreeQueue` |

What is hard here: notifications sent outside the mutex, reads of `stop` and of
counters that are stale when used, tasks handed from queue to queue by several
threads, shutdown racing submits and itself, sequence numbers and indices at
their wrap-around, and (in the lock-free deques) memory ordering. `PROJECT.json`
lists each hazard at its line with the property that would catch it going wrong.

What makes the components correct:

* a pool runs every task it accepts, once; wakes who must be woken; returns from
  `shutdown()`; resolves every future; and is not in use when it is destroyed;
* a queue is a bounded FIFO: it loses, duplicates and reorders nothing (that it
  refuses only when full or empty is not stated: a refusal leaves it as it is);
* `LightEpoch` keeps thieves out while the owner of a deque replaces its array,
  and lets both sides get on afterwards;
* a deque hands each item to the owner or to one thief, and loses none;
* the task pool hands each task to one holder, and clean;
* a task reports to a sink that was in force when it was submitted, once;
* the demo's result counts every task.

## 2. Modules

`ThreadPool` models `include/ThreadPool.h` and `src/ThreadPool.cpp`. A critical
section of `mtx` is one step; what the code does outside `mtx` (the in-flight
counter, `notify_one` after the unlock, the metrics around `execute`, each phase
of `shutdown`) is a step of its own. `pc`, `wpc` and `cpc` say where each client,
worker and closer is; a condition variable is the set of threads at `"blocked"`
or `"waiting"`, and a wake-up (also a spurious one) sends a thread back to its
predicate. `fate` and `future` follow each task. `LateSubmits` says whether
clients start calls after a `shutdown()` has returned: the lifetime comment
forbids it, the tests do it and expect the exception.

`PoolService` is the abstract pool, as its clients see it: a task is accepted or, for
want of room or because the pool is closing, refused; accepted tasks start in order and
run once; and the pool is closed when everything accepted has run. `ThreadPool` is shown
to implement it (`ImplementsService`): `SeenAs` maps `fate` to what a client can tell
apart, `SeenPhase` reads the phase off `stop` and the closers.

`BoundedFifo` is the abstract queue. `RingBuffer` (also standing for
`LockedRingBuffer`, which wraps every call in one critical section),
`LockFreeQueue` and `SPSCRingBuffer` are shown to implement it. `ThreadPool` uses the abstract queue
directly, as the sequence `tasks`. `LockFreeQueue` takes one step per atomic
access: the load of the position, the look at the cell's `sequence`, the
`compare_exchange_weak` (which may fail spuriously), the move of the payload and
the store that publishes it. Its atomics are modelled as sequentially consistent:
all inter-thread ordering goes through a release store and an acquire load of the
same `sequence`. `SPSCRingBuffer` sizes a batch by one load of the other side's
index, moves slot by slot while the other side goes on, and then publishes; the
single operations are batches of one. Its indices are words that wrap around.

`NextPowerOfTwo` gives the capacity that a constructor makes of its argument:
both paths of `nextPowerOfTwoSafe` (the smearing of bits and `clz`), on words of
`WordBits` bits. A word is the set of its one bits where the code works on bits; powers of
two and the value of a word are recursive functions, so that they can be proved about.
`RingBuffer` and `SPSCRingBuffer` are constructed through it. `CapacityRounding` is the
calls of it, by the compiler or at run time, and what they return.
`Common` declares what the small modules share.

`WorkStealingThreadPool` models the pool of the same name with its queues as
atomic objects, linearised where the operation claims its element. What can be
seen of the lag behind a claim is kept: a push may fail while a pop still holds
its cell (`PushFails`), a pop may miss a push that is not published
(`FillMiss`), a deque with thieves may have positions without an item, so that a pop may
miss the items below one and a push may refuse early (`HollowPositions`), and `allEmpty()` reads queue by queue and loads `tail_` before `head_`.
`mtx_` is explicit, because notifications are sent without it: a thread is
`"drowsy"` between a false predicate and its sleep, which happen under `mtx_`,
and a notifier can get in between. The seven atomic counters are fields of `count`.

`LightEpoch` models `include/LightEpoch.h`: the life of a thief's `Guard`
(`enter()`, `exit()`) and of the owner's `QuiesceWindow`, one atomic access per
step. The owner's store to `gate_` and its loads of `active_` are what the fence
at line 50 orders, so the owner has a store buffer as on x86: `Close` and `Open`
append to it, `Drain` moves the oldest store to memory, and the fence waits until
it is empty. Thieves change `active_` by locked instructions and store nothing
else, so they need no buffer.

`WorkStealingQueue` EXTENDS `LightEpoch`: each step of a `Guard` or of the
`QuiesceWindow` is taken together with the queue's. Thieves hold the number of
the array they loaded (`sa`); `grow` moves the items, publishes the next array and
deletes the old one in one step inside the window, since the theorem of
`LightEpoch` and `NoThiefInWindow` say that nobody looks. `quota` tells `steal`
(1), `stealBatch` (more) and `empty` (0) apart. `raced` records that the fast path
of `pop` and a thief went for the same position.

`WorkStealingDeque` gives the owner a store buffer of `depth` entries, because
its `pop` stores `bottom_` and then loads `top_`; depth 0 is sequential
consistency. The owner's own loads see the last store still on its way (`Pending`,
`Load`), which is what `ownBottom`, `ownData` and `ownRound` stand for; thieves see
memory. `raced` records that a thief claimed a position which the owner had
withdrawn from `bottom_` without competing for it (`Withdrawn`). In both deques
`handed` counts how often an item was handed out.

`MemoryPool` models `acquire` and the push of `release` as critical sections of
`mtx_`, with `reset()` outside; callers release what they acquired, once. A task is
its address: a block and a place in it.

`TaskTracing` models `setTraceSink` and `makeTraceableTask`, which are the same in
both pools: two stores whose order depends on the argument, two loads, the id,
the refusal or execution of the task and the callback. The body of a task returns to the
wrapper whatever its callable does (`packaged_task` or the catch of `submitVoid`,
`include/ThreadPool.h:137-143`, keeps an exception in), so it has no failing branch. `standing` holds the calls
of `setTraceSink` that no later call has replaced, `usable` the sinks that a
submit under way may see.

`PipelineDemo` composes a pool and a queue at what their own modules show: an
accepted task runs once and is counted afterwards, the queue is a bounded FIFO.

`MCComponents` runs the components that stand alone, one per behaviour.

The theorems (section 5) are in modules that extend the component's:
`ThreadPoolProofs`, `LightEpochProofs`, `LockFreeQueueProofs`,
`WorkStealingThreadPoolProofs`, `WorkStealingQueueProofs` (on top of
`LightEpochProofs`), `WorkStealingDequeProofs`, and `ComponentProofs` for the rounding,
the two ring buffers, the task pool, the tracing and the demo. `IndexArithmetic` has the
lemmas about positions modulo a capacity that the rings, queues and deques share, and
induction over the naturals with the recursive functions and sums that rest on it.

Definitions whose comment starts with "Mutant" are never part of a
specification: each is a plausible mistake in the definition that follows it, and
shows that the property it is paired with in `PROJECT.json` notices.

## 3. Runs

| run | instance | what it shows |
|---|---|---|
| `pool_safety` | 2 producers, 2 workers, `shutdown()` beside the destructor, 3 tasks, 1 slot, all policies, late submits | counters agree with the threads; no wake-up is lost; `shutdown()` drains; no worker outlives the pool, and no submit if only the destructor shut it down; futures are resolved; a late submit throws; the pool is the service of `PoolService`: each accepted task runs once, none is accepted after `stop` |
| `pool_liveness` | 2 producers, 1 worker, destructor only, 2 tasks, 1 slot, all policies, fairness | accepted tasks run, calls return, `shutdown()` returns |
| `components` | `LockFreeQueue`: 2 producers, 2 consumers, 2 cells, 4 items; `RingBuffer`: requests 0, 2, 3 and a refused 9, 2 items, 2 consumers; `SPSCRingBuffer`: the same requests, batches up to 3, 4-bit indices; `CapacityRounding`: every 4-bit word, on both paths; `MemoryPool`: initial capacities 0 to 2, expandable or not, up to 4 tasks, 2 holders; `TaskTracing`: 2 setters, 2 submits; `PipelineDemo`: 2 producers of 2 tasks, 2 workers, a queue of 2, a sink of 3 | the three queues are bounded FIFOs, no cell or slot has two users, indices and slots of the ring agree; rounding is right on both paths; a task of the pool has one holder and is clean when free; a submit sees a sink in force and reports to it once, with an id of its own; the demo's result adds up |
| `wst_safety` | 1 worker, 2 producers, 3 tasks, 2 slots, batch of 3, all policies | counters that steer notifications, metrics, no task lost or duplicated on the way, full entrance and full deque |
| `wst_steal` | 2 workers, 2 producers, 2 tasks | stealing duplicates nothing; what was accepted before `stop_` runs before `shutdown()` returns |
| `wst_liveness` | 1 worker, 1 producer, 3 tasks, BLOCK, fairness | `shutdown()` returns whatever notifications were lost before |
| `wst_lost_task` | violation | see finding 1 |
| `wst_stranded` | violation | see finding 2 |
| `wsq` | 2 thieves, first array of 1, 3 pushes, batches up to 2, fairness | no thief is inside a window or holds a deleted array; `active_` does not underflow; an item is handed out once; none is lost but by finding 3; waiting thieves get in; a push returns, its growth included |
| `deque` | 2 thieves, 2 cells, 4 pushes, store buffer of 0 and of 2, fairness | an item is handed out once; none is lost but by finding 4, which needs the store buffer; at rest every item is where `size()` counts it and the destructor deletes it; a push returns |
| `wsq_lost` | violation | see finding 3 |
| `deque_tso` | violation | see finding 4 |

Bounds. Each task is submitted at most once and the number of tasks bounds the
behaviours. One slot with two producers is enough for every policy to meet a full
queue and for two producers to compete for a freed slot; three tasks let one be
queued, one be held and one be offered; two workers compete for tasks and for
notifications. That tasks start in the order of acceptance needs more than one slot to be
visible: it is in the theorem, which has any number of slots. The two tasks of
`pool_liveness` let one producer be blocked at a time (a third is beyond five minutes):
two producers blocked for one slot are in `pool_safety`, where `NoLostWakeup` is about them. Two cells with four items lap the lock-free queue, so a thread
that was delayed by a whole round is covered. Words of four bits let the indices
of the single-producer ring wrap many times in rings of one, two and four slots,
and give `NextPowerOfTwo` every edge of a 64-bit word. A sink of three for four
samples makes the demo drop one. Three pushes into a first array of one make the
queue grow twice; four into two cells make the deque wrap around, and are the least
for a late thief to take the item of a later position than it claimed (section 4);
two thieves can meet each other and the owner. A store buffer of two is
deep enough for pop's store to be late together with the last store of the push
before it; deeper ones are left out for their cost. Three tasks with a batch of
three and a deque of two make `fillLocalBatch` overflow. Threads and tasks of one
kind are interchangeable in the safety runs and declared symmetric there, except
the numbered workers of the stealing pool; so are the producers and the setters
in `components`, whose refinements are safety properties. The liveness runs use no
symmetry.

Fairness. `FairSpec` assumes that a thread inside the pool's code that can take a
step eventually does (the operating system schedules it, and a mutex that is
released again and again is eventually obtained), and that a user task ends.
Clients are not assumed to call, and no spurious wake-up is assumed to happen. In
the stealing pool `mtx_` is explicit, so obtaining it is a strong-fairness
assumption, and a `compare_exchange_weak` in a retry loop is assumed not to fail
forever. In `LightEpoch` and both deques it also assumes that a store in the buffer
reaches memory in the end, which hardware guarantees; the owner and the thieves
are only assumed to finish the calls they make. `ThievesEnter` speaks of behaviours in
which the owner stops opening windows, since nothing keeps an owner that reopens
and closes the gate at once from always being faster.

Deadlock is checked in every run: a state without a step is an error unless the
pool is destroyed and every client is outside it (`Terminated`). Only `wsq` and
`deque` switch it off: after `Destroy` nothing is left to do.

## 4. Findings

1. `wst_lost_task`. The fast path of `enqueueTask` reads `stop_` and pushes without
   a lock (`src/WorkStealingThreadPool.cpp:167`); if `shutdown()` and the workers'
   last look at the queues fall in between, an accepted task is never run.
2. `wst_stranded`. `cv_.notify_one()` is called without `mtx_`
   (`src/WorkStealingThreadPool.cpp:169`), so it can fall between a worker's
   predicate and its sleep: the worker sleeps beside an accepted task until the
   next submit or `shutdown()`. The same window exists for BLOCK producers at
   lines 86 and 107; `wst_liveness` shows that `shutdown()` repairs both.
3. `wsq_lost`. `QueueWorker::pop` decides on one load of `top` that position
   `b - 1` is its own (`include/WorkStealingQueue.h:227`). Before its exchange, a
   thief may steal what is before it and then claim `b - 1`; the thief comes away
   empty, `bottom_` ends below `top`, and the next push goes to a position that
   nobody visits. `LostOnlyByStalePop` says that nothing else loses an item; it is
   proved for every number of thieves, pushes and growths.
4. `deque_tso`. `WorkStealingDeque::pop` stores `bottom_` relaxed and loads `top_`
   without a fence (`include/WorkStealingDeque.h:71-73`). On x86 the store may be
   late, so that pop and a thief go for the same position, with the same outcome
   as in 3. `RaceNeedsReordering` says that the store buffer is needed, and
   `LostOnlyByRace` that nothing else loses an item; both are proved.
   `WorkStealingThreadPool` uses this deque; its model takes it as atomic, so its
   runs and theorems show what the pool does with a deque that works.

Smaller ones, without a run of their own:

* `shutdown()` returns at once when `stop` is already set
  (`src/ThreadPool.cpp:56`). After an explicit `shutdown()` the destructor's own
  call waits for nobody, and a `submit()` that started while the first was joining
  can be inside the pool when its members die, against
  `include/ThreadPool.h:35-36`. Without the condition of its second conjunct (nobody
  but the destructor has called `shutdown()`) TLC refutes `DestroyedQuiescent` in
  `pool_safety`.
* With one cell, the `sequence` that a push of `LockFreeQueue` publishes is the one
  that the next push expects (`include/LockFreeQueue.h:31`): the queue is never
  full and a second push overwrites the first item. `ImplementsFifo` with
  `Capacity = 1` shows it.
* A `pop` of `WorkStealingDeque` that loses the last item sets `bottom_` to `t + 1`
  (`include/WorkStealingDeque.h:99-100`), and its comment says that `bottom_` then
  equals `top_`. But the failed `compare_exchange` has reloaded `t`, so `bottom_`
  ends one beyond `top_`: an empty position is left behind. `size()` then counts
  items that are not there, a `pop` may answer false with items below, and a thief
  that claims the empty position late may come away with the item of a later one.
  None of this loses or repeats an item (`LostOnlyByRace`, `TakenOnce`,
  `SizeAtRest`, all proved).
* With zero workers, which tests use, and DISCARD or a full THROW queue, a
  `submit()` after `shutdown()` is answered for the full queue and not for the stop
  (`src/ThreadPool.cpp:91`). This is why `PoolLateSubmitThrows` assumes a worker.
* A trace sink that throws leaves the worker's thread function and ends the
  process, although the comment at `src/ThreadPool.cpp:39-40` says that no
  `try` is needed; `idle()` (line 192) may be true while a worker holds a task it
  has popped and not counted yet.

## 5. Proofs

Every safety property that a run expects to hold is also a theorem. Each proof has the
same three parts: the initial states satisfy an inductive invariant, every action keeps
it (one lemma per action or per kind of step), and it implies the property. The bounds of the runs are constants of the
theorems: any finite number of threads, any number of tasks or pushes, any capacity
unless a hypothesis is stated below.

**`ThreadPoolProofs`**, for any producers, workers, closers, tasks and policies:

* `PoolTypeOK`: the type invariant, which is inductive by itself;
* `PoolOneOwner`: a task is queued once or in one worker's hands, never both.
  `OneOwner` is what `ImplementsService` rests on. It is not inductive: a worker could be
  holding a task that is also queued, or two producers could be offering one task.
  `OwnerInv` adds `Placed`, which ties `fate` to the place where the task is;
* `PoolAccounting`: `active_submits`, `busy_workers` and the submitted/completed
  balance; inductive with the types, from the theorems on finite cardinalities;
* `PoolNoLostWakeup`: nobody sleeps beside a task, a free slot or a set `stop` that
  nobody is coming for. It counts wakers (workers at the predicate, producers about
  to notify, producers about to enqueue) against tasks and free slots. It needs only
  one fact more, `OnlySubmitBlocks`: a woken producer is not a `trySubmit`, which
  would go away with the slot's notification;
* `PoolDrainedOnJoin`: `shutdown()` returns with every accepted task executed. The
  induction is over `ExitedMeansDrained`: once a worker has left, the pool is
  stopped and its queue is empty, and stays so because `stop` is checked under the
  mutex under which a task is pushed;
* `PoolFuturesResolved`: no future is left pending by a pool that is gone. `Stopped`
  follows the closers (the destructor's own `shutdown()` may have nothing to do, but
  only after another one has returned), `OpenPromises` the tasks whose promise is
  open;
* `PoolIsService`: with at least one worker, every step is a step of `PoolService` or
  leaves what clients see as it is. `OwnerInv` says that a task about to be accepted or
  refused is still new to the service, that the one at the head of the queue is waiting and
  that the one being executed is running; `ExitedMeansDrained` that `shutdown()` returns
  with nothing left; `StoppedByOne` that a `shutdown()` with nothing to do, the
  destructor's included, comes after the one that closed the pool. With no worker a
  `shutdown()` returns beside queued tasks, which is why one is assumed;
* `PoolLateSubmitThrows`: with at least one worker, a `submit()` after the join can
  only throw (the queue is empty, so no policy answers first);
* `PoolDestroyedQuiescent`: no worker is left when the members die, which is `Stopped`
  again, and no submit if the destructor makes the only call of `shutdown()`. For that
  `DestructorInv` follows the destructor while it is `Alone`: its call is the one that
  sets `stop`, after its wait there is no call in flight and, the object being in
  destruction, none can start. Section 4 says why the condition, and the hypothesis of
  `PoolLateSubmitThrows`, are needed.

**`LightEpochProofs`**, for any finite set of thieves:

* `EpochNoThiefInWindow`: no thief is inside while a window is open. The invariant
  `EpochInv` adds `ActiveCounts` (`active_` is the number of registered thieves,
  those that will undo it included) and `GateClosed` (past the fence the buffer is
  empty and memory holds a closed gate). A window then opens with nobody
  registered, and whoever registers during it finds the gate closed;
* `EpochTypeOK`: `active_` stays between zero and the number of thieves.

**`WorkStealingQueueProofs`**, for any finite set of thieves, first capacity, number
of pushes and batch size; every step of the queue is a step of `LightEpoch` or a
stutter, so the invariant of `LightEpoch` is available:

* `QueueNoUseAfterFree`: a thief past its load of `top` is inside its `Guard`, and
  `grow` replaces the array only while nobody is (`ArrayInv`);
* `QueueTakenOnce`: `ItemInv` adds that an item still to be pushed is nowhere
  (`Unused`) and that `bottom_ - top` is at most the capacity (`Positions`), without
  which `grow` could copy an item twice;
* `QueueLostOnlyByStalePop`: as long as no pop has raced a thief, each pushed item is
  in a cell whose `round` names a position that the owner or a thief will visit.
  `KeepInv` says how: a claimed position has one claimant (`Claims`), a thief about
  to claim is at most at the position the owner withdrew (`CasInReach`), `top` passes
  `bottom_` by one at most and only through a thief that has claimed the position
  and is yet to empty it, or has (`Ahead`), what the owner holds between its steps
  (`OwnerHas`), and that a thief's exchange and its late clearing of a round only
  meet items of its own position or a later one (`ThiefHas`).

**`WorkStealingDequeProofs`**, for any finite set of thieves, capacity, number of
pushes and depth of the store buffer:

* `DequeTakenOnce`: an item is in one place of the cells and the store buffer until
  one exchange gets it: `ItemInv` makes the items in memory and those still in the
  buffer distinct, and none of them handed out yet;
* `DequeLostOnlyByRace`: `ReachInv` is `Locals` and, while no race has happened,
  `Live`: `bottom_` as the owner sees it is not behind `top_` unless the owner is
  about to bring it back (`Ahead`), a cell's round is one of its own positions
  (`RoundOfCell`), the late steps of a thief do not reach an item pushed after its
  claim (`Claims`), and the push in progress and the items in the cells are where they
  should be (`PushInProgress`, `Kept`);
* `DequeRaceNeedsReordering`: with depth 0 a thief that has seen `bottom_` beyond its
  position is still behind `bottom_` or `top_`, unless `pop` is about to look at
  `top_` (`InOrder`);
* `DequeSizeAtRest`: from `ReachInv`, at rest every item is between `top_` and
  `bottom_`, and there are at most `Capacity` positions.

**`LockFreeQueueProofs`**, for any producers, consumers and items and every
`Capacity > 1` (section 4 says what happens at 1):

* `QueueCellExclusive`: the last `Capacity` positions claimed for a push are a window
  with one position per cell, and the `sequence` of a cell tells the stage of its
  position: claimed by a push, published, claimed by a pop, free (`Stages`). A thread
  whose `compare_exchange` succeeds therefore finds the cell as it saw it (`Ready`),
  however far it had been lapped in between;
* `QueueRefinesFifo`: with `Stored` (a claimed position that is past its write holds
  the item pushed there), every step is a step of `BoundedFifo` or a stutter: a push
  takes effect at its claim, a pop at its claim, and what the pop reads later is the
  item of the position it claimed.

**`WorkStealingThreadPoolProofs`**, for any number of workers, producers, closers and
tasks, any batch size, any policies and any capacity above one, which the pool's
entrance needs:

* `StealingTypeOK`: with the fact that a worker has a task in its hands exactly from
  the pop or steal to the end of `executeTask` or the store into its deque;
* `StealingOnePlace`: the entrance and the deques are one family of queues, and each
  step leaves them alone, puts one task in or takes one out; `Located` says that the
  accepted tasks that have not run are exactly those in one queue or in one worker's
  hands, `Offers` that two calls never offer one task;
* `StealingAcceptedBeforeStopRun`: `DrainInv` is about a worker in the scan of
  `allEmpty()`: its own deque, which nobody else fills, is empty once it is past it, and the
  `tail_` it has read covers every task accepted before `stop_`. When the last worker
  has left, what was accepted before `stop_` has run;
* `StealingCounted`: `CountInv` gives each counter as the number of threads at certain
  steps, and the metrics as differing by the tasks on their way.

**`ComponentProofs`**:

* `RoundingIsLeastPower`: for every word width and every word, both paths of
  `nextPowerOfTwoSafe` give the least power of two that is not below the word, or nothing
  if there is none. A number n > 0 has a top bit k, and 2^k <= n < 2^(k+1) (`TopBit`), so
  shifting by `clz(n - 1)` gives the power above n - 1 (`ShiftedIs`). On the other path the
  bits after r rounds are those within 2^r - 1 below a bit of n - 1 (`SmearsWithin`), after
  the last round all up to the top one (`SmearedIs`), and these sum to a power of two less
  one (`ValueOfOnes`). `CapacitiesDivideWord` follows: a constructed capacity divides
  2^digits, which the indices of `SPSCRingBuffer` that wrap around need;
* `PipeResultAddsUp`: the demo's result, for any number of workers, producers and tasks.
  `PipeInv` says that a submitted task is in the queue once, in one worker's hands or done
  (`PipePlaces`), and that each counter is about the tasks that are past the step that
  counts: their number, the sum of their numbers, the samples and the drops (`PipeCounts`,
  with `Past`). When `completed_tasks` has reached the total, every task is past every
  step (`AllDone`), so the counters are final when main reads them;
* `RingConsistent`, `RingRefinesFifo`: `RingInv` relates `tail`, `head` and `size_` and
  says that the filled slots are those of the contents; the contents, read off
  from `head`, are the sequence of `BoundedFifo`;
* `SpscSlotExclusive`, `SpscRefinesFifo`: `Batches` says that the batch a side has
  sized stays inside what is free (or filled) whatever the other side publishes in the
  meantime, `Filled` which slots hold an item, both in the arithmetic of words that wrap
  around;
* `PoolOneHolder`: `OneHolder` is inductive once every task with a function is in
  somebody's hands (`ArmedHeld`);
* `TraceLiveSink`: `SinkHasCall` and `FlagHasCall` find, for what the two atomics hold,
  a call of `setTraceSink` that put it there and was not replaced; `SubmitMaySee` and
  `SubmitHolds` carry that to the submits under way;
* `TraceReportedOnce`: `Reported` ties the reports to the finished tasks and the ids to
  those that `nextTaskId` has given out.

Assumptions. The proofs use those the modules declare, which TLC evaluates in the runs:
that sets of threads are finite where they are counted, that capacities and batch
sizes are positive, that roles are disjoint, that `NULL` is no task or item, and that
the destructor calls `shutdown()`. None of them is about what the code computes.

Induction. The library states induction with an operator as a parameter, which the
installed provers cannot instantiate. It also states that < is well-founded on the
naturals and that a nonempty subset of a well-founded set has a minimal element, without
such a parameter. `IndexArithmetic` derives from these that every nonempty set of
naturals has a least element (`LeastNatural`), induction for membership in a set
(`Induction`), and that a function defined by primitive recursion exists
(`PrimitiveRecursion`), so that the recursive functions of the model have the values their
definitions give them (`Pow2`, `SumIs`).

Only model-checked: liveness (`AcceptedRuns`, `CallsReturn`, both `ShutdownReturns`,
`ThievesEnter`, both `PushReturns`). Fairness and `ENABLED` are outside the proof system's
reach.

## 6. Plan

The model is complete as far as section 7 allows, and every safety property is proved.
What could be added:

1. `PoolService` for `WorkStealingThreadPool`, weakened by findings 1 and 2: tasks start in
   any order, and what is accepted after `stop_` may never start. `StealingOnePlace` and
   `StealingAcceptedBeforeStopRun` are what its refinement would rest on.
2. `RingBuffer` in the place of the sequence `tasks` of `ThreadPool`, so that the two
   refinements compose inside one specification.
3. A specification of a deque that may lose an item by the race of findings 3 and 4 only,
   implemented by both deques.

## 7. Not modelled

* The composition of `WorkStealingThreadPool` with the inside of its deques and its
  entrance: the product is out of TLC's reach. The pool uses them as atomic
  objects, except that a push, an owner's `pop` and a `steal` may fail although there
  is room or an element. A hollow position that `allEmpty()` counts as a task only makes
  the worker look again, and is left out. So are the races inside a deque, which are
  the subject of `WorkStealingDeque`: `OnePlace` says what the pool does between the
  operations of its queues.
* Getters and diagnostics that nothing in the code decides on: the metrics of the
  pools, `idle()`, `size()`, `empty()` and `full()` of `SPSCRingBuffer`, which its
  comment calls approximate, `available()` and `blockCount()` of `MemoryPool`.
* Tasks that themselves submit: under BLOCK, a task that submits to a full queue may
  wait for the worker it runs on. Sinks that throw; exceptions from allocation; elements
  of `SPSCRingBuffer` whose copy or move throws in the middle of a batch.
* A task released twice, or to a pool it is not from: the contract of `MemoryPool`
  forbids it and nothing checks it.
* 64-bit counters other than those of `SPSCRingBuffer` do not wrap in the model: that
  takes 2^64 operations.
* Memory weaker than x86: the store buffers of `LightEpoch` and `WorkStealingDeque`
  are those of x86; elsewhere one memory stands for acquire and release pairs on
  one location.
* `app/main.cpp`, the percentiles and tables of the demo, benchmarks, tests and
  scripts: they print what the modelled parts return.
