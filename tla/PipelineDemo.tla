---------------------------- MODULE PipelineDemo -----------------------------
(***************************************************************************)
(* app/pipeline_demo.cpp, run_pipeline: producers submit tasks to a        *)
(* ThreadPool under BLOCK, each task counts itself and pushes a sample     *)
(* into a LockFreeQueue, and the main thread waits for the pool's count of *)
(* completed tasks before it reads the counters and drains the queue.      *)
(* The pool and the queue are taken at what their own modules show: an     *)
(* accepted task is executed once and counted as completed afterwards, and *)
(* the queue is a bounded FIFO.  A sample is the number of its task; the   *)
(* pacing of the producers only delays them.                               *)
(***************************************************************************)
EXTENDS Common

CONSTANTS PipeWorkers,
          producers,     \* their number
          per,           \* tasks of one producer
          QueueSize,     \* of the pool: 65536 in the code
          SinkCapacity   \* 2^20 in the code

ASSUME PipeAssumption == /\ producers \in Nat /\ per \in Nat
                         /\ QueueSize \in Nat \ {0} /\ SinkCapacity \in Nat \ {0}

VARIABLES submitted,  \* the tasks each producer has submitted
          queue,      \* of the pool
          hand,       \* each worker: its task and what is left to do with it
          completed_tasks, processed, checksum, dropped,
          sink,
          main,       \* where run_pipeline is
          lat         \* the samples it has collected

pipeVars == <<submitted, queue, hand, completed_tasks, processed, checksum, dropped,
              sink, main, lat>>

total == producers * per
PipeProducers == 0 .. producers - 1

Idle == [at |-> "idle", seq |-> NULL]

PipeInit ==
  /\ submitted = [p \in PipeProducers |-> 0]
  /\ queue = <<>>
  /\ hand = [w \in PipeWorkers |-> Idle]
  /\ completed_tasks = 0 /\ processed = 0 /\ checksum = 0 /\ dropped = 0
  /\ sink = <<>>
  /\ main = "join"
  /\ lat = <<>>

(* submitVoid, of the task's seq, returns when there is room.              *)
SubmitVoid(p) ==
  /\ submitted[p] < per /\ Len(queue) < QueueSize
  /\ queue' = Append(queue, p * per + submitted[p])
  /\ submitted' = [submitted EXCEPT ![p] = @ + 1]
  /\ UNCHANGED <<hand, completed_tasks, processed, checksum, dropped, sink, main, lat>>

TaskTaken(w) ==
  /\ hand[w] = Idle /\ queue # <<>>
  /\ hand' = [hand EXCEPT ![w] = [at |-> "count", seq |-> Head(queue)]]
  /\ queue' = Tail(queue)
  /\ UNCHANGED <<submitted, completed_tasks, processed, checksum, dropped, sink, main, lat>>

InTask(w, from, to) == hand[w].at = from /\ hand' = [hand EXCEPT ![w].at = to]

TaskCounts(w) ==
  /\ InTask(w, "count", "sum")
  /\ processed' = processed + 1
  /\ UNCHANGED <<submitted, queue, completed_tasks, checksum, dropped, sink, main, lat>>

TaskSums(w) ==
  /\ InTask(w, "sum", "push")
  /\ checksum' = checksum + hand[w].seq
  /\ UNCHANGED <<submitted, queue, completed_tasks, processed, dropped, sink, main, lat>>

TaskSamples(w) ==
  /\ InTask(w, "push", "complete")
  /\ \/ /\ Len(sink) < SinkCapacity
        /\ sink' = Append(sink, hand[w].seq)
        /\ UNCHANGED dropped
     \/ /\ Len(sink) = SinkCapacity
        /\ dropped' = dropped + 1
        /\ UNCHANGED sink
  /\ UNCHANGED <<submitted, queue, completed_tasks, processed, checksum, main, lat>>

(* The worker's completed_tasks.fetch_add, after execute().                *)
TaskCompletes(w) ==
  /\ hand[w].at = "complete"
  /\ hand' = [hand EXCEPT ![w] = Idle]
  /\ completed_tasks' = completed_tasks + 1
  /\ UNCHANGED <<submitted, queue, processed, checksum, dropped, sink, main, lat>>

MainJoins ==
  /\ main = "join" /\ \A p \in PipeProducers : submitted[p] = per
  /\ main' = "poll"
  /\ UNCHANGED <<submitted, queue, hand, completed_tasks, processed, checksum, dropped, sink, lat>>

(* Mutant: main waits for the queue to be empty.                           *)
AllCompletedByQueue == queue = <<>>

AllCompleted == completed_tasks >= total

MainPolls ==
  /\ main = "poll" /\ AllCompleted
  /\ main' = "drain"
  /\ UNCHANGED <<submitted, queue, hand, completed_tasks, processed, checksum, dropped, sink, lat>>

MainDrains ==
  /\ main = "drain"
  /\ \/ /\ sink # <<>>
        /\ lat' = Append(lat, Head(sink))
        /\ sink' = Tail(sink)
        /\ UNCHANGED main
     \/ /\ sink = <<>>
        /\ main' = "shutdown"
        /\ UNCHANGED <<lat, sink>>
  /\ UNCHANGED <<submitted, queue, hand, completed_tasks, processed, checksum, dropped>>

(* pool.shutdown() returns once the workers have run what was queued.      *)
MainShutsDown ==
  /\ main = "shutdown" /\ queue = <<>> /\ \A w \in PipeWorkers : hand[w] = Idle
  /\ main' = "returned"
  /\ UNCHANGED <<submitted, queue, hand, completed_tasks, processed, checksum, dropped, sink, lat>>

(* main() calls run_pipeline again, with everything built anew.            *)
MainRepeats ==
  /\ main = "returned" /\ main' = "join"
  /\ submitted' = [p \in PipeProducers |-> 0]
  /\ completed_tasks' = 0 /\ processed' = 0 /\ checksum' = 0 /\ dropped' = 0
  /\ lat' = <<>>
  /\ UNCHANGED <<queue, hand, sink>>

PipeNext ==
  \/ \E p \in PipeProducers : SubmitVoid(p)
  \/ \E w \in PipeWorkers : \/ TaskTaken(w) \/ TaskCounts(w) \/ TaskSums(w)
                            \/ TaskSamples(w) \/ TaskCompletes(w)
  \/ MainJoins \/ MainPolls \/ MainDrains \/ MainShutsDown \/ MainRepeats

PipeSpec == PipeInit /\ [][PipeNext]_pipeVars

-----------------------------------------------------------------------------
(* What run_pipeline returns adds up: every task was processed, the sum of *)
(* their numbers is the expected one, each sample was collected or counted *)
(* as dropped, none twice, and one was dropped only if the queue was full. *)
ResultAddsUp ==
  main \in {"drain", "shutdown", "returned"} =>
    /\ processed = total
    /\ checksum = (total * (total - 1)) \div 2
    /\ Len(lat) + Len(sink) + dropped = total
    /\ dropped > 0 => Len(lat) + Len(sink) = SinkCapacity
    /\ \A i, j \in DOMAIN lat : lat[i] = lat[j] => i = j
=============================================================================
