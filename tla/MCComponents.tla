---------------------------- MODULE MCComponents -----------------------------
(***************************************************************************)
(* The components that stand alone, for TLC: a behaviour is one of one of  *)
(* them, chosen at the start, while the others keep their initial state.   *)
(***************************************************************************)
EXTENDS TLC, LockFreeQueue, RingBuffer, SPSCRingBuffer, MemoryPool, TaskTracing, PipelineDemo,
        CapacityRounding

CONSTANTS p1, p2, c1, c2, s1, s2, w1, w2, a, b

VARIABLE running

components == <<queueVars, ringVars, spscVars, poolVars, traceVars, pipeVars, roundVars>>

MCInit == /\ running \in {"LockFreeQueue", "RingBuffer", "SPSCRingBuffer", "MemoryPool",
                          "TaskTracing", "PipelineDemo", "CapacityRounding"}
          /\ Init /\ RingInit /\ SpscInit /\ PoolInit /\ TraceInit /\ PipeInit /\ RoundInit
          /\ running # "RingBuffer" => capacity_ = 1
          /\ running # "SPSCRingBuffer" => spscCapacity = 1
          /\ running # "MemoryPool" => initial_capacity_ = 0 /\ ~expandable_

MCNext ==
  \/ /\ running = "LockFreeQueue" /\ Next
     /\ UNCHANGED <<running, ringVars, spscVars, poolVars, traceVars, pipeVars, roundVars>>
  \/ /\ running = "RingBuffer" /\ RingNext
     /\ UNCHANGED <<running, queueVars, spscVars, poolVars, traceVars, pipeVars, roundVars>>
  \/ /\ running = "SPSCRingBuffer" /\ SpscNext
     /\ UNCHANGED <<running, queueVars, ringVars, poolVars, traceVars, pipeVars, roundVars>>
  \/ /\ running = "MemoryPool" /\ PoolNext
     /\ UNCHANGED <<running, queueVars, ringVars, spscVars, traceVars, pipeVars, roundVars>>
  \/ /\ running = "TaskTracing" /\ TraceNext
     /\ UNCHANGED <<running, queueVars, ringVars, spscVars, poolVars, pipeVars, roundVars>>
  \/ /\ running = "PipelineDemo" /\ PipeNext
     /\ UNCHANGED <<running, queueVars, ringVars, spscVars, poolVars, traceVars, roundVars>>
  \/ /\ running = "CapacityRounding" /\ RoundNext
     /\ UNCHANGED <<running, queueVars, ringVars, spscVars, poolVars, traceVars, pipeVars>>

(* No definition tells one producer, or one setter, from another.          *)
ThreadSymmetry == Permutations(Producers) \cup Permutations(Setters)

MCSpec == MCInit /\ [][MCNext]_<<components, running>>
=============================================================================
