----------------------------- MODULE PoolService ------------------------------
(***************************************************************************)
(* What a pool promises its clients.  A task is refused only for want of   *)
(* room or because the pool is closing; one that is accepted waits its     *)
(* turn and runs once; and when shutdown() is over, everything that was    *)
(* ever accepted has run and nothing will be accepted any more.            *)
(***************************************************************************)
EXTENDS Integers, Sequences

CONSTANTS Jobs,   \* the tasks
          Slots   \* how many of them may wait

VARIABLES waiting,  \* the accepted tasks that have not started, in order
          at,       \* what has become of each task
          phase     \* of the pool

serviceVars == <<waiting, at, phase>>

Init == /\ waiting = <<>>
        /\ at = [t \in Jobs |-> "new"]
        /\ phase = "open"

Accept(t) == /\ at[t] = "new" /\ phase = "open" /\ Len(waiting) < Slots
             /\ waiting' = Append(waiting, t)
             /\ at' = [at EXCEPT ![t] = "waiting"]
             /\ UNCHANGED phase

Refuse(t) == /\ at[t] = "new"
             /\ phase # "open" \/ Len(waiting) = Slots
             /\ at' = [at EXCEPT ![t] = "refused"]
             /\ UNCHANGED <<waiting, phase>>

Start(t) == /\ at[t] = "waiting" /\ waiting # <<>> /\ t = Head(waiting)
            /\ waiting' = Tail(waiting)
            /\ at' = [at EXCEPT ![t] = "running"]
            /\ UNCHANGED phase

Finish(t) == /\ at[t] = "running"
             /\ at' = [at EXCEPT ![t] = "done"]
             /\ UNCHANGED <<waiting, phase>>

Close == /\ phase = "open" /\ phase' = "closing"
         /\ UNCHANGED <<waiting, at>>

(* shutdown() returns.                                                     *)
Closed == /\ phase = "closing" /\ phase' = "closed"
          /\ \A t \in Jobs : at[t] \in {"new", "done", "refused"}
          /\ UNCHANGED <<waiting, at>>

Next == \/ \E t \in Jobs : Accept(t) \/ Refuse(t) \/ Start(t) \/ Finish(t)
        \/ Close \/ Closed

Spec == Init /\ [][Next]_serviceVars
=============================================================================
