----------------------------- MODULE BoundedFifo -----------------------------
(***************************************************************************)
(* What the bounded queues of this repository promise: at most capacity    *)
(* items, handed out once each and in the order in which they went in.     *)
(* A call that returns false changes nothing.                              *)
(***************************************************************************)
EXTENDS Integers, Sequences

CONSTANTS Items,      \* what may be pushed
          Consumers,  \* the threads that pop
          NULL        \* "nothing popped yet"

VARIABLES q,          \* the queue
          out,        \* what each consumer's last successful pop returned
          capacity    \* as the constructor set it

fifoVars == <<q, out, capacity>>

Init == /\ q = <<>>
        /\ out = [c \in Consumers |-> NULL]
        /\ capacity \in Nat \ {0}

Push(x) == /\ Len(q) < capacity
           /\ q' = Append(q, x)
           /\ UNCHANGED <<out, capacity>>

Pop(c) == /\ q # <<>>
          /\ out' = [out EXCEPT ![c] = Head(q)]
          /\ q' = Tail(q)
          /\ UNCHANGED capacity

Next == \/ \E x \in Items : Push(x)
        \/ \E c \in Consumers : Pop(c)

Spec == Init /\ [][Next]_fifoVars
=============================================================================
