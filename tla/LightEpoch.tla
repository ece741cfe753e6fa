----------------------------- MODULE LightEpoch -----------------------------
(***************************************************************************)
(* include/LightEpoch.h: thieves enter and leave a critical section that   *)
(* the owner of a deque closes for as long as a QuiesceWindow lives.       *)
(*                                                                         *)
(* The order of the owner's store to gate_ and its loads of active_ is     *)
(* what the protocol is about, so the owner has a store buffer, as on x86: *)
(* a plain store waits there and reaches memory later.  The thieves change *)
(* active_ by locked read-modify-write instructions, which are steps of    *)
(* memory, and store nothing else.                                         *)
(***************************************************************************)
EXTENDS Integers, Sequences, FiniteSets

CONSTANT Thieves

ASSUME ThievesFinite == IsFiniteSet(Thieves)

Gate == {"open", "closed"}   \* false and true

VARIABLES gate_, active_,
          buffer,  \* the owner's stores to gate_ that are not in memory yet
          opc,     \* where the owner is in the life of a QuiesceWindow
          tpc      \* where each thief is in the life of a Guard

vars == <<gate_, active_, buffer, opc, tpc>>

Thief(t, from, to) == tpc[t] = from /\ tpc' = [tpc EXCEPT ![t] = to]
Owner(from, to) == opc = from /\ opc' = to

Registered == {t \in Thieves : tpc[t] \in {"recheck", "undo", "inside"}}
Inside == {t \in Thieves : tpc[t] = "inside"}

Init == /\ gate_ = "open"
        /\ active_ = 0
        /\ buffer = <<>>
        /\ opc = "out"
        /\ tpc = [t \in Thieves |-> "out"]

-----------------------------------------------------------------------------
(* Guard and enter(), a spinning loop: while the gate is closed a thief    *)
(* looks again, which changes nothing.                                     *)

Enter(t) ==
  /\ Thief(t, "out", "check")
  /\ UNCHANGED <<gate_, active_, buffer, opc>>

(* Mutant: enter() registers without having looked at the gate.            *)
GateIgnored == TRUE

GateOpen == gate_ = "open"

CheckGate(t) ==
  /\ GateOpen
  /\ Thief(t, "check", "register")
  /\ UNCHANGED <<gate_, active_, buffer, opc>>

Register(t) ==
  /\ Thief(t, "register", "recheck")
  /\ active_' = active_ + 1
  /\ UNCHANGED <<gate_, buffer, opc>>

RecheckGate(t) ==
  /\ Thief(t, "recheck", IF gate_ = "closed" THEN "undo" ELSE "inside")
  /\ UNCHANGED <<gate_, active_, buffer, opc>>

(* Mutant: a registration is not taken back.                               *)
UnregisterNot == UNCHANGED active_

Unregister == active_' = active_ - 1

Undo(t) ==
  /\ Thief(t, "undo", "check")
  /\ Unregister
  /\ UNCHANGED <<gate_, buffer, opc>>

(* exit(), by ~Guard.                                                      *)
Exit(t) ==
  /\ Thief(t, "inside", "out")
  /\ Unregister
  /\ UNCHANGED <<gate_, buffer, opc>>

-----------------------------------------------------------------------------
(* QuiesceWindow, by the owner alone.                                      *)

Close ==
  /\ Owner("out", "fence")
  /\ buffer' = Append(buffer, "closed")
  /\ UNCHANGED <<gate_, active_, tpc>>

(* The oldest store in the buffer reaches memory.                          *)
Drain ==
  /\ buffer # <<>>
  /\ gate_' = Head(buffer)
  /\ buffer' = Tail(buffer)
  /\ UNCHANGED <<active_, opc, tpc>>

(* Mutant: the fence is missing.                                           *)
FencePassedAtOnce == TRUE

(* A seq_cst fence lets the owner go on when its buffer is empty.          *)
FencePassed == buffer = <<>>

Fence ==
  /\ FencePassed
  /\ Owner("fence", "wait")
  /\ UNCHANGED <<gate_, active_, buffer, tpc>>

AwaitQuiet ==
  /\ active_ = 0
  /\ Owner("wait", "window")
  /\ UNCHANGED <<gate_, active_, buffer, tpc>>

(* Mutant: the gate stays closed after the window.                         *)
ReopenNot == UNCHANGED buffer

Reopen == buffer' = Append(buffer, "open")

Open ==
  /\ Owner("window", "out")
  /\ Reopen
  /\ UNCHANGED <<gate_, active_, tpc>>

-----------------------------------------------------------------------------
(* What a thief inside its Guard's code does; entering is its own choice.  *)
ThiefStep(t) == CheckGate(t) \/ Register(t) \/ RecheckGate(t) \/ Undo(t) \/ Exit(t)

OwnerStep == Fence \/ AwaitQuiet \/ Open

Next == \/ \E t \in Thieves : Enter(t) \/ ThiefStep(t)
        \/ Close \/ OwnerStep \/ Drain

Spec == Init /\ [][Next]_vars

(* Threads inside the protocol keep running, and stores reach memory.      *)
FairSpec == /\ Spec
            /\ \A t \in Thieves : WF_vars(ThiefStep(t))
            /\ WF_vars(OwnerStep)
            /\ WF_vars(Drain)

-----------------------------------------------------------------------------
(* The types; active_ is an unsigned counter of thieves, so it stays       *)
(* between none and all of them, and at most two stores are on their way.  *)
TypeOK ==
  /\ gate_ \in Gate
  /\ active_ \in 0 .. Cardinality(Thieves)
  /\ buffer \in Seq(Gate) /\ Len(buffer) <= 2
  /\ opc \in {"out", "fence", "wait", "window"}
  /\ tpc \in [Thieves -> {"out", "check", "register", "recheck", "undo", "inside"}]

(* While a QuiesceWindow is open no thief is between enter() and exit(),   *)
(* however long one of them was delayed between its two looks at gate_.    *)
NoThiefInWindow == opc = "window" => Inside = {}

(* A thief that waits at the gate gets in once the owner opens no further  *)
(* window.                                                                 *)
ThievesEnter ==
  <>[](opc = "out") => \A t \in Thieves : tpc[t] = "check" ~> tpc[t] = "inside"
=============================================================================
