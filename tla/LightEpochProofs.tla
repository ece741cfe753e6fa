-------------------------- MODULE LightEpochProofs --------------------------
(***************************************************************************)
(* LightEpoch keeps thieves out of a QuiesceWindow, for any finite number  *)
(* of thieves.                                                             *)
(***************************************************************************)
EXTENDS LightEpoch, FiniteSetTheorems, TLAPS

(* active_ counts the registered thieves, the ones that will undo their    *)
(* registration included.                                                  *)
ActiveCounts == active_ = Cardinality(Registered)

(* What the owner's buffer may hold, phase by phase: past the fence it is  *)
(* empty and the closed gate is in memory.                                 *)
GateClosed ==
  /\ opc = "out" => Len(buffer) <= 1
  /\ opc = "fence" => /\ Len(buffer) <= 2
                      /\ buffer = <<>> => gate_ = "closed"
                      /\ buffer # <<>> => buffer[Len(buffer)] = "closed"
  /\ opc \in {"wait", "window"} => buffer = <<>> /\ gate_ = "closed"

(* TypeOK without the bound on active_, which ActiveCounts gives.          *)
Types ==
  /\ gate_ \in Gate
  /\ buffer \in Seq(Gate)
  /\ active_ \in Int
  /\ opc \in {"out", "fence", "wait", "window"}
  /\ tpc \in [Thieves -> {"out", "check", "register", "recheck", "undo", "inside"}]

EpochInv == Types /\ ActiveCounts /\ GateClosed /\ NoThiefInWindow

(* The registered thieves are finitely many, and at most all of them.      *)
LEMMA RegisteredFinite ==
  /\ IsFiniteSet(Registered)
  /\ Cardinality(Registered) \in 0 .. Cardinality(Thieves)
<1>1. Registered \subseteq Thieves
  BY DEF Registered
<1>2. IsFiniteSet(Registered) /\ Cardinality(Registered) <= Cardinality(Thieves)
  BY <1>1, ThievesFinite, FS_Subset
<1>3. Cardinality(Registered) \in Nat /\ Cardinality(Thieves) \in Nat
  BY <1>2, ThievesFinite, FS_CardinalityType
<1>4. QED
  BY <1>2, <1>3

(* EpochInv implies the type invariant that TLC checks.                    *)
LEMMA EpochInvTypes == EpochInv => TypeOK
<1> SUFFICES ASSUME EpochInv PROVE TypeOK
  OBVIOUS
<1>1. active_ \in 0 .. Cardinality(Thieves)
  BY RegisteredFinite DEF EpochInv, ActiveCounts
<1>2. Len(buffer) <= 2
  BY DEF EpochInv, Types, Gate, GateClosed
<1>3. QED
  BY <1>1, <1>2 DEF EpochInv, Types, Gate, TypeOK

LEMMA InitEpoch == Init => EpochInv
<1> SUFFICES ASSUME Init PROVE EpochInv
  OBVIOUS
<1>1. Registered = {} /\ Inside = {}
  BY DEF Init, Registered, Inside
<1>2. ActiveCounts
  BY <1>1, FS_EmptySet DEF Init, ActiveCounts
<1>3. QED
  BY <1>1, <1>2 DEF Init, EpochInv, Types, Gate, GateClosed, NoThiefInWindow

(* A thief's step moves active_ with the set of registered thieves.        *)
LEMMA ThiefKeepsCount ==
  ASSUME EpochInv, NEW t \in Thieves, Enter(t) \/ ThiefStep(t)
  PROVE  ActiveCounts'
<1> USE DEF EpochInv, Types, Gate, ActiveCounts, Registered, Thief
<1>1. CASE Enter(t) \/ CheckGate(t) \/ RecheckGate(t)
  <2>1. Registered' = Registered /\ active_' = active_
    BY <1>1 DEF Enter, CheckGate, RecheckGate
  <2>2. QED
    BY <2>1
<1>2. CASE Register(t)
  <2>1. t \notin Registered /\ Registered' = Registered \cup {t} /\ active_' = active_ + 1
    BY <1>2 DEF Register
  <2>2. Cardinality(Registered \cup {t}) = Cardinality(Registered) + 1
    BY <2>1, RegisteredFinite, FS_AddElement
  <2>3. QED
    BY <2>1, <2>2
<1>3. CASE Undo(t) \/ Exit(t)
  <2>1. t \in Registered /\ Registered' = Registered \ {t} /\ active_' = active_ - 1
    BY <1>3 DEF Undo, Exit, Unregister
  <2>2. Cardinality(Registered \ {t}) = Cardinality(Registered) - 1
    BY <2>1, RegisteredFinite, FS_RemoveElement
  <2>3. QED
    BY <2>1, <2>2
<1>4. QED
  BY <1>1, <1>2, <1>3 DEF ThiefStep

(* A thief gets inside only past an open gate, and during a window the     *)
(* gate is closed.                                                         *)
LEMMA ThiefKeepsInv ==
  ASSUME EpochInv, NEW t \in Thieves, Enter(t) \/ ThiefStep(t)
  PROVE  EpochInv'
<1>1. Types' /\ UNCHANGED <<gate_, buffer, opc>>
  BY DEF EpochInv, Types, Gate, Enter, ThiefStep, CheckGate, Register, RecheckGate, Undo, Exit,
         Unregister, Thief
<1>2. GateClosed'
  BY <1>1 DEF EpochInv, GateClosed
<1>3. ASSUME opc = "window" PROVE Inside' \subseteq Inside
  <2>1. gate_ = "closed"
    BY <1>3 DEF EpochInv, GateClosed
  <2>2. QED
    BY <2>1 DEF EpochInv, Types, Gate, Inside, Enter, ThiefStep, CheckGate, Register, RecheckGate,
                Undo, Exit, Thief
<1>4. NoThiefInWindow'
  BY <1>1, <1>3 DEF EpochInv, NoThiefInWindow
<1>5. QED
  BY <1>1, <1>2, <1>4, ThiefKeepsCount DEF EpochInv

(* The owner opens its window when active_ = 0: then nobody is registered, *)
(* so nobody is inside.                                                    *)
LEMMA OwnerKeepsInv ==
  ASSUME EpochInv, Close \/ OwnerStep \/ Drain
  PROVE  EpochInv'
<1>1. Types' /\ ActiveCounts' /\ tpc' = tpc
  <2>1. UNCHANGED <<active_, tpc>> /\ gate_' \in Gate /\ Types'
    <3>1. CASE Close \/ OwnerStep
      BY <3>1, SMTT(30) DEF EpochInv, Types, Gate, Close, OwnerStep, Fence, AwaitQuiet, Open, Reopen,
                  Owner
    <3>2. CASE Drain
      BY <3>2 DEF EpochInv, Types, Gate, Drain
    <3>3. QED
      BY <3>1, <3>2
  <2>2. QED
    BY <2>1 DEF EpochInv, ActiveCounts, Registered
<1>2. GateClosed'
  <2>1. CASE Close
    BY <2>1 DEF EpochInv, Types, Gate, GateClosed, Close, Owner
  <2>2. CASE OwnerStep
    BY <2>2 DEF EpochInv, Types, Gate, GateClosed, OwnerStep, Fence, FencePassed, AwaitQuiet, Open,
                Reopen, Owner
  <2>3. CASE Drain
    <3>1. /\ Len(buffer') = Len(buffer) - 1 /\ opc' = opc /\ opc \in {"out", "fence"}
          /\ gate_' = buffer[1]
          /\ buffer' # <<>> => buffer'[Len(buffer')] = buffer[Len(buffer)]
      BY <2>3 DEF EpochInv, Types, Gate, GateClosed, Drain
    <3>2. buffer' = <<>> => Len(buffer) = 1
      <4>1. ASSUME buffer' = <<>> PROVE Len(buffer') = 0
        BY <4>1
      <4>2. Len(buffer) \in Nat
        BY DEF EpochInv, Types
      <4>3. QED
        BY <3>1, <4>1, <4>2
    <3>3. QED
      BY <2>3, <3>1, <3>2 DEF EpochInv, Types, Gate, GateClosed, Drain
  <2>4. QED
    BY <2>1, <2>2, <2>3
<1>3. NoThiefInWindow'
  <2>1. CASE AwaitQuiet
    <3>1. Cardinality(Registered) = 0
      BY <2>1 DEF EpochInv, ActiveCounts, AwaitQuiet
    <3>2. Registered = {}
      BY <3>1, RegisteredFinite, FS_EmptySet
    <3>3. Inside' = {}
      BY <1>1, <3>2 DEF Registered, Inside
    <3>4. QED
      BY <3>3 DEF NoThiefInWindow
  <2>2. CASE ~AwaitQuiet
    BY <1>1, <2>2 DEF EpochInv, NoThiefInWindow, Inside, Close, OwnerStep, Fence, Open, Drain,
                      Owner
  <2>3. QED
    BY <2>1, <2>2
<1>4. QED
  BY <1>1, <1>2, <1>3 DEF EpochInv

LEMMA NextEpoch == EpochInv /\ [Next]_vars => EpochInv'
<1> SUFFICES ASSUME EpochInv, [Next]_vars PROVE EpochInv'
  OBVIOUS
<1>1. CASE UNCHANGED vars
  BY <1>1 DEF vars, EpochInv, Types, Gate, ActiveCounts, Registered, GateClosed, NoThiefInWindow,
              Inside
<1>2. CASE Next
  BY <1>2, ThiefKeepsInv, OwnerKeepsInv DEF Next
<1>3. QED
  BY <1>1, <1>2

(* No thief is between enter() and exit() while a QuiesceWindow is open.   *)
THEOREM EpochNoThiefInWindow == Spec => []NoThiefInWindow
<1>1. EpochInv => NoThiefInWindow
  BY DEF EpochInv
<1>2. QED
  BY <1>1, InitEpoch, NextEpoch, PTL DEF Spec

(* active_ never underflows and never exceeds the number of thieves.       *)
THEOREM EpochTypeOK == Spec => []TypeOK
  BY EpochInvTypes, InitEpoch, NextEpoch, PTL DEF Spec
=============================================================================
