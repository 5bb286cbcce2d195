--------------------------- MODULE OwnershipProofs --------------------------
(***************************************************************************)
(* Proofs about Ownership, for any number of processes, faults and         *)
(* signals: whoever became the owner holds the lock until it exits, unless *)
(* it lost its session and does not know.                                  *)
(***************************************************************************)
EXTENDS Ownership, TLAPS

\* An owner holds the lock or is severed, and requests are answered by owners only.
HolderOrSevered ==
  \A i \in Processes :
    /\ i \in busy => phase[i] \in {"serving", "closing"}
    /\ phase[i] \in {"owner", "serving", "closing"} => lock = i \/ i \in severed

OwnershipInv == OwnershipTypeOK /\ HolderOrSevered

LEMMA InitOwnership == OwnershipInit => OwnershipInv
BY OwnershipAssumption DEF OwnershipInit, OwnershipInv, OwnershipTypeOK, HolderOrSevered

\* A process that exits takes its own lock and its own requests with it.
LEMMA ExitStep ==
  ASSUME OwnershipInv, NEW i \in Processes, Exit(i),
         faults' \in 0..MaxFaults, signals' \in 0..MaxSignals
  PROVE  OwnershipInv'
BY OwnershipAssumption DEF OwnershipInv, OwnershipTypeOK, HolderOrSevered, Exit, Enter, Unlocked

LEMMA StartupStep ==
  ASSUME OwnershipInv, NEW i \in Processes, Start(i) \/ Acquire(i) \/ Activate(i)
  PROVE  OwnershipInv'
<1>1. CASE Start(i)
  BY <1>1 DEF OwnershipInv, OwnershipTypeOK, HolderOrSevered, Start, Enter, Bounds
<1>2. CASE Acquire(i)
  BY <1>2, OwnershipAssumption
     DEF OwnershipInv, OwnershipTypeOK, HolderOrSevered, Acquire, Granted, Enter, Bounds
<1>3. CASE Activate(i)
  BY <1>3 DEF OwnershipInv, OwnershipTypeOK, HolderOrSevered, Activate, Enter, Bounds
<1> QED
  BY <1>1, <1>2, <1>3

LEMMA ServingStep ==
  ASSUME OwnershipInv, NEW i \in Processes,
         TakeRequest(i) \/ Respond(i) \/ Signal(i) \/ Release(i)
  PROVE  OwnershipInv'
<1>1. CASE TakeRequest(i)
  BY <1>1 DEF OwnershipInv, OwnershipTypeOK, HolderOrSevered, TakeRequest, Answering, Bounds
<1>2. CASE Respond(i)
  BY <1>2 DEF OwnershipInv, OwnershipTypeOK, HolderOrSevered, Respond, Bounds
<1>3. CASE Signal(i)
  BY <1>3, OwnershipAssumption
     DEF OwnershipInv, OwnershipTypeOK, HolderOrSevered, Signal, StopStandby, Shutdown, Enter
<1>4. CASE Release(i)
  BY <1>4, OwnershipAssumption
     DEF OwnershipInv, OwnershipTypeOK, HolderOrSevered, Release, Drained, Enter, Unlocked, Bounds
<1> QED
  BY <1>1, <1>2, <1>3, <1>4

LEMMA OwnershipStep ==
  ASSUME OwnershipInv, [OwnershipNext]_ownershipVars
  PROVE  OwnershipInv'
<1>0. faults \in 0..MaxFaults /\ signals \in 0..MaxSignals
  BY DEF OwnershipInv, OwnershipTypeOK
<1>1. ASSUME NEW i \in Processes, Start(i) \/ Acquire(i) \/ Activate(i) PROVE OwnershipInv'
  BY <1>1, StartupStep
<1>2. ASSUME NEW i \in Processes, TakeRequest(i) \/ Respond(i) \/ Signal(i) \/ Release(i)
      PROVE  OwnershipInv'
  BY <1>2, ServingStep
<1>3. ASSUME NEW i \in Processes,
             GiveUp(i) \/ Leave(i) \/ Notice(i) \/ Kill(i) \/ AcquireFails(i) \/ HeartbeatTimesOut(i)
      PROVE  OwnershipInv'
  <2>1. Exit(i) /\ faults' \in 0..MaxFaults /\ signals' \in 0..MaxSignals
    BY <1>0, <1>3, OwnershipAssumption
       DEF GiveUp, Leave, Notice, Kill, AcquireFails, HeartbeatTimesOut, Bounds
  <2> QED
    BY <2>1, ExitStep
<1>4. CASE Sever
  BY <1>4, OwnershipAssumption DEF OwnershipInv, OwnershipTypeOK, HolderOrSevered, Sever
<1>5. CASE UNCHANGED ownershipVars
  BY <1>5 DEF ownershipVars, OwnershipInv, OwnershipTypeOK, HolderOrSevered
<1> QED
  BY <1>1, <1>2, <1>3, <1>4, <1>5 DEF OwnershipNext

LEMMA OwnershipInvariance == OwnershipSpec => []OwnershipInv
<1>1. OwnershipInv /\ [OwnershipNext]_ownershipVars => OwnershipInv'
  BY OwnershipStep
<1> QED
  BY <1>1, InitOwnership, PTL DEF OwnershipSpec

\* Two processes serve at once only while one has lost its session and not noticed.
THEOREM OverlapsAreBlind == OwnershipSpec => []OverlapIsBlind
<1>1. OwnershipInv => OverlapIsBlind
  BY DEF OwnershipInv, HolderOrSevered, OverlapIsBlind, Serving
<1> QED
  BY <1>1, OwnershipInvariance, PTL

\* Every reachable state of the processes has its type.
THEOREM OwnershipTypeCorrect == OwnershipSpec => []OwnershipTypeOK
<1>1. OwnershipInv => OwnershipTypeOK
  BY DEF OwnershipInv
<1> QED
  BY <1>1, OwnershipInvariance, PTL

=============================================================================
