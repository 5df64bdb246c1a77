------------------------ MODULE LeaderElectionProofs ------------------------
(***************************************************************************)
(* Safety of the leadership loop for every set of routines and every bound. *)
(* Neither safety invariant is inductive: both need to know that runRaft's  *)
(* isLeader implies initialized and that nothing carries a live leaderCtx   *)
(* before this node first led.                                              *)
(***************************************************************************)
EXTENDS LeaderElection, TLAPS

NoLiveWork == starts.live = 0 /\ \A r \in Routine : LiveInstances(r) = 0

LeadingFlags ==
    /\ isLeader => initialized
    /\ ~isLeader => NoLiveWork

IInv ==
    /\ TypeOK
    /\ LeadingFlags
    /\ NoLeaderWorkUnlessLeading
    /\ AtMostOneLiveInstance

(* leaderCancel leaves nothing live and keeps the types.                     *)
LEMMA CancelLeavesNothingLive ==
    ASSUME TypeOK, LeaderCancel
    PROVE  /\ NoLiveWork'
           /\ starts' \in [live: Nat, cancelled: Nat]
           /\ inst' \in [Routine -> Instances]
  BY DEF TypeOK, LeaderCancel, CancelStarts, CancelInst, NoLiveWork,
         LiveInstances, Instances

LEMMA InitType == Init => TypeOK
  <1> SUFFICES ASSUME Init PROVE TypeOK
    OBVIOUS
  <1>1. /\ starts \in [live: Nat, cancelled: Nat] /\ stops \in Nat
        /\ inst \in [Routine -> Instances]
    BY DEF Init, Instances
  <1> QED
    BY <1>1, Zenon DEF Init, TypeOK

(* The type invariant is inductive by itself.                                *)
LEMMA TypeStep == TypeOK /\ [Next]_vars => TypeOK'
  <1> SUFFICES ASSUME TypeOK, [Next]_vars PROVE TypeOK'
    OBVIOUS
  <1>1. CASE Ready
    <2>0. lead' \in BOOLEAN /\ observed' \in BOOLEAN /\ stopped' \in BOOLEAN
          /\ lmIsLeader' \in BOOLEAN /\ initialized' \in BOOLEAN
      BY <1>1, Zenon DEF TypeOK, Ready
    <2>1. CASE BecomeLeader
      <3>1. isLeader' \in BOOLEAN
        BY <2>1, Zenon DEF BecomeLeader
      <3>2. starts' \in [live: Nat, cancelled: Nat] /\ stops' \in Nat
            /\ inst' \in [Routine -> Instances]
        BY <2>1 DEF BecomeLeader, TypeOK
      <3> QED
        BY <2>0, <3>1, <3>2, Zenon DEF TypeOK
    <2>2. CASE BecomeFollower
      <3>1. isLeader' \in BOOLEAN
        BY <2>2, Zenon DEF BecomeFollower, TypeOK
      <3>2. stops' \in Nat
        BY <2>2 DEF BecomeFollower, TypeOK
      <3> QED
        BY <2>0, <2>2, <3>1, <3>2, CancelLeavesNothingLive, Zenon
           DEF TypeOK, BecomeFollower
    <2>3. CASE UNCHANGED <<initialized, isLeader, starts, stops, inst>>
      BY <1>1, <2>3 DEF TypeOK, Ready
    <2> QED
      BY <1>1, <2>1, <2>2, <2>3 DEF Ready
  <1>2. CASE Shutdown
    BY <1>2, CancelLeavesNothingLive DEF TypeOK, Shutdown
  <1>3. ASSUME NEW status \in {"live", "cancelled"}, RunStarted(status)
        PROVE TypeOK'
    <2>1. starts' \in [live: Nat, cancelled: Nat]
      <3>1. CASE status = "live"
        BY <1>3, <3>1 DEF TypeOK, RunStarted
      <3>2. CASE status = "cancelled"
        BY <1>3, <3>2 DEF TypeOK, RunStarted
      <3> QED
        BY <3>1, <3>2
    <2>2. inst' \in [Routine -> Instances]
      BY <1>3 DEF TypeOK, RunStarted, Instances
    <2>3. UNCHANGED <<lead, isLeader, initialized, observed, stopped, stops>>
      BY <1>3, Zenon DEF RunStarted
    <2>4. lmIsLeader' \in BOOLEAN
      BY <1>3, Zenon DEF RunStarted
    <2>5. /\ lead' \in BOOLEAN /\ isLeader' \in BOOLEAN
          /\ initialized' \in BOOLEAN /\ observed' \in BOOLEAN
          /\ stopped' \in BOOLEAN /\ stops' \in Nat
      BY <2>3 DEF TypeOK
    <2> QED
      BY <2>1, <2>2, <2>4, <2>5, Zenon DEF TypeOK
  <1>4. CASE RunStopped
    <2>1. stops' \in Nat
      BY <1>4 DEF TypeOK, RunStopped
    <2> QED
      BY <1>4, <2>1, Zenon DEF TypeOK, RunStopped
  <1>5. ASSUME NEW r \in Routine,
               RoutineReturns(r) \/ RoutineRestarts(r) \/ RoutineExits(r)
        PROVE TypeOK'
    BY <1>5 DEF TypeOK, RoutineReturns, RoutineRestarts, RoutineExits, Instances
  <1>6. CASE RaftTransition
    BY <1>6 DEF TypeOK, RaftTransition
  <1>7. CASE UNCHANGED vars
    BY <1>7 DEF TypeOK, vars
  <1> QED
    BY <1>1, <1>2, <1>3, <1>4, <1>5, <1>6, <1>7 DEF Next

(* With nothing live in the next state both safety invariants hold there.    *)
LEMMA NothingLiveIsSafe ==
    NoLiveWork' /\ TypeOK' => NoLeaderWorkUnlessLeading' /\ AtMostOneLiveInstance'
  BY DEF NoLiveWork, TypeOK, Instances, NoLeaderWorkUnlessLeading,
         AtMostOneLiveInstance, LiveInstances

(* One step of one routine's goroutine never adds to its live instances.     *)
LEMMA RoutineStepAddsNothing ==
    ASSUME TypeOK, NEW r \in Routine,
           RoutineReturns(r) \/ RoutineRestarts(r) \/ RoutineExits(r)
    PROVE  \A s \in Routine : LiveInstances(s)' = LiveInstances(s)
  BY DEF TypeOK, Instances, LiveInstances, RoutineReturns, RoutineRestarts,
         RoutineExits

LEMMA SafetyStep == IInv /\ [Next]_vars => IInv'
  <1> SUFFICES ASSUME IInv, [Next]_vars PROVE IInv'
    OBVIOUS
  <1>0. TypeOK /\ TypeOK'
    BY TypeStep DEF IInv
  <1> USE DEF IInv
  <1>1. CASE Ready
    <2>1. CASE lead /\ BecomeLeader /\ LeadershipChanged(lead)
      <3>1. NoLiveWork
        BY <2>1, <1>0 DEF LeadershipChanged, LeadingFlags, TypeOK
      <3>2. starts'.live = 1 /\ \A r \in Routine : LiveInstances(r)' = 0
        BY <1>0, <2>1, <3>1 DEF BecomeLeader, NoLiveWork, LiveInstances, TypeOK
      <3>3. initialized' /\ isLeader' /\ observed'
        BY <1>1, <2>1 DEF Ready, BecomeLeader, LeadershipChanged, LeadingFlags
      <3> QED
        BY <1>0, <3>2, <3>3 DEF LeadingFlags, NoLeaderWorkUnlessLeading,
                                AtMostOneLiveInstance
    <2>2. CASE BecomeFollower /\ LeadershipChanged(lead)
      <3>1. NoLiveWork'
        BY <1>0, <2>2, CancelLeavesNothingLive DEF BecomeFollower
      <3>2. isLeader' => initialized'
        BY <1>1, <2>2 DEF Ready, BecomeFollower, LeadershipChanged, LeadingFlags
      <3> QED
        BY <1>0, <3>1, <3>2, NothingLiveIsSafe DEF LeadingFlags
    <2>3. CASE /\ ~LeadershipChanged(lead)
               /\ UNCHANGED <<initialized, isLeader, starts, stops, inst>>
      <3>1. observed' = lead /\ lead = isLeader
        BY <1>0, <1>1, <2>3 DEF Ready, LeadershipChanged, TypeOK
      <3>2. LeadingFlags' /\ AtMostOneLiveInstance'
        BY <2>3 DEF LeadingFlags, AtMostOneLiveInstance, NoLiveWork, LiveInstances
      <3>3. CASE ~lead
        <4>1. NoLiveWork'
          BY <2>3, <3>1, <3>3 DEF LeadingFlags, NoLiveWork, LiveInstances
        <4> QED
          BY <1>0, <3>2, <4>1, NothingLiveIsSafe
      <3>4. CASE lead
        BY <1>0, <3>1, <3>2, <3>4 DEF NoLeaderWorkUnlessLeading
      <3> QED
        BY <3>3, <3>4
    <2> QED
      BY <1>1, <2>1, <2>2, <2>3 DEF Ready
  <1>2. CASE Shutdown
    <2>1. NoLiveWork'
      BY <1>0, <1>2, CancelLeavesNothingLive DEF Shutdown
    <2>2. LeadingFlags'
      BY <1>2, <2>1 DEF Shutdown, LeadingFlags
    <2> QED
      BY <1>0, <2>1, <2>2, NothingLiveIsSafe
  <1>3. ASSUME NEW status \in {"live", "cancelled"}, RunStarted(status)
        PROVE IInv'
    <2>1. CASE status = "live"
      <3>1. starts.live > 0 /\ starts'.live = starts.live - 1
        BY <1>0, <1>3, <2>1 DEF RunStarted, TypeOK
      <3>2. \A r \in Routine : LiveInstances(r)' = LiveInstances(r) + 1
        <4> TAKE r \in Routine
        <4>1. inst'[r] = [inst[r] EXCEPT !.run = @ + 1]
          BY <1>3, <2>1 DEF RunStarted
        <4> QED
          BY <1>0, <4>1 DEF LiveInstances, TypeOK, Instances
      <3>3. isLeader /\ observed
        BY <3>1 DEF LeadingFlags, NoLiveWork, NoLeaderWorkUnlessLeading
      <3>4. AtMostOneLiveInstance'
        BY <1>0, <3>1, <3>2 DEF AtMostOneLiveInstance, LiveInstances, TypeOK, Instances
      <3> QED
        BY <1>0, <1>3, <3>3, <3>4 DEF RunStarted, LeadingFlags,
                                      NoLeaderWorkUnlessLeading
    <2>2. CASE status = "cancelled"
      <3>1. starts'.live = starts.live
        BY <1>0, <1>3, <2>2 DEF RunStarted, TypeOK
      <3>2. \A r \in Routine : LiveInstances(r)' = LiveInstances(r)
        BY <1>0, <1>3, <2>2 DEF RunStarted, LiveInstances, TypeOK, Instances
      <3> QED
        BY <1>0, <1>3, <3>1, <3>2 DEF RunStarted, LeadingFlags, NoLiveWork,
             NoLeaderWorkUnlessLeading, AtMostOneLiveInstance
    <2> QED
      BY <2>1, <2>2
  <1>4. ASSUME NEW r \in Routine,
               RoutineReturns(r) \/ RoutineRestarts(r) \/ RoutineExits(r)
        PROVE IInv'
    <2>1. \A s \in Routine : LiveInstances(s)' = LiveInstances(s)
      BY <1>0, <1>4, RoutineStepAddsNothing
    <2>2. UNCHANGED <<isLeader, initialized, observed, starts>>
      BY <1>4 DEF RoutineReturns, RoutineRestarts, RoutineExits
    <2> QED
      BY <1>0, <2>1, <2>2 DEF LeadingFlags, NoLiveWork,
           NoLeaderWorkUnlessLeading, AtMostOneLiveInstance
  <1>5. CASE RunStopped \/ RaftTransition \/ UNCHANGED vars
    <2>1. UNCHANGED <<isLeader, initialized, observed, starts, inst>>
      BY <1>5 DEF RunStopped, RaftTransition, vars
    <2> QED
      BY <1>0, <2>1 DEF LeadingFlags, NoLiveWork, LiveInstances,
           NoLeaderWorkUnlessLeading, AtMostOneLiveInstance
  <1> QED
    BY <1>1, <1>2, <1>3, <1>4, <1>5 DEF Next

(* The state of the loop and of the LeaderManager stays within its types:    *)
(* no goroutine count is decremented below zero.                             *)
THEOREM TypeCorrect == Spec => []TypeOK
  BY InitType, TypeStep, PTL DEF Spec

LEMMA SafetyInvariant == Spec => []IInv
  <1>1. Init => IInv
    <2> SUFFICES ASSUME Init PROVE IInv
      OBVIOUS
    <2>1. TypeOK
      BY InitType
    <2>2. NoLiveWork /\ ~isLeader
      BY DEF Init, NoLiveWork, LiveInstances
    <2> QED
      BY <2>1, <2>2 DEF IInv, LeadingFlags, NoLiveWork, LiveInstances,
           NoLeaderWorkUnlessLeading, AtMostOneLiveInstance
  <1> QED
    BY <1>1, SafetyStep, PTL DEF Spec

(* Nothing carries a live leaderCtx once the loop has seen the loss of       *)
(* leadership, whatever order raft transitions and goroutines come in.       *)
THEOREM LeaderWorkIsCancelled == Spec => []NoLeaderWorkUnlessLeading
  BY SafetyInvariant, PTL DEF IInv

(* Two live copies of one leader routine never coexist.                      *)
THEOREM SingleLiveInstance == Spec => []AtMostOneLiveInstance
  BY SafetyInvariant, PTL DEF IInv
=============================================================================
