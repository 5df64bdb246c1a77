--------------------------- MODULE LeaderElection ---------------------------
(***************************************************************************)
(* The raft leadership loop of one operator process                        *)
(* (pkg/multicluster/leaderelection/lock.go, runRaft) and the LeaderManager *)
(* whose routines it starts and stops (manager.go).  The raft library is    *)
(* external: all the loop sees of it is the soft state carried by each      *)
(* Ready, here `lead`.                                                      *)
(*                                                                          *)
(* Callbacks run as goroutines of their own, so a callback is first         *)
(* spawned and runs at some later point, in any order with the others.      *)
(* Contexts are not numbered: cancelling leaderCtx turns every start        *)
(* callback and every routine instance that carries it from live to         *)
(* cancelled, and a fresh leaderCtx carries nothing yet.                    *)
(***************************************************************************)
EXTENDS Naturals

CONSTANTS Routine,    \* functions registered with RegisterRoutine
          MaxSpawned, \* bound on stop callbacks spawned and not yet run
          MaxInst     \* bound on instances of one routine

ASSUME MaxSpawnedAssumption == MaxSpawned \in Nat \ {0}
ASSUME MaxInstAssumption == MaxInst \in Nat \ {0}

VARIABLES
    lead,        \* external: raft's soft state says this node is the leader
    isLeader,    \* runRaft's local isLeader
    initialized, \* runRaft's local initialized
    observed,    \* transport.isLeader: nowLeader of the last Ready
    stopped,     \* ctx is done and the loop has returned
    starts,      \* OnStartedLeading goroutines not yet run: live, cancelled
    stops,       \* OnStoppedLeading goroutines not yet run
    lmIsLeader,  \* LeaderManager.isLeader
    inst         \* inst[r]: instances of r running, in back-off, cancelled

vars == <<lead, isLeader, initialized, observed, stopped, starts, stops,
          lmIsLeader, inst>>

Instances == [run: Nat, wait: Nat, cancelled: Nat]

TypeOK ==
    /\ lead \in BOOLEAN
    /\ isLeader \in BOOLEAN
    /\ initialized \in BOOLEAN
    /\ observed \in BOOLEAN
    /\ stopped \in BOOLEAN
    /\ starts \in [live: Nat, cancelled: Nat]
    /\ stops \in Nat
    /\ lmIsLeader \in BOOLEAN
    /\ inst \in [Routine -> Instances]

Init ==
    /\ lead = FALSE
    /\ isLeader = FALSE
    /\ initialized = FALSE
    /\ observed = FALSE
    /\ stopped = FALSE
    /\ starts = [live |-> 0, cancelled |-> 0]
    /\ stops = 0
    /\ lmIsLeader = FALSE
    /\ inst = [r \in Routine |-> [run |-> 0, wait |-> 0, cancelled |-> 0]]

-----------------------------------------------------------------------------
(* leaderCancel(): everything that carries the current leaderCtx sees it     *)
(* done.                                                                     *)
CancelStarts(s) == [live |-> 0, cancelled |-> s.cancelled + s.live]

(* Mutant: an instance waiting out its back-off does not watch ctx.Done().   *)
CancelInstNotInBackoff(i) ==
    [r \in Routine |->
        [run |-> 0, wait |-> i[r].wait, cancelled |-> i[r].cancelled + i[r].run]]

CancelInst(i) ==
    [r \in Routine |->
        [run |-> 0, wait |-> 0,
         cancelled |-> i[r].cancelled + i[r].run + i[r].wait]]

LeaderCancel ==
    /\ starts' = CancelStarts(starts)
    /\ inst' = CancelInst(inst)

(* Mutant: every Ready of a leader starts the routines again.                *)
LeadershipChangedOrLeading(nowLeader) ==
    nowLeader \/ nowLeader # isLeader \/ ~initialized

(* The condition under which a Ready starts or stops leading.  The loss      *)
(* branch never assigns isLeader, so once it is TRUE it stays TRUE.          *)
LeadershipChanged(nowLeader) == nowLeader # isLeader \/ ~initialized

(* Mutant: leaderCtx was not replaced after the first Ready cancelled it.    *)
BecomeLeaderStaleCtx ==
    /\ isLeader' = TRUE
    /\ starts' = [starts EXCEPT !.cancelled = @ + 1]
    /\ UNCHANGED <<stops, inst>>

(* "just became leader": OnStartedLeading is spawned with leaderCtx.         *)
BecomeLeader ==
    /\ isLeader' = TRUE
    /\ starts' = [starts EXCEPT !.live = @ + 1]
    /\ UNCHANGED <<stops, inst>>

(* Mutant: a loss that forgets leaderCancel().                               *)
BecomeFollowerNoCancel ==
    /\ stops' = stops + 1
    /\ UNCHANGED <<isLeader, starts, inst>>

(* Mutant: OnStoppedLeading is spawned once per loss.  Nothing then undoes a *)
(* start callback whose goroutine runs after the stop callback's.            *)
BecomeFollowerOnce ==
    /\ LeaderCancel
    /\ stops' = stops + 1
    /\ isLeader' = FALSE

(* "we became a follower": leaderCtx is cancelled and replaced, and          *)
(* OnStoppedLeading spawned.                                                 *)
BecomeFollower ==
    /\ LeaderCancel
    /\ stops' = stops + 1
    /\ UNCHANGED isLeader

(* One iteration of the select on node.Ready().                              *)
Ready ==
    /\ ~stopped
    /\ stops < MaxSpawned
    /\ observed' = lead
    /\ \/ /\ LeadershipChanged(lead)
          /\ initialized' = TRUE
          /\ IF lead THEN BecomeLeader ELSE BecomeFollower
       \/ /\ ~LeadershipChanged(lead)
          /\ UNCHANGED <<initialized, isLeader, starts, stops, inst>>
    /\ UNCHANGED <<lead, stopped, lmIsLeader>>

(* The ctx.Done() branch of the loop.                                        *)
Shutdown ==
    /\ ~stopped
    /\ stopped' = TRUE
    /\ LeaderCancel
    /\ stops' = IF isLeader THEN stops + 1 ELSE stops
    /\ UNCHANGED <<lead, isLeader, initialized, observed, lmIsLeader>>

-----------------------------------------------------------------------------
(* runLeaderRoutines: sets isLeader and starts one goroutine per routine on  *)
(* the context it was given, which may already be cancelled.                 *)
RunStarted(status) ==
    /\ starts[status] > 0
    /\ \A r \in Routine : inst[r].run + inst[r].wait + inst[r].cancelled < MaxInst
    /\ starts' = [starts EXCEPT ![status] = @ - 1]
    /\ lmIsLeader' = TRUE
    /\ inst' = [r \in Routine |->
                   IF status = "live" THEN [inst[r] EXCEPT !.run = @ + 1]
                                      ELSE [inst[r] EXCEPT !.cancelled = @ + 1]]
    /\ UNCHANGED <<lead, isLeader, initialized, observed, stopped, stops>>

(* The OnStoppedLeading callback of NewRaftLockManager.                      *)
RunStopped ==
    /\ stops > 0
    /\ stops' = stops - 1
    /\ lmIsLeader' = FALSE
    /\ UNCHANGED <<lead, isLeader, initialized, observed, stopped, starts, inst>>

(* fn returns while its context is live: it is restarted after 10 seconds.   *)
RoutineReturns(r) ==
    /\ inst[r].run > 0
    /\ inst' = [inst EXCEPT ![r].run = @ - 1, ![r].wait = @ + 1]
    /\ UNCHANGED <<lead, isLeader, initialized, observed, stopped, starts,
                   stops, lmIsLeader>>

RoutineRestarts(r) ==
    /\ inst[r].wait > 0
    /\ inst' = [inst EXCEPT ![r].wait = @ - 1, ![r].run = @ + 1]
    /\ UNCHANGED <<lead, isLeader, initialized, observed, stopped, starts,
                   stops, lmIsLeader>>

(* An instance that sees its context done returns for good.                  *)
RoutineExits(r) ==
    /\ inst[r].cancelled > 0
    /\ inst' = [inst EXCEPT ![r].cancelled = @ - 1]
    /\ UNCHANGED <<lead, isLeader, initialized, observed, stopped, starts,
                   stops, lmIsLeader>>

(* External: an election makes this node the leader, or it steps down.       *)
RaftTransition ==
    /\ ~stopped
    /\ lead' = ~lead
    /\ UNCHANGED <<isLeader, initialized, observed, stopped, starts, stops,
                   lmIsLeader, inst>>

Next ==
    \/ Ready
    \/ Shutdown
    \/ \E status \in {"live", "cancelled"} : RunStarted(status)
    \/ RunStopped
    \/ \E r \in Routine :
          RoutineReturns(r) \/ RoutineRestarts(r) \/ RoutineExits(r)
    \/ RaftTransition

Spec == Init /\ [][Next]_vars

(***************************************************************************)
(* Fairness: ticks and heartbeats keep producing Readys, the Go scheduler  *)
(* runs every spawned goroutine, and a routine's contract is to return once *)
(* its context is done.                                                     *)
(***************************************************************************)
Fairness ==
    /\ WF_vars(Ready)
    /\ WF_vars(RunStopped)
    /\ \A status \in {"live", "cancelled"} : WF_vars(RunStarted(status))
    /\ \A r \in Routine : WF_vars(RoutineRestarts(r)) /\ WF_vars(RoutineExits(r))

FairSpec == Spec /\ Fairness

-----------------------------------------------------------------------------
LiveInstances(r) == inst[r].run + inst[r].wait

(* A routine, or the callback about to start it, carries an uncancelled      *)
(* leaderCtx only while the loop's last Ready saw this node as leader: what  *)
(* the loop cancels on a loss reaches routines whose start callback had not  *)
(* run yet.                                                                  *)
NoLeaderWorkUnlessLeading ==
    (starts.live > 0 \/ \E r \in Routine : LiveInstances(r) > 0) => observed

(* No leadership, regained or not, ever has two live instances of one        *)
(* leader routine (two copies of a controller in one process).               *)
AtMostOneLiveInstance ==
    \A r \in Routine : starts.live + LiveInstances(r) <= 1

(* A node that stays out of leadership ends up with no routine running, in   *)
(* back-off or still winding down.                                           *)
FollowerQuiesces ==
    <>[](~lead \/ stopped) =>
        <>[](\A r \in Routine : LiveInstances(r) = 0 /\ inst[r].cancelled = 0)

(* A follower's IsLeader() ends up false whatever order the start and stop   *)
(* callbacks' goroutines run in: both write LeaderManager.isLeader.          *)
IsLeaderClears == <>[](~lead /\ ~stopped) => <>[]~lmIsLeader

(* A node that keeps its first leadership (isLeader is set at the first      *)
(* Ready that sees it) ends up with exactly one instance of every routine.   *)
FirstLeadershipRuns ==
    [](isLeader => lead) =>
        (<>[](lead /\ ~stopped) => <>[](\A r \in Routine : LiveInstances(r) = 1))

(* RegisterRoutine: a routine is "started ... whenever this node becomes the *)
(* raft leader" (manager.go), so a node that stays leader runs its routines. *)
LeaderRunsRoutines ==
    <>[](lead /\ ~stopped) => <>[](\A r \in Routine : LiveInstances(r) = 1)
=============================================================================
