------------------------------ MODULE PoolRoll ------------------------------
(***************************************************************************)
(* Node pools run as StatefulSets: RedpandaReconciler's pass over the pools *)
(* (operator/internal/controller/redpanda/redpanda_controller.go) and the   *)
(* planners of operator/internal/lifecycle/pool.go.                         *)
(*                                                                          *)
(* A pass lists the StatefulSets, then their pods, and plans every later    *)
(* step on those lists, while the StatefulSet controller, kubelet and       *)
(* Redpanda move on.  What it asks Redpanda is answered live.               *)
(***************************************************************************)
EXTENDS Integers, Sequences, FiniteSets, FiniteSetsExt

CONSTANTS Pools,       \* node pools, as numbers in the order of their names
          MaxReplicas, \* ordinals are 0..MaxReplicas-1
          Scripts,     \* sequences of specs the owner may go through
          Bad,         \* templates whose redpanda container cannot start
          Legacy,      \* templates of a Redpanda without restart probes
          MaxFaults    \* bound on evictions, crashes and aborted passes

Slot == Pools \X (0 .. MaxReplicas - 1)
Absent == -1 \* replicas of a pool, or of a StatefulSet, that does not exist
SpecOf == UNION {{s[i] : i \in DOMAIN s} : s \in Scripts}
Templates == {s.tmpl : s \in SpecOf}

(* A spec: replicas by pool, the pod template, and the generations that      *)
(* label StatefulSets: the cluster's and the pool's own.                     *)
ASSUME PoolAssumption ==
    /\ Pools \subseteq Nat /\ IsFiniteSet(Pools)
    /\ MaxReplicas \in Nat \ {0}
    /\ MaxFaults \in Nat
ASSUME ScriptAssumption ==
    \A s \in Scripts :
        /\ Len(s) > 0 /\ s[1].tmpl \notin Bad
        /\ \A i \in DOMAIN s :
            /\ s[i].want \in [Pools -> Absent .. MaxReplicas]
            /\ s[i].gen \in Nat /\ s[i].poolGen \in [Pools -> Nat]

VARIABLES
    script, edit, \* the owner's specs, and the current one
    sts,     \* StatefulSets
    pod,     \* pods
    pc, snap, \* the reconciler's pass: the step it is at and what it has read
    member,  \* external: Redpanda's membership of the broker at a slot
    seen,    \* external: members the health overview reports unhealthy
    blocked, \* external: slots whose pod cannot be created, as while its
             \* PersistentVolumeClaim is being deleted
    rolled,  \* history: taken down by a roll, not yet caught up again
    faults

owner == <<script, edit>>
world == <<member, seen, blocked, rolled, faults>>
vars == <<owner, sts, pod, pc, snap, world>>

-----------------------------------------------------------------------------
NoPod == [st |-> "none", rev |-> 0, del |-> FALSE]
(* starting: container created; recovering: serves, replays its partitions;  *)
(* up: caught up; failing: the redpanda container cannot start.              *)
NewPod(t) == [st |-> "starting", rev |-> t, del |-> FALSE]
NoSet == [spec |-> Absent, status |-> 0, tmpl |-> 0, rev |-> 0, gen |-> 0, poolGen |-> 0]
NoSnap == [edit |-> 0]

HasPod(f, s) == f[s].st # "none"
Serving(f, s) == f[s].st \in {"recovering", "up"}
IsMember(s) == member[s] \in {"active", "draining"}
Before(s, t) == s[1] < t[1] \/ (s[1] = t[1] /\ s[2] < t[2])
FirstOf(S) == CHOOSE s \in S : \A t \in S \ {s} : Before(s, t)
LastOf(S) == CHOOSE s \in S : \A t \in S \ {s} : Before(t, s)

TypeOK ==
    /\ script \in Scripts /\ edit \in DOMAIN script
    /\ sts \in [Pools -> [spec: Absent .. MaxReplicas, status: 0 .. MaxReplicas,
                          tmpl: Templates \cup {0}, rev: Templates \cup {0},
                          gen: Nat, poolGen: Nat]]
    /\ pod \in [Slot -> [st: {"none", "starting", "recovering", "up", "failing"},
                         rev: Templates \cup {0}, del: BOOLEAN]]
    /\ pc \in {"idle", "list", "pools", "failed", "health", "act"}
    /\ (pc = "idle") = (snap = NoSnap)
    /\ member \in [Slot -> {"none", "active", "draining", "removed"}]
    /\ seen \subseteq Slot /\ blocked \subseteq Slot /\ rolled \subseteq Slot
    /\ faults \in 0 .. MaxFaults

Init ==
    /\ script \in Scripts
    /\ edit = 1
    /\ LET s == script[1]
           In(q) == q[2] < s.want[q[1]]
       IN  /\ sts = [p \in Pools |->
                        IF s.want[p] = Absent THEN NoSet
                        ELSE [spec |-> s.want[p], status |-> s.want[p], tmpl |-> s.tmpl,
                              rev |-> s.tmpl, gen |-> s.gen, poolGen |-> s.poolGen[p]]]
           /\ pod = [q \in Slot |-> IF In(q) THEN [NewPod(s.tmpl) EXCEPT !.st = "up"] ELSE NoPod]
           /\ member = [q \in Slot |-> IF In(q) THEN "active" ELSE "none"]
    /\ pc = "idle" /\ snap = NoSnap
    /\ seen = {} /\ blocked = {} /\ rolled = {}
    /\ faults = 0

-----------------------------------------------------------------------------
(* PoolTracker: what the pass has read.                                      *)
Desired == script[snap.edit]
Want(p) == Desired.want[p]
Set(p) == snap.sts[p]
Existing == {p \in Pools : Set(p).spec # Absent}
Pods(p) == {s \in Slot : s[1] = p /\ HasPod(snap.pod, s)}
AllPods == UNION {Pods(p) : p \in Existing}

AllZero == \A p \in Pools : Want(p) <= 0

(* Mutant: the pods a StatefulSet still has are not counted.                 *)
CheckScaleBySpec == \A p \in Existing : Set(p).spec >= 0

CheckScale ==
    \A p \in Existing :
        Set(p).spec = Set(p).status /\ Set(p).spec = Cardinality(Pods(p))

ToCreate == {p \in Pools \ Existing : Want(p) # Absent}
ToScaleUp == {p \in Existing : Set(p).spec < Want(p)}
RequiresUpdate ==
    {p \in Existing : /\ Set(p).spec = Want(p)
                      /\ \/ Set(p).gen # Desired.gen
                         \/ Set(p).poolGen # Desired.poolGen[p]}
ToScaleDown == {p \in Existing : Set(p).spec > Want(p) /\ Set(p).spec > 0 /\ Pods(p) # {}}
ToDelete ==
    {p \in Existing : Want(p) = Absent /\ Set(p).spec = 0 /\ Set(p).status = 0}

IsCurrent(s) == snap.pod[s].rev = Set(s[1]).rev
Removing(s) == s[2] >= Want(s[1])
PodsToRoll == {s \in AllPods : ~IsCurrent(s)}

HasRecentlyReplacedPods ==
    \E s \in AllPods : snap.pod[s].del \/ (IsCurrent(s) /\ s \notin snap.ready)

(* External: a pod is Ready when its broker serves and the health overview   *)
(* has nothing to report.                                                    *)
IsHealthy == seen = {}
ReadyPods == {s \in Slot : Serving(pod, s) /\ IsHealthy}

-----------------------------------------------------------------------------
(* The pass.                                                                 *)
End == pc' = "idle" /\ snap' = NoSnap
Goto(step) == pc' = step /\ UNCHANGED snap

(* fetchInitialState: the owner's spec and the StatefulSets, then their      *)
(* revisions and pods.                                                       *)
FetchSets ==
    /\ pc = "idle"
    /\ pc' = "list" /\ snap' = [edit |-> edit, sts |-> sts]
    /\ UNCHANGED <<owner, sts, pod, world>>

FetchPods ==
    /\ pc = "list"
    /\ pc' = "pools"
    /\ snap' = [edit |-> snap.edit,
                sts |-> [p \in Pools |-> [Set(p) EXCEPT !.rev = sts[p].rev]],
                pod |-> pod, ready |-> ReadyPods, map |-> {}, healthy |-> FALSE]
    /\ UNCHANGED <<owner, sts, pod, world>>

(* reconcilePools: creations, scale-ups and updates, in that order; a patch  *)
(* that fails ends the pass.                                                 *)
Rendered(p) ==
    [sts[p] EXCEPT !.spec = Want(p), !.tmpl = Desired.tmpl, !.gen = Desired.gen,
                   !.poolGen = Desired.poolGen[p]]
Rank(p) == <<IF p \in ToCreate THEN 1 ELSE IF p \in ToScaleUp THEN 2 ELSE 3, p>>
ToPatch == IF CheckScale THEN ToCreate \cup ToScaleUp \cup RequiresUpdate ELSE {}
ReconcilePools ==
    /\ pc = "pools"
    /\ \E P \in SUBSET ToPatch :
        /\ \A p \in P, q \in ToPatch \ P : Before(Rank(p), Rank(q))
        /\ sts' = [p \in Pools |-> IF p \in P THEN Rendered(p) ELSE sts[p]]
        /\ IF P = ToPatch THEN Goto("failed") /\ UNCHANGED faults
           ELSE End /\ faults < MaxFaults /\ faults' = faults + 1
    /\ UNCHANGED <<owner, pod, member, seen, blocked, rolled>>

-----------------------------------------------------------------------------
(* NextFailedPod and the rules of failedpods: an outdated pod that cannot    *)
(* start, that no peer sees alive, with no pod terminating and no sign that  *)
(* the current template fails.                                               *)
MayBeCandidate(s) ==
    /\ ~IsCurrent(s) /\ ~Removing(s) /\ ~snap.pod[s].del
    /\ snap.pod[s].st = "failing"

Voices == {s \in AllPods : Serving(snap.pod, s)}
Answered == {s \in Voices : Serving(pod, s)}
KnownMember(s) == Answered # {} /\ IsMember(s)
ReportedAlive(s) == KnownMember(s) /\ Answered \ {s} # {} /\ s \notin seen
Unheard(s) == Voices \ {s} # {} /\ Answered \ {s} = {}
Candidate(s) == MayBeCandidate(s) /\ ~ReportedAlive(s) /\ ~Unheard(s)

IsUp(s) == s \in Voices /\ (Voices \ {s} = {} \/ ReportedAlive(s))
Hold(s) ==
    \/ \E q \in AllPods : snap.pod[q].del
    \/ LET current == {q \in Pods(s[1]) : IsCurrent(q) /\ ~Removing(q)}
           up == {q \in current : KnownMember(q) /\ IsUp(q)}
           waiting == {q \in current : /\ ~KnownMember(q)
                                       /\ \E r \in Answered : IsMember(r)
                                       /\ snap.pod[q].st # "failing"}
       IN  up = {} /\ current \ waiting # {}

(* Mutant: failed pods wait for the gated roll.                              *)
FailedPodsGated == {}

FailedPods ==
    IF AllZero \/ ~CheckScale \/ ToCreate \cup ToScaleUp \cup RequiresUpdate # {}
    THEN {}
    ELSE {s \in AllPods : Candidate(s) /\ ~Hold(s)}

(* The pod is still as it was judged.                                        *)
(* Mutant: the delete has no precondition.                                   *)
UnchangedAny(s) == TRUE
Unchanged(s) == pod[s] = snap.pod[s]

ReconcileFailedPods ==
    /\ pc = "failed"
    /\ IF FailedPods # {} /\ (Unchanged(FirstOf(FailedPods)) \/ ~HasPod(pod, FirstOf(FailedPods)))
       THEN /\ pod' = [pod EXCEPT ![FirstOf(FailedPods)].del = HasPod(pod, FirstOf(FailedPods))]
            /\ End
       ELSE Goto("health") /\ UNCHANGED pod
    /\ UNCHANGED <<owner, sts, world>>

-----------------------------------------------------------------------------
(* reconcileDecommission.                                                    *)
FetchHealth ==
    /\ pc = "health"
    /\ IF AllZero \/ ~ \E s \in Slot : Serving(pod, s)
       THEN End
       ELSE /\ pc' = "act"
            /\ snap' = [snap EXCEPT !.map = {s \in Slot : IsMember(s)}, !.healthy = IsHealthy]
    /\ UNCHANGED <<owner, sts, pod, world>>

Shrinking == CHOOSE p \in ToScaleDown : \A q \in ToScaleDown : p <= q
LastPod == LastOf(Pods(Shrinking))
MayScaleDown == pc = "act" /\ ToScaleDown # {} /\ CheckScale

ScaleDownSettles ==
    /\ pc = "act" /\ ToScaleDown # {} /\ ~CheckScale
    /\ End
    /\ UNCHANGED <<owner, sts, pod, world>>

StartDecommission ==
    /\ MayScaleDown /\ LastPod \in snap.map /\ member[LastPod] = "active"
    /\ member' = [member EXCEPT ![LastPod] = "draining"]
    /\ End
    /\ UNCHANGED <<owner, sts, pod, seen, blocked, rolled, faults>>

AwaitDecommission ==
    /\ MayScaleDown /\ LastPod \in snap.map /\ member[LastPod] = "draining"
    /\ End
    /\ UNCHANGED <<owner, sts, pod, world>>

(* The StatefulSet as it was read, one replica less, labelled with the       *)
(* cluster's generation.                                                     *)
OneLess(p) ==
    [sts[p] EXCEPT !.spec = Set(p).spec - 1, !.tmpl = Set(p).tmpl, !.gen = Desired.gen,
                   !.poolGen = Set(p).poolGen]
Drained(s) == s \notin snap.map \/ member[s] = "removed"
ScaleDown ==
    /\ MayScaleDown /\ Drained(LastPod)
    /\ sts' = [sts EXCEPT ![Shrinking] = OneLess(Shrinking)]
    /\ rolled' = rolled \ {<<Shrinking, Set(Shrinking).spec - 1>>}
    /\ End
    /\ UNCHANGED <<owner, pod, member, seen, blocked, faults>>

(* The gates in front of the roll, then the first pod that may go.           *)
Deleted == [p \in Pools |-> IF p \in ToDelete THEN NoSet ELSE sts[p]]
MayRoll == pc = "act" /\ ToScaleDown = {}

(* A broker that does not answer its post-restart probe fails the gate; one  *)
(* without the probe counts as caught up.                                    *)
(* Mutant: a probe error is passed over.                                     *)
BrokersStillRecoveringIgnoringErrors ==
    \E s \in snap.map : pod[s].st = "recovering" /\ pod[s].rev \notin Legacy
BrokersStillRecovering ==
    \E s \in snap.map :
        \/ ~Serving(pod, s)
        \/ pod[s].st = "recovering" /\ pod[s].rev \notin Legacy

(* External: the pre-restart probe of a broker that has one.                 *)
PreRestartProbe(s) == \A t \in Slot \ {s} : IsMember(t) => pod[t].st = "up"
BrokerSafeToRestart(s) ==
    /\ Serving(pod, s)
    /\ IF pod[s].rev \in Legacy THEN snap.healthy ELSE PreRestartProbe(s)
ShouldRoll(s) == IF s \in snap.map THEN BrokerSafeToRestart(s) ELSE snap.healthy
MayGo == {s \in PodsToRoll : ShouldRoll(s)}
RollHeld == HasRecentlyReplacedPods \/ BrokersStillRecovering \/ MayGo = {}

NothingRolled ==
    /\ MayRoll /\ RollHeld
    /\ sts' = Deleted
    /\ End
    /\ UNCHANGED <<owner, pod, world>>

Roll ==
    /\ MayRoll /\ ~RollHeld
    /\ sts' = Deleted
    /\ LET s == FirstOf(MayGo)
       IN  /\ pod' = [pod EXCEPT ![s].del = HasPod(pod, s)]
           /\ rolled' = IF IsMember(s) /\ HasPod(pod, s) THEN rolled \cup {s} ELSE rolled
    /\ End
    /\ UNCHANGED <<owner, member, seen, blocked, faults>>

(* An error, the pass's deadline, or a restart of the operator.              *)
Abort ==
    /\ pc # "idle" /\ faults < MaxFaults
    /\ End
    /\ faults' = faults + 1
    /\ UNCHANGED <<owner, sts, pod, member, seen, blocked, rolled>>

Pass ==
    \/ FetchSets \/ FetchPods \/ ReconcilePools \/ ReconcileFailedPods \/ FetchHealth
    \/ ScaleDownSettles \/ StartDecommission \/ AwaitDecommission \/ ScaleDown
    \/ NothingRolled \/ Roll

-----------------------------------------------------------------------------
(* External: the owner, the StatefulSet controller, kubelet, Redpanda.       *)
Edit ==
    /\ edit < Len(script)
    /\ edit' = edit + 1
    /\ UNCHANGED <<script, sts, pod, pc, snap, world>>

(* The StatefulSet controller creates missing pods and deletes those beyond  *)
(* spec.replicas, all at once (podManagementPolicy Parallel).                *)
StatefulSetSyncs(p) ==
    /\ sts[p].spec # Absent
    /\ LET f == [s \in Slot |->
                    IF s[1] # p THEN pod[s]
                    ELSE IF s[2] >= sts[p].spec THEN [pod[s] EXCEPT !.del = HasPod(pod, s)]
                    ELSE IF ~HasPod(pod, s) /\ s \notin blocked THEN NewPod(sts[p].tmpl)
                    ELSE pod[s]]
       IN  /\ pod' = f
           /\ sts' = [sts EXCEPT ![p].rev = sts[p].tmpl,
                                 ![p].status = Cardinality({s \in Slot : s[1] = p /\ HasPod(f, s)})]
    /\ UNCHANGED <<owner, pc, snap, world>>

(* A broker starts, joins or rejoins.  One whose disk holds an identity that *)
(* was decommissioned is refused.                                            *)
Fails(s) == pod[s].rev \in Bad \/ member[s] = "removed"
Starts(s) ==
    /\ pod[s].st = "starting" /\ ~pod[s].del
    /\ pod' = [pod EXCEPT ![s].st = IF Fails(s) THEN "failing" ELSE "recovering"]
    /\ member' = IF member[s] = "none" /\ ~Fails(s)
                 THEN [member EXCEPT ![s] = "active"] ELSE member
    /\ UNCHANGED <<owner, sts, pc, snap, seen, blocked, rolled, faults>>

CatchesUp(s) ==
    /\ pod[s].st = "recovering" /\ ~pod[s].del
    /\ pod' = [pod EXCEPT ![s].st = "up"]
    /\ rolled' = rolled \ {s}
    /\ UNCHANGED <<owner, sts, pc, snap, member, seen, blocked, faults>>

Crashes(s) ==
    /\ pod[s].st = "up" /\ ~pod[s].del /\ faults < MaxFaults
    /\ pod' = [pod EXCEPT ![s].st = "failing"]
    /\ faults' = faults + 1
    /\ UNCHANGED <<owner, sts, pc, snap, member, seen, blocked, rolled>>

Restarts(s) ==
    /\ pod[s].st = "failing" /\ ~pod[s].del /\ ~Fails(s)
    /\ pod' = [pod EXCEPT ![s].st = "recovering"]
    /\ UNCHANGED <<owner, sts, pc, snap, world>>

Terminated(s) ==
    /\ pod[s].del
    /\ pod' = [pod EXCEPT ![s] = NoPod]
    /\ UNCHANGED <<owner, sts, pc, snap, world>>

(* A pod is evicted, with its PersistentVolumeClaim deleted or its node gone.*)
Evicted(s) ==
    /\ HasPod(pod, s) /\ ~pod[s].del /\ faults < MaxFaults
    /\ pod' = [pod EXCEPT ![s].del = TRUE]
    /\ blocked' = blocked \cup {s}
    /\ faults' = faults + 1
    /\ UNCHANGED <<owner, sts, pc, snap, member, seen, rolled>>

Unblocked(s) ==
    /\ s \in blocked /\ ~HasPod(pod, s)
    /\ blocked' = blocked \ {s}
    /\ UNCHANGED <<owner, sts, pod, pc, snap, member, seen, rolled, faults>>

Unhealthy == {s \in Slot : IsMember(s) /\ pod[s].st # "up"}
HealthRefreshes ==
    /\ seen # Unhealthy
    /\ seen' = Unhealthy
    /\ UNCHANGED <<owner, sts, pod, pc, snap, member, blocked, rolled, faults>>

DecommissionFinishes(s) ==
    /\ member[s] = "draining"
    /\ \E t \in Slot \ {s} : member[t] = "active" /\ Serving(pod, t)
    /\ member' = [member EXCEPT ![s] = "removed"]
    /\ rolled' = rolled \ {s}
    /\ UNCHANGED <<owner, sts, pod, pc, snap, seen, blocked, faults>>

External ==
    \/ Edit \/ HealthRefreshes
    \/ \E p \in Pools : StatefulSetSyncs(p)
    \/ \E s \in Slot :
          \/ Starts(s) \/ CatchesUp(s) \/ Crashes(s) \/ Restarts(s) \/ Terminated(s)
          \/ Evicted(s) \/ Unblocked(s) \/ DecommissionFinishes(s)

Next == Pass \/ Abort \/ External
Spec == Init /\ [][Next]_vars

(* Passes are requeued until they have nothing left to do; the StatefulSet   *)
(* controller, kubelet and Redpanda finish what they began.                  *)
Fairness ==
    /\ WF_vars(Pass)
    /\ WF_vars(HealthRefreshes)
    /\ \A p \in Pools : WF_vars(StatefulSetSyncs(p))
    /\ \A s \in Slot :
        /\ WF_vars(Starts(s)) /\ WF_vars(CatchesUp(s)) /\ WF_vars(Restarts(s))
        /\ WF_vars(Terminated(s)) /\ WF_vars(Unblocked(s))
        /\ WF_vars(DecommissionFinishes(s))
FairSpec == Spec /\ Fairness

-----------------------------------------------------------------------------
(* The roll implements RollLock: no pod is rolled until the broker rolled    *)
(* before it has caught up or left the cluster, although the pass plans on    *)
(* lists that trail the pods.                                                *)
Lock == INSTANCE RollLock WITH Broker <- Slot, down <- rolled
ImplementsRollLock == Lock!Spec

(* A StatefulSet drops a broker that was a member when the pass read the     *)
(* membership only once that broker is drained, unless the pool was missing  *)
(* a pod when it was listed.                                                 *)
Hole(p) == \E i \in 0 .. Set(p).spec - 1 : ~HasPod(snap.pod, <<p, i>>)
Dropped(p) == <<p, sts'[p].spec>>
DrainedBeforeDropped ==
    [][\A p \in Pools :
          sts'[p].spec \in 0 .. sts[p].spec - 1
          => \/ Dropped(p) \notin snap.map \/ Hole(p)
             \/ member[Dropped(p)] = "removed"]_vars

(* A pod replaced because its broker cannot start does not serve.            *)
FailedPodServesNothing ==
    [][ReconcileFailedPods
       => \A s \in Slot : ~pod[s].del /\ pod'[s].del => ~Serving(pod, s)]_vars

(* Once the owner settles on a template that can start, every pool ends at   *)
(* the size asked for, all its brokers caught up and on its StatefulSet's    *)
(* template, and a removed pool is gone.                                     *)
Settled ==
    \A p \in Pools :
        /\ sts[p].spec = script[edit].want[p]
        /\ \A s \in Slot :
            s[1] = p =>
                IF s[2] < sts[p].spec
                THEN pod[s].st = "up" /\ ~pod[s].del /\ pod[s].rev = sts[p].tmpl
                ELSE ~HasPod(pod, s)
PoolsSettle == <>[](script[edit].tmpl \notin Bad) => <>[]Settled

(* The template the owner settled on reaches every StatefulSet.  The code    *)
(* falls short of it, as the README tells.                                   *)
TemplateApplied ==
    <>[](\A p \in Pools : sts[p].spec # Absent => sts[p].tmpl = script[edit].tmpl)
=============================================================================
