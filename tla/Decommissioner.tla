--------------------------- MODULE Decommissioner ---------------------------
(***************************************************************************)
(* The StatefulSet decommissioner of                                        *)
(* operator/internal/controller/decommissioning: for each StatefulSet of a  *)
(* cluster it deletes claims that no pod uses and decommissions brokers     *)
(* that are down and superfluous.  It decides on informers and on a health  *)
(* report that may be old, so it acts only on what it has found twice, an   *)
(* interval apart, and without a pass between that found otherwise.         *)
(*                                                                          *)
(* A tick is the requeue timeout, a third of that interval.  Informers, the *)
(* health report and the StatefulSet controller lag by less than a tick.    *)
(***************************************************************************)
EXTENDS Integers, FiniteSets, FiniteSetsExt

CONSTANTS Pod,       \* pairs of a pool, a StatefulSet, and an ordinal
          Sizes,     \* replicas each pool may start with
          Modes,     \* options the controller may be built with
          MaxId,     \* bound on node_ids
          MaxScales, \* bound on changes of replicas
          MaxFaults  \* bound on lost disks and pods, failed calls and restarts

Pool == {p[1] : p \in Pod}
PodsOf(q) == {p \in Pod : p[1] = q}
Id == 1 .. MaxId
Interval == 3
DelayedMaxCacheCount == 2
Sources == {"sets", "pods", "claims", "health"}
NoMark == [count |-> 0, age |-> 0]
NewMark == [count |-> 1, age |-> 0]
CacheMarks == {NoMark} \cup [count: 1 .. DelayedMaxCacheCount, age: 0 .. Interval]
NoClaim == [disk |-> -1, del |-> FALSE] \* an empty disk is 0
NoMember == [pod |-> CHOOSE p \in Pod : TRUE, st |-> "none"]

ASSUME DecommissionerAssumption ==
    /\ Pod # {} /\ IsFiniteSet(Pod) /\ \A p \in Pod : p[2] \in Nat
    /\ Sizes \subseteq [Pool -> Nat]
    /\ \A n \in Sizes : Cardinality({p \in Pod : p[2] < n[p[1]]}) <= MaxId
    /\ Modes \subseteq [cleanup: BOOLEAN, tooHigh: BOOLEAN]
    /\ {MaxId, MaxScales, MaxFaults} \subseteq Nat

VARIABLES
    mode,
    replicas, pod, claim,
    member, \* the cluster's brokers by node_id
    seen,   \* what the informers and the health report last showed
    vol,    \* delayedVolumeCache
    ids,    \* delayedBrokerIDCache, by StatefulSet
    ran,    \* pools that had a pass since the last tick
    since,  \* history: node_ids whose pod has been wanted ever since they joined
    back,   \* history: node_ids that ran at some time after they were asked to leave
    held,   \* history: pods that had a claim at some moment since the last tick
    bare,   \* history: pods that did not exist at some moment since the last tick
    idle,   \* history: for how many ticks before the last each pod was both, capped
    scales, faults

kube == <<replicas, pod, claim>>
marks == <<vol, ids>>
usage == <<held, bare, idle>>
history == <<since, back, usage>>
bounds == <<scales, faults>>
vars == <<mode, kube, member, seen, marks, ran, history, bounds>>

-----------------------------------------------------------------------------
Wanted(p) == p[2] < replicas[p[1]]
Members == {i \in Id : member[i].st \in {"active", "draining"}}
Runs(i) == pod[member[i].pod] = "up" /\ claim[member[i].pod].disk = i
Current(i) == claim[member[i].pod] = [disk |-> i, del |-> FALSE]
NextId == Cardinality({i \in Id : member[i].st # "none"}) + 1

HasClaim(p) == claim[p] # NoClaim /\ ~claim[p].del
Live == [sets |-> replicas,
         pods |-> {p \in Pod : pod[p] # "none"},
         claims |-> {p \in Pod : HasClaim(p)},
         health |-> [all |-> Members, down |-> {i \in Members : ~Runs(i)}]]

(* Types of the cluster's objects and of the two delayed caches, which keep  *)
(* an entry for every claim and, per StatefulSet, for every node_id.         *)
TypeOK ==
    /\ mode \in Modes
    /\ replicas \in [Pool -> Nat]
    /\ pod \in [Pod -> {"none", "starting", "up"}]
    /\ claim \in [Pod -> [disk: -1 .. MaxId, del: BOOLEAN]]
    /\ member \in [Id -> [pod: Pod, st: {"none", "active", "draining", "gone"}]]
    /\ seen \in [sets: [Pool -> Nat], pods: SUBSET Pod, claims: SUBSET Pod,
                 health: [all: SUBSET Id, down: SUBSET Id]]
    /\ ran \subseteq Pool /\ since \subseteq Id /\ back \subseteq Id
    /\ held \subseteq Pod /\ bare \subseteq Pod /\ idle \in [Pod -> 0 .. Interval]
    /\ vol \in [Pod -> CacheMarks] /\ ids \in [Pool -> [Id -> CacheMarks]]
    /\ scales \in 0 .. MaxScales /\ faults \in 0 .. MaxFaults

Init ==
    /\ mode \in Modes
    /\ replicas \in Sizes
    /\ LET wanted == {p \in Pod : Wanted(p)}
           n      == Cardinality(wanted)
           at     == CHOOSE f \in [1 .. n -> wanted] : \A p \in wanted : \E i \in 1 .. n : f[i] = p
       IN  /\ pod = [p \in Pod |-> IF p \in wanted THEN "up" ELSE "none"]
           /\ claim = [p \in Pod |-> IF p \in wanted
                                     THEN [disk |-> CHOOSE i \in 1 .. n : at[i] = p, del |-> FALSE]
                                     ELSE NoClaim]
           /\ member = [i \in Id |-> IF i <= n THEN [pod |-> at[i], st |-> "active"] ELSE NoMember]
           /\ since = 1 .. n /\ back = {}
    /\ seen = Live
    /\ vol = [p \in Pod |-> NoMark] /\ ids = [q \in Pool |-> [i \in Id |-> NoMark]]
    /\ held = seen.claims /\ bare = Pod \ seen.pods /\ idle = [p \in Pod |-> 0]
    /\ ran = {} /\ scales = 0 /\ faults = 0

-----------------------------------------------------------------------------
(* External: the owner, the StatefulSet controller, Redpanda, lost pods and  *)
(* disks.                                                                    *)
Scale(q) ==
    /\ scales < MaxScales
    /\ \E n \in 1 .. Cardinality(PodsOf(q)) : n # replicas[q] /\ replicas' = [replicas EXCEPT ![q] = n]
    /\ since' = {i \in since : member[i].pod[2] < replicas'[member[i].pod[1]]}
    /\ scales' = scales + 1
    /\ UNCHANGED <<mode, pod, claim, member, seen, marks, ran, back, usage, faults>>

Creatable(p) == Wanted(p) /\ pod[p] = "none" /\ ~claim[p].del
StsCreates(p) ==
    /\ Creatable(p)
    /\ pod' = [pod EXCEPT ![p] = "starting"]
    /\ claim' = [claim EXCEPT ![p] = IF @ = NoClaim THEN [disk |-> 0, del |-> FALSE] ELSE @]
    /\ held' = held \cup {p}
    /\ UNCHANGED <<mode, replicas, member, seen, marks, ran, since, back, bare, idle, bounds>>

Deletable(p) == ~Wanted(p) /\ pod[p] # "none"
StsDeletes(p) ==
    /\ Deletable(p)
    /\ pod' = [pod EXCEPT ![p] = "none"]
    /\ bare' = bare \cup {p}
    /\ UNCHANGED <<mode, replicas, claim, member, seen, marks, ran, since, back, held, idle, bounds>>

(* A broker with an empty disk joins under a new node_id; one with the disk  *)
(* of a decommissioned broker never comes up.                                *)
Joins(p) ==
    /\ pod[p] = "starting" /\ claim[p].disk = 0 /\ NextId \in Id
    /\ pod' = [pod EXCEPT ![p] = "up"]
    /\ claim' = [claim EXCEPT ![p].disk = NextId]
    /\ member' = [member EXCEPT ![NextId] = [pod |-> p, st |-> "active"]]
    /\ since' = IF Wanted(p) THEN since \cup {NextId} ELSE since
    /\ UNCHANGED <<mode, replicas, seen, marks, ran, back, usage, bounds>>

Starts(p) ==
    /\ pod[p] = "starting" /\ claim[p].disk \in Members
    /\ pod' = [pod EXCEPT ![p] = "up"]
    /\ back' = back \cup {i \in Id : i = claim[p].disk /\ member[i].st = "draining"}
    /\ UNCHANGED <<mode, replicas, claim, member, seen, marks, ran, since, usage, bounds>>

PodLost(p) ==
    /\ pod[p] # "none" /\ faults < MaxFaults
    /\ \E lost \in {NoClaim, claim[p]} : claim' = [claim EXCEPT ![p] = lost]
    /\ pod' = [pod EXCEPT ![p] = "none"]
    /\ bare' = bare \cup {p}
    /\ faults' = faults + 1
    /\ UNCHANGED <<mode, replicas, member, seen, marks, ran, since, back, held, idle, scales>>

ClaimGone(p) ==
    /\ claim[p].del /\ pod[p] = "none"
    /\ claim' = [claim EXCEPT ![p] = NoClaim]
    /\ UNCHANGED <<mode, replicas, pod, member, seen, marks, ran, history, bounds>>

Drained(i) ==
    /\ member[i].st = "draining"
    /\ member' = [member EXCEPT ![i].st = "gone"]
    /\ UNCHANGED <<mode, kube, seen, marks, ran, history, bounds>>

Sync(s) ==
    /\ seen[s] # Live[s]
    /\ seen' = [seen EXCEPT ![s] = Live[s]]
    /\ UNCHANGED <<mode, kube, member, marks, ran, history, bounds>>

-----------------------------------------------------------------------------
(* The delayed cache.                                                        *)
Counted(m) == [count |-> Min({m.count + 1, DelayedMaxCacheCount}), age |-> 0]
MarkEachPass(m) == Counted(m) \* mutant: does not wait for the interval
MarkRefreshing(m) == \* mutant: every mark sets lastMarked
    IF m.age < Interval THEN [count |-> Max({1, m.count}), age |-> 0] ELSE Counted(m)
Mark(m) ==
    IF m = NoMark THEN NewMark ELSE IF m.age < Interval THEN m ELSE Counted(m)
FilterAndMark(cache, found) == [e \in DOMAIN cache |-> IF e \in found THEN Mark(cache[e]) ELSE NoMark]
Ripe(cache) == {e \in DOMAIN cache : cache[e].count >= DelayedMaxCacheCount}
Older(cache) == [e \in DOMAIN cache |->
                    IF cache[e].count > 0 /\ cache[e].age < Interval
                    THEN [cache[e] EXCEPT !.age = @ + 1] ELSE cache[e]]

(* A pass that leaves something marked, or fails, is repeated within a tick. *)
Pending(q) == (\E p \in PodsOf(q) : vol[p] # NoMark) \/ (\E i \in Id : ids[q][i] # NoMark)
Tick ==
    /\ seen = Live /\ \A p \in Pod : ~Creatable(p) /\ ~Deletable(p)
    /\ \A q \in Pool : Pending(q) => q \in ran
    /\ vol' = Older(vol) /\ ids' = [q \in Pool |-> Older(ids[q])]
    /\ ran' = {}
    /\ held' = seen.claims /\ bare' = Pod \ seen.pods
    /\ idle' = [p \in Pod |-> IF p \in held \cap bare THEN Min({idle[p] + 1, Interval}) ELSE 0]
    /\ UNCHANGED <<mode, kube, member, seen, since, back, bounds>>

(* The claims no pod uses, marked, and of the ones due the first.            *)
FindUnboundVolumeClaims(q) == {p \in seen.claims \ seen.pods : p[1] = q}
MarkedVolumes(q) ==
    IF mode.cleanup
    THEN [p \in Pod |-> IF p[1] = q THEN FilterAndMark(vol, FindUnboundVolumeClaims(q))[p] ELSE vol[p]]
    ELSE vol
RipeVolumes(q) == {p \in Ripe(MarkedVolumes(q)) : p[1] = q}

Pass(q) == ran' = ran \cup {q} /\ UNCHANGED <<mode, replicas, pod, seen, since, usage, scales>>

DeleteClaim(q) ==
    /\ RipeVolumes(q) # {}
    /\ Pass(q)
    /\ \E p \in RipeVolumes(q) :
        IF claim[p] = NoClaim
        THEN vol' = MarkedVolumes(q) /\ UNCHANGED claim
        ELSE /\ claim' = [claim EXCEPT ![p].del = TRUE]
             /\ vol' = [MarkedVolumes(q) EXCEPT ![p] = NoMark]
    /\ UNCHANGED <<member, back, ids, faults>>

(* A call that fails ends the pass; what was marked stays marked.            *)
DeleteOrAdminFails(q) ==
    /\ faults < MaxFaults
    /\ Pass(q)
    /\ vol' = MarkedVolumes(q) /\ faults' = faults + 1
    /\ UNCHANGED <<claim, member, back, ids>>

-----------------------------------------------------------------------------
(* The brokers that are down: too many, replaced, or on their way out.       *)
RequestedNodes == MapThenSumSet(LAMBDA q : seen.sets[q], Pool)
UpToBrokers(q) == RipeVolumes(q) = {} /\ Pass(q) /\ vol' = MarkedVolumes(q) /\ UNCHANGED claim
UnknownBroker == seen.health.all \ Members # {}

TooHighOrdinal(q, i) == mode.tooHigh /\ member[i].pod[1] = q /\ member[i].pod[2] >= seen.sets[q]
HasHealthyBroker(i) ==
    \E j \in seen.health.all \ seen.health.down : j # i /\ member[j].pod = member[i].pod
BrokersToDecommissionAll(q) == \* mutant: any broker that is down
    {i \in seen.health.down : member[i].st = "active"}
BrokersToDecommission(q) ==
    {i \in seen.health.down : member[i].st = "active" /\ (TooHighOrdinal(q, i) \/ HasHealthyBroker(i))}
CurrentlyDecommissioningNone == {} \* mutant: does not wait
CurrentlyDecommissioning == {i \in seen.health.down : member[i].st = "draining"}
NothingSuperfluous ==
    Cardinality(seen.health.all) <= RequestedNodes \/ seen.health.down = {}
MarkedIds(q) == FilterAndMark(ids[q], BrokersToDecommission(q))

BrokerLookupFails(q) ==
    /\ UpToBrokers(q)
    /\ UnknownBroker /\ ~NothingSuperfluous
    /\ UNCHANGED <<member, back, ids, faults>>

CleanBrokerCache(q) ==
    /\ UpToBrokers(q)
    /\ NothingSuperfluous
    /\ ids' = [ids EXCEPT ![q] = [i \in Id |-> NoMark]]
    /\ UNCHANGED <<member, back, faults>>

MarkBrokers(q) ==
    /\ UpToBrokers(q)
    /\ ~UnknownBroker /\ ~NothingSuperfluous
    /\ CurrentlyDecommissioning # {} \/ Ripe(MarkedIds(q)) = {}
    /\ ids' = [ids EXCEPT ![q] = MarkedIds(q)]
    /\ UNCHANGED <<member, back, faults>>

Leaves(i) ==
    /\ member' = [member EXCEPT ![i].st = "draining"]
    /\ back' = IF Runs(i) THEN back \cup {i} ELSE back

(* The lowest node_id first; the answer may be lost, whether or not the      *)
(* request was.                                                              *)
DecommissionBroker(q) ==
    /\ UpToBrokers(q)
    /\ ~UnknownBroker /\ ~NothingSuperfluous
    /\ CurrentlyDecommissioning = {} /\ Ripe(MarkedIds(q)) # {}
    /\ LET i == Min(Ripe(MarkedIds(q)))
       IN  \/ /\ Leaves(i)
              /\ ids' = [ids EXCEPT ![q] = [MarkedIds(q) EXCEPT ![i] = NoMark]]
              /\ UNCHANGED faults
           \/ /\ faults < MaxFaults /\ faults' = faults + 1
              /\ Leaves(i) \/ UNCHANGED <<member, back>>
              /\ ids' = [ids EXCEPT ![q] = MarkedIds(q)]

Reconcile(q) ==
    \/ DeleteClaim(q) \/ DeleteOrAdminFails(q)
    \/ BrokerLookupFails(q) \/ CleanBrokerCache(q) \/ MarkBrokers(q) \/ DecommissionBroker(q)

Restart ==
    /\ faults < MaxFaults /\ \E q \in Pool : Pending(q)
    /\ vol' = [p \in Pod |-> NoMark] /\ ids' = [q \in Pool |-> [i \in Id |-> NoMark]]
    /\ faults' = faults + 1
    /\ UNCHANGED <<mode, kube, member, seen, ran, history, scales>>

-----------------------------------------------------------------------------
Cluster ==
    \/ \E p \in Pod : StsCreates(p) \/ StsDeletes(p) \/ Joins(p) \/ Starts(p) \/ ClaimGone(p)
    \/ \E i \in Id : Drained(i)

Next ==
    \/ Cluster
    \/ \E q \in Pool : Scale(q) \/ Reconcile(q)
    \/ \E p \in Pod : PodLost(p)
    \/ \E s \in Sources : Sync(s)
    \/ Tick
    \/ Restart

Spec == Init /\ [][Next]_vars

(* Kubernetes, Redpanda and time go on, and the sync period, or the resync   *)
(* of the informers, brings a pass of every StatefulSet again and again.     *)
Fairness ==
    /\ WF_vars(Cluster) /\ WF_vars(Tick)
    /\ WF_vars(\E s \in Sources : Sync(s))
    /\ \A q \in Pool : WF_vars(q \notin ran /\ Reconcile(q))
FairSpec == Spec /\ Fairness

-----------------------------------------------------------------------------
(* A broker whose pod has been wanted ever since it joined, and whose disk   *)
(* is still there, is not decommissioned, however the cache or the health    *)
(* report misrepresent it for a while and however often it restarts.         *)
WantedBrokerKept ==
    [][\A i \in since : Current(i) => ~(member[i].st = "active" /\ member'[i].st = "draining")]_vars

(* A claim is deleted only if its pod has been missing at some moment of     *)
(* each tick for a whole interval and still was in this one.  It does not    *)
(* suffice that some passes read the informers at a bad time, or that a pod  *)
(* was away once, and a claim just created for a new pod is safe.            *)
UsedDataKept ==
    [][\A p \in Pod : claim'[p].del /\ ~claim[p].del => p \in held \cap bare /\ idle[p] = Interval]_vars

(* "No two brokers should attempt to be decommissioned simultaneously": a    *)
(* second one is asked to leave only if the first had been running again     *)
(* since, whichever StatefulSet's pass finds it and whatever answer is lost. *)
OneDecommissionAtATime ==
    \A i, j \in Id : member[i].st = "draining" /\ member[j].st = "draining"
                     => i = j \/ i \in back \/ j \in back

(* When every wanted pod runs, brokers whose pod lives on under another      *)
(* node_id leave the cluster, brokers that were scaled away do so too, but   *)
(* not in V1 clusters, whose own controller removes them, and claims that    *)
(* were scaled away are deleted where the owner asked for that.              *)
Ghost(i) == i \in Members /\ ~Current(i) /\ Wanted(member[i].pod)
Leftover(p) == ~Wanted(p) /\ claim[p] # NoClaim
Settled == \A p \in Pod : Wanted(p) => pod[p] = "up"
GhostsGo ==
    <>[]Settled => <>[](/\ \A i \in Id : ~Ghost(i)
                        /\ mode.tooHigh => \A i \in Members : Wanted(member[i].pod)
                        /\ mode.cleanup => \A p \in Pod : ~Leftover(p))
=============================================================================
