------------------------- MODULE BrokerIncarnations -------------------------
(***************************************************************************)
(* The Broker CRs that succeed one another at one network index of a pool:  *)
(* creation, loss of the disk, dismantling, replacement, decommission of    *)
(* the dead node_id, scale-down and deletion (operator/internal/brokerset   *)
(* and broker_controller.go).  They share one pod name, one claim name and  *)
(* one address; node_ids tell the Redpanda nodes behind them apart.         *)
(*                                                                          *)
(* crs is as in BrokerRoll: its first element is the informer cache, its    *)
(* last the API server.  A Broker pass reads its CR from the cache, and     *)
(* acts on that copy later.  Pods, claims and the admin API are read when   *)
(* they are acted on.                                                       *)
(***************************************************************************)
EXTENDS Naturals, Sequences, FiniteSets, FiniteSetsExt

CONSTANTS MaxCR,     \* CRs are named 1..MaxCR; a list is sorted by name
          MaxId,     \* node_ids are 1..MaxId; 0 is none
          Others,    \* members of the Redpanda cluster at other indices
          Spare,     \* those can take this index's replicas without a replacement
          Grace,     \* Redpanda reports a dead node alive for a while
          MaxLag,    \* writes the informer cache may trail the API server by
          MaxFaults, \* bound on pods, disks and nodes lost
          MaxRaw,    \* bound on Broker CRs deleted by hand
          Mixed,     \* both of these in one behaviour
          MaxManual  \* bound on decommissions asked for by hand

ASSUME SizeAssumption == MaxCR \in Nat \ {0} /\ MaxId \in Nat \ {0}
ASSUME OthersAssumption == Others \in Nat /\ {Spare, Grace, Mixed} \subseteq BOOLEAN
ASSUME LimitAssumption ==
    MaxLag \in Nat /\ MaxFaults \in Nat /\ MaxRaw \in Nat /\ MaxManual \in Nat

CR == 1 .. MaxCR
Id == 1 .. MaxId

VARIABLES
    desired,  \* the index is below the owner's replicas
    crs,      \* Broker CRs: crs[1] is the cache, the last element is live
    seen,     \* seen[i]: the copy of CR i its pass under way has read
    pod,      \* the pod of this index
    pvc,      \* its claim, and the disk behind it
    member,   \* external: Redpanda's membership entries with this address
    believed, \* external: node_ids the admin API reports alive
    known,    \* history: node_ids some CR has recorded
    faults, raw, manual \* how much of each bound is used

vars == <<desired, crs, seen, pod, pvc, member, believed, known, faults, raw, manual>>
redpanda == <<member, believed>>
bounds == <<faults, raw, manual>>

-----------------------------------------------------------------------------
(* done is phase Decommissioned; lost and released are status.diskLost and   *)
(* its resourcesReleased.                                                    *)
Record == [st: {"none", "live", "deleting", "gone"}, decom: BOOLEAN, done: BOOLEAN,
           id: 0 .. MaxId, lost: BOOLEAN, released: BOOLEAN]
Absent == [st |-> "none", decom |-> FALSE, done |-> FALSE, id |-> 0,
           lost |-> FALSE, released |-> FALSE]
(* Mutant: the node_id starts out as a sentinel instead of nil.              *)
FreshWithSentinel == [Absent EXCEPT !.st = "live", !.id = MaxId + 1]
Fresh == [Absent EXCEPT !.st = "live"]

(* unsched: its volume's node is gone; refused: detect-disk-lost has exited  *)
(* with ExitCodeEmptyDataDir; running: containers run, the broker has not    *)
(* joined; up: the broker is a running member.  stamp: BrokerIDAnnotation.   *)
Pod == [st: {"none", "pending", "unsched", "refused", "running", "up"},
        owner: 0 .. MaxCR, stamp: 0 .. MaxId, del: BOOLEAN]
NoPod == [st |-> "none", owner |-> 0, stamp |-> 0, del |-> FALSE]

(* data: the node_id stored on the disk.                                     *)
Claim == [st: {"none", "bound", "terminating"}, data: 0 .. MaxId,
          node: {"alive", "gone"}, lost: BOOLEAN]
NoClaim == [st |-> "none", data |-> 0, node |-> "alive", lost |-> FALSE]
Blank == [NoClaim EXCEPT !.st = "bound"]

TypeOK ==
    /\ desired \in BOOLEAN
    /\ Len(crs) \in 1 .. MaxLag + 1
    /\ crs \in Seq([CR -> Record])
    /\ seen \in [CR -> Record]
    /\ pod \in Pod
    /\ pvc \in Claim
    /\ member \in [Id -> {"none", "active", "draining", "removed"}]
    /\ believed \subseteq Id
    /\ known \subseteq Id
    /\ faults \in 0 .. MaxFaults /\ raw \in 0 .. MaxRaw /\ manual \in 0 .. MaxManual

Init ==
    /\ desired = TRUE
    /\ crs = << [i \in CR |-> Absent] >>
    /\ seen = [i \in CR |-> Absent]
    /\ pod = NoPod
    /\ pvc = NoClaim
    /\ member = [d \in Id |-> "none"]
    /\ believed = {}
    /\ known = {}
    /\ faults = 0 /\ raw = 0 /\ manual = 0

-----------------------------------------------------------------------------
(* The API server and its cache.                                             *)
Cache == Head(crs)
Live == crs[Len(crs)]
Exists(c) == c.st \in {"live", "deleting"}

Put(s) ==
    crs' = IF s = Live THEN crs
           ELSE IF Len(crs) > MaxLag THEN Append(Tail(crs), s)
           ELSE Append(crs, s)

Deliver ==
    /\ Len(crs) > 1
    /\ crs' = Tail(crs)
    /\ UNCHANGED <<desired, seen, pod, pvc, redpanda, known, bounds>>

(* A write with a resourceVersion.                                           *)
Current(i) == \A k \in DOMAIN crs : crs[k][i] = Cache[i]
(* Deletion only sets the timestamp: the Broker controller's finalizer holds *)
(* the CR.                                                                   *)
Deleted(s, B) ==
    [i \in CR |-> IF i \in B /\ s[i].st = "live" THEN [s[i] EXCEPT !.st = "deleting"] ELSE s[i]]

-----------------------------------------------------------------------------
(* ensureBrokers, at this index.                                             *)
(* Mutant: a CR that is being deleted counts as gone.                        *)
ListedUndeleted == {i \in CR : Cache[i].st = "live"}
Listed == {i \in CR : Exists(Cache[i])}
Tombstones == {i \in Listed : Cache[i].lost}
LiveBrokers == Listed \ Tombstones
(* IndexBrokers: of two CRs at one index the last in the list remains.       *)
Indexed == Max(LiveBrokers)
DecommissionInFlight == \E i \in Listed : Cache[i].decom /\ ~Cache[i].done
Pinned == \E t \in Tombstones : ~Cache[t].released

(* The desired loop: a Broker is created under a generated name, which may    *)
(* come anywhere in the list, or a Decommissioned one deleted to make room    *)
(* (EnsureDesiredBroker).                                                     *)
Unused == {j \in CR : Live[j].st = "none"}
Finished == {i \in LiveBrokers : i = Indexed /\ Cache[i].done}
AfterDesired ==
    IF ~desired THEN {Live}
    ELSE IF LiveBrokers # {}
    THEN {Deleted(Live, {i \in Finished : Cache[i].decom /\ Cache[i].st = "live"})}
    ELSE IF Pinned \/ Unused = {} THEN {Live}
    ELSE {[Live EXCEPT ![i] = Fresh] : i \in Unused}

(* Mutant: the dead node_id is drained before its replacement registers.     *)
ReplacementRegisteredAny == TRUE
ReplacementRegistered == LiveBrokers # {} /\ Cache[Indexed].id # 0

(* ReconcileDiskLostBrokers.                                                 *)
Pending(t) == Cache[t].st = "live" /\ ~Cache[t].done /\ ~Cache[t].decom /\ Cache[t].released
(* Mutant: a tombstone without a node_id is kept.                            *)
TombstonesToDeleteDone == {t \in Tombstones : Cache[t].st = "live" /\ Cache[t].done}
TombstonesToDelete ==
    {t \in Tombstones :
        \/ Cache[t].st = "live" /\ Cache[t].done
        \/ Pending(t) /\ Cache[t].id = 0}
TombstonesToMark ==
    LET ready == {t \in Tombstones : /\ Pending(t) /\ Cache[t].id # 0
                                     /\ desired => ReplacementRegistered}
    IN  {t \in ready : ~DecommissionInFlight /\ \A u \in ready : t <= u}

(* ReconcileExcessBrokers: one at a time, after the tombstones.              *)
ExcessToMark ==
    {i \in LiveBrokers : /\ i = Indexed /\ ~Cache[i].done
                         /\ ~DecommissionInFlight /\ TombstonesToMark = {}}
Marked(s, B) == [i \in CR |-> IF i \in B THEN [s[i] EXCEPT !.decom = TRUE] ELSE s[i]]

(* A conflict on a mark ends the pass.                                       *)
AfterTombstones(s) ==
    LET conflicts == {t \in TombstonesToMark : ~Current(t)}
        deletes == {t \in TombstonesToDelete : \A u \in conflicts : t < u}
    IN  Marked(Deleted(s, deletes), TombstonesToMark \ conflicts)
AfterExcess(s) ==
    IF desired \/ \E t \in TombstonesToMark : ~Current(t) THEN s
    ELSE Marked(Deleted(s, Finished), {i \in ExcessToMark : Current(i)})

EnsureBrokers ==
    /\ \E s \in AfterDesired : Put(AfterExcess(AfterTombstones(s)))
    /\ UNCHANGED <<desired, seen, pod, pvc, redpanda, known, bounds>>

-----------------------------------------------------------------------------
(* The Broker controller's pass over CR i, on the copy it has read.          *)
BeginPass(i) ==
    /\ ~Exists(seen[i]) /\ Exists(Cache[i])
    /\ seen' = [seen EXCEPT ![i] = Cache[i]]
    /\ UNCHANGED <<desired, crs, pod, pvc, redpanda, known, bounds>>

(* The pass ends with a write of CR i that is lost when the copy is stale.   *)
EndPass(i, c) ==
    /\ seen' = [seen EXCEPT ![i] = Absent]
    /\ Put(IF Live[i] = seen[i] THEN [Live EXCEPT ![i] = c] ELSE Live)
    /\ known' = IF Live[i] = seen[i] /\ c.id # 0 THEN known \cup {c.id} ELSE known
    /\ UNCHANGED <<desired, bounds>>

(* fetchState: a pod owned by a different Broker is not this Broker's pod.   *)
OwnedByDifferentBroker(i) == pod.owner \notin {0, i}
HasPod(i) == pod.st # "none" /\ ~OwnedByDifferentBroker(i)
OwnsPod(i) == pod.st # "none" /\ pod.owner = i

DeletePod == IF pod.st = "none" THEN pod ELSE [pod EXCEPT !.del = TRUE]
DeletePVCs == IF pvc.st = "bound" THEN [pvc EXCEPT !.st = "terminating"] ELSE pvc

(* reconcileDiskLost: the proofs of a lost disk, accepted at some time after *)
(* they are there.                                                           *)
(* Mutant: a pod that is not scheduled yet is proof without a look at its     *)
(* volume.                                                                    *)
LostDiskUnproved(i) == OwnsPod(i) /\ pod.st \in {"pending", "unsched", "refused"}
LostDisk(i) ==
    /\ OwnsPod(i)
    /\ \/ pod.st = "unsched"
       \/ pod.st = "refused" /\ seen[i].id # 0

DetectDiskLost(i) ==
    /\ seen[i].st = "live" /\ ~seen[i].lost /\ ~seen[i].decom /\ LostDisk(i)
    /\ EndPass(i, [seen[i] EXCEPT !.lost = TRUE])
    /\ UNCHANGED <<pod, pvc, redpanda>>

DismantleDiskLost(i) ==
    /\ seen[i].st = "live" /\ seen[i].lost /\ ~seen[i].decom
    /\ IF seen[i].released
       THEN EndPass(i, seen[i]) /\ UNCHANGED <<pod, pvc>>
       ELSE /\ pod' = IF HasPod(i) THEN DeletePod ELSE pod
            /\ pvc' = DeletePVCs
            /\ EndPass(i, [seen[i] EXCEPT !.released = pod.st = "none" /\ pvc.st = "none"])
    /\ UNCHANGED redpanda

TombstoneWithoutId(i) ==
    /\ seen[i].st = "live" /\ seen[i].lost /\ seen[i].decom /\ seen[i].id = 0
    /\ EndPass(i, [seen[i] EXCEPT !.done = TRUE])
    /\ UNCHANGED <<pod, pvc, redpanda>>

PastDiskLost(i) ==
    /\ seen[i].st = "live"
    /\ IF seen[i].lost THEN seen[i].decom /\ seen[i].id # 0
       ELSE ~(~seen[i].decom /\ LostDisk(i))

(* reconcilePVCs.                                                            *)
AwaitClaim(i) ==
    /\ PastDiskLost(i) /\ ~seen[i].decom /\ pvc.st = "terminating"
    /\ EndPass(i, seen[i])
    /\ UNCHANGED <<pod, pvc, redpanda>>

PastClaim(i) ==
    /\ PastDiskLost(i)
    /\ seen[i].decom \/ pvc.st # "terminating"
    /\ pvc' = IF ~seen[i].decom /\ pvc.st = "none" THEN Blank ELSE pvc

(* reconcilePod.  A decommission that knows its node_id goes on without a    *)
(* pod.  Create fails while the name is taken; an ownerless pod is adopted.  *)
Podless(i) == seen[i].decom /\ (seen[i].id # 0 \/ seen[i].done)

CreatePod(i) ==
    /\ PastClaim(i) /\ ~HasPod(i) /\ ~Podless(i)
    /\ pod' = IF pod.st # "none" THEN pod
              ELSE [st |-> "pending", owner |-> i, stamp |-> seen[i].id, del |-> FALSE]
    /\ EndPass(i, seen[i])
    /\ UNCHANGED redpanda

AdoptPod(i) ==
    /\ PastClaim(i) /\ pod.st # "none" /\ pod.owner = 0
    /\ pod' = [pod EXCEPT !.owner = i]
    /\ EndPass(i, seen[i])
    /\ UNCHANGED redpanda

-----------------------------------------------------------------------------
(* resolveBroker: a tombstone by its pinned node_id alone, any other CR by   *)
(* the address its pod has; 0 when there is none or it is ambiguous.         *)
Members == {d \in Id : member[d] \in {"active", "draining"}}
ActiveAndAlive(d) == member[d] = "active" /\ d \in believed
ByAddress ==
    LET alive == {d \in Members : ActiveAndAlive(d)}
    IN  IF Cardinality(Members) = 1 THEN Max(Members)
        ELSE IF Cardinality(alive) = 1 THEN Max(alive) ELSE 0
ResolveBroker(c) ==
    IF c.lost THEN (IF c.id \in Members THEN c.id ELSE 0) ELSE ByAddress

(* reconcilePodMetadata and reconcileBrokerRegistration.  A node_id is       *)
(* adopted once its entry is active and alive; one that differs from the     *)
(* recorded node_id is left to a human.                                      *)
(* Mutant: any matching entry is adopted.                                    *)
MayAdoptAny(d) == d # 0
MayAdopt(d) == d # 0 /\ ActiveAndAlive(d)

Register(i) ==
    LET d == ResolveBroker(seen[i])
        adopts == seen[i].id = 0 /\ pod.st \in {"running", "up"} /\ MayAdopt(d)
    IN  /\ PastClaim(i) /\ ~seen[i].decom /\ OwnsPod(i)
        /\ pod' = IF seen[i].id = 0 THEN pod ELSE [pod EXCEPT !.stamp = seen[i].id]
        /\ EndPass(i, IF adopts THEN [seen[i] EXCEPT !.id = d] ELSE seen[i])
        /\ UNCHANGED redpanda

(* The node_id a decommission is about, and executeDecommission's verdict.   *)
Target(c) ==
    IF c.id # 0 THEN c.id
    ELSE LET d == ResolveBroker(c) IN IF d # 0 /\ member[d] = "active" THEN d ELSE 0

Verdict(c, d) ==
    IF d \notin Members THEN "finished"
    ELSE IF c.lost /\ d \in believed THEN "blocked"
    ELSE IF Cardinality(Members) + Others <= 1 THEN "blocked"
    ELSE IF member[d] = "active" THEN "start"
    ELSE "wait"

DecommissionBroker(c, d) ==
    member' = IF d # 0 /\ Verdict(c, d) = "start" THEN [member EXCEPT ![d] = "draining"] ELSE member

(* Mutant: a finished tombstone deletes the claims that bear its name.       *)
ClaimsAfterAll(c) == DeletePVCs
(* A tombstone's claims were deleted before it released the index.           *)
ClaimsAfter(c) == IF c.lost THEN pvc ELSE DeletePVCs
(* Mutant: the pod is deleted by its name, whoever owns it.                  *)
PodAfterByName(i) == DeletePod
PodAfter(i) == IF OwnsPod(i) THEN DeletePod ELSE pod

ReconcileDecommission(i) ==
    LET c == seen[i]
        d == Target(c)
        finished == d # 0 /\ Verdict(c, d) = "finished"
    IN  /\ PastDiskLost(i) /\ c.decom
        /\ OwnsPod(i) \/ (~HasPod(i) /\ Podless(i))
        /\ IF c.done
           THEN EndPass(i, c) /\ UNCHANGED <<pod, pvc, member>>
           ELSE /\ DecommissionBroker(c, d)
                /\ pod' = IF finished THEN PodAfter(i) ELSE pod
                /\ pvc' = IF finished THEN ClaimsAfter(c) ELSE pvc
                /\ EndPass(i, IF finished THEN [c EXCEPT !.id = 0, !.done = TRUE]
                              ELSE [c EXCEPT !.id = d])
        /\ UNCHANGED believed

-----------------------------------------------------------------------------
(* Mutant: the pod of a deleted CR is deleted with it.                       *)
StripPodOwnerRefDeletes(i) == IF pod.owner = i THEN [pod EXCEPT !.del = TRUE] ELSE pod
StripPodOwnerRef(i) == IF pod.owner = i THEN [pod EXCEPT !.owner = 0] ELSE pod

(* reconcileDelete while the owner lives: a CR with the intent is            *)
(* decommissioned first; any other one lets go of its pod.                   *)
ReconcileDelete(i) ==
    LET c == seen[i]
        d == Target(c)
        over == d = 0 \/ Verdict(c, d) = "finished"
        current == Live[i] = c
    IN  /\ c.st = "deleting"
        /\ IF c.decom
           THEN /\ DecommissionBroker(c, d)
                /\ pod' = IF over /\ (d = 0 \/ current) THEN PodAfter(i) ELSE pod
                /\ pvc' = IF over /\ (d = 0 \/ current) THEN ClaimsAfter(c) ELSE pvc
                /\ EndPass(i, IF over THEN [c EXCEPT !.st = "gone"] ELSE [c EXCEPT !.id = d])
           ELSE /\ pod' = StripPodOwnerRef(i)
                /\ EndPass(i, [c EXCEPT !.st = "gone"])
                /\ UNCHANGED <<pvc, member>>
        /\ UNCHANGED believed

BrokerPass(i) ==
    /\ Exists(seen[i])
    /\ \/ DetectDiskLost(i) \/ DismantleDiskLost(i)
       \/ TombstoneWithoutId(i) \/ AwaitClaim(i)
       \/ CreatePod(i) \/ AdoptPod(i) \/ Register(i)
       \/ ReconcileDecommission(i) \/ ReconcileDelete(i)

-----------------------------------------------------------------------------
(* External: the owner, a human, kubelet and scheduler, Redpanda, faults.    *)
RunningId == IF pod.st = "up" THEN pvc.data ELSE 0
BrokerStops == believed' = IF Grace THEN believed ELSE believed \ {RunningId}

ScaleDown ==
    /\ desired /\ desired' = FALSE
    /\ UNCHANGED <<crs, seen, pod, pvc, redpanda, known, bounds>>

DeleteByHand(i) ==
    /\ raw < MaxRaw /\ (Mixed \/ faults = 0) /\ Live[i].st = "live"
    /\ raw' = raw + 1
    /\ Put(Deleted(Live, {i}))
    /\ UNCHANGED <<desired, seen, pod, pvc, redpanda, known, faults, manual>>

DecommissionByHand(i) ==
    /\ manual < MaxManual /\ Live[i].st = "live" /\ ~Live[i].lost /\ ~Live[i].decom
    /\ manual' = manual + 1
    /\ Put(Marked(Live, {i}))
    /\ UNCHANGED <<desired, seen, pod, pvc, redpanda, known, faults, raw>>

(* The pod is scheduled and detect-disk-lost runs.                           *)
PodStarts ==
    /\ pod.st = "pending" /\ ~pod.del /\ pvc.st = "bound"
    /\ pod' = [pod EXCEPT !.st = IF pvc.node = "gone" THEN "unsched"
                                 ELSE IF pvc.data = 0 /\ pod.stamp # 0 THEN "refused"
                                 ELSE "running"]
    /\ UNCHANGED <<desired, crs, seen, pvc, redpanda, known, bounds>>

(* Redpanda loads its node_id, or joins under a new one; a node_id that was  *)
(* removed cannot come back.                                                 *)
Joins ==
    /\ pod.st = "running" /\ ~pod.del
    /\ \E d \in Id :
        /\ IF pvc.data # 0 THEN d = pvc.data /\ d \in Members
           ELSE member[d] = "none" /\ \A e \in Id : member[e] = "none" => d <= e
        /\ pvc' = [pvc EXCEPT !.data = d, !.lost = FALSE]
        /\ member' = IF member[d] = "none" THEN [member EXCEPT ![d] = "active"] ELSE member
        /\ believed' = believed \cup {d}
    /\ pod' = [pod EXCEPT !.st = "up"]
    /\ UNCHANGED <<desired, crs, seen, known, bounds>>

PodGone ==
    /\ pod.del
    /\ pod' = NoPod
    /\ BrokerStops
    /\ UNCHANGED <<desired, crs, seen, pvc, member, known, bounds>>

(* pvc-protection: a claim goes once no pod uses it.                         *)
ClaimGone ==
    /\ pvc.st = "terminating" /\ pod.st = "none"
    /\ pvc' = NoClaim
    /\ UNCHANGED <<desired, crs, seen, pod, redpanda, known, bounds>>

MayFail == faults < MaxFaults /\ (Mixed \/ raw = 0)

(* A pod is evicted, or its node restarts.                                   *)
PodLost ==
    /\ MayFail /\ pod.st # "none"
    /\ faults' = faults + 1
    /\ pod' = NoPod
    /\ BrokerStops
    /\ UNCHANGED <<desired, crs, seen, pvc, member, known, raw, manual>>

(* A node dies with its disk: its pod is removed, the volume stays pinned.   *)
NodeDies ==
    /\ MayFail /\ pvc.data # 0 /\ pvc.node = "alive"
    /\ faults' = faults + 1
    /\ pod' = NoPod
    /\ pvc' = [pvc EXCEPT !.node = "gone", !.lost = TRUE]
    /\ BrokerStops
    /\ UNCHANGED <<desired, crs, seen, member, known, raw, manual>>

(* A live node loses its disk: the pod starts over on an empty one.          *)
DiskWiped ==
    /\ MayFail /\ pvc.data # 0 /\ pvc.node = "alive"
    /\ faults' = faults + 1
    /\ pod' = IF pod.st = "none" THEN pod ELSE [pod EXCEPT !.st = "pending"]
    /\ pvc' = [pvc EXCEPT !.data = 0, !.lost = TRUE]
    /\ BrokerStops
    /\ UNCHANGED <<desired, crs, seen, member, known, raw, manual>>

(* The health grace window of a dead node elapses.                           *)
ReportedDead(d) ==
    /\ d \in believed /\ RunningId # d
    /\ believed' = believed \ {d}
    /\ UNCHANGED <<desired, crs, seen, pod, pvc, member, known, bounds>>

(* Without spare members a drain needs a replacement to move replicas to.    *)
DrainFinishes(d) ==
    /\ member[d] = "draining"
    /\ Spare \/ ~desired \/ (RunningId \notin {0, d} /\ member[RunningId] = "active")
    /\ member' = [member EXCEPT ![d] = "removed"]
    /\ believed' = believed \ {d}
    /\ UNCHANGED <<desired, crs, seen, pod, pvc, known, bounds>>

External ==
    \/ ScaleDown \/ PodLost \/ NodeDies \/ DiskWiped
    \/ PodStarts \/ Joins \/ PodGone \/ ClaimGone
    \/ \E i \in CR : DeleteByHand(i) \/ DecommissionByHand(i)
    \/ \E d \in Id : ReportedDead(d) \/ DrainFinishes(d)

Next ==
    \/ Deliver
    \/ EnsureBrokers
    \/ \E i \in CR : BeginPass(i) \/ BrokerPass(i)
    \/ External

Spec == Init /\ [][Next]_vars

(* Watches deliver, both controllers requeue, kubelet, scheduler and         *)
(* Redpanda finish what they began.                                          *)
Fairness ==
    /\ WF_vars(Deliver) /\ WF_vars(EnsureBrokers)
    /\ \A i \in CR : WF_vars(BeginPass(i)) /\ WF_vars(BrokerPass(i))
    /\ WF_vars(PodStarts) /\ WF_vars(Joins) /\ WF_vars(PodGone) /\ WF_vars(ClaimGone)
    /\ \A d \in Id : WF_vars(ReportedDead(d)) /\ WF_vars(DrainFinishes(d))

FairSpec == Spec /\ Fairness

-----------------------------------------------------------------------------
(* A tombstone's pinned node_id is never that of the running broker: what    *)
(* the operator drains for it is the dead node (K8S-976).                    *)
PinnedIsDead ==
    \A i \in CR : Exists(Live[i]) /\ Live[i].lost /\ Live[i].id # 0 => Live[i].id # RunningId

(* A running broker is decommissioned only when the Broker that owns its pod *)
(* carries the intent.                                                       *)
OnlyTheAskedIsDrained ==
    [][\A d \in Id :
          member[d] = "active" /\ member'[d] = "draining" /\ RunningId = d
              => pod.owner # 0 /\ Live[pod.owner].decom /\ ~Live[pod.owner].lost]_vars

(* The broker came back under another node_id than its Broker records: the   *)
(* operator reports IdentityChanged and leaves it to a human.                *)
IdentityChanged ==
    \E i \in CR : /\ Exists(Live[i]) /\ ~Live[i].lost /\ Live[i].id # 0
                  /\ pvc.data \notin {0, Live[i].id}

(* The pod of a running, active member is never deleted, unless its broker   *)
(* runs under another node_id than the one recorded.                         *)
RunningPodKept ==
    [][RunningId # 0 /\ member[RunningId] = "active" /\ ~IdentityChanged /\ ~pod.del
          => ~pod'.del]_vars

(* A claim is deleted only when its disk is lost or its node_id has left the *)
(* cluster.                                                                  *)
DataKept ==
    [][pvc.st = "bound" /\ pvc'.st = "terminating" /\ ~IdentityChanged
          => pvc.lost \/ pvc.data \notin Members]_vars

(* While the index is desired the dead node_id starts to drain only with a   *)
(* replacement in the cluster to take its replicas.                          *)
ReplacedBeforeDrained ==
    [][\A d \in Id :
          desired /\ member[d] = "active" /\ member'[d] = "draining" /\ manual = 0
              => \E e \in Id \ {d} : member[e] = "active"]_vars

(* Two Broker CRs never record the same node_id.                             *)
DistinctIdentities ==
    \A i, j \in CR :
        Exists(Live[i]) /\ Exists(Live[j]) /\ Live[i].id = Live[j].id /\ Live[i].id # 0 => i = j

(* A Broker is asked to leave before its node_id is recorded and has no disk  *)
(* to start from: reconcilePVCs makes no claim for it, detectDiskLost does    *)
(* not look at it, and its pod cannot run.                                    *)
AskedWithoutDisk ==
    \E i \in CR : /\ Live[i].st = "live" /\ Live[i].decom /\ ~Live[i].lost
                  /\ Live[i].id = 0 /\ ~Live[i].done /\ (pvc.st = "none" \/ pvc.lost)

Settled(i) ==
    /\ Live[i].st = "live" /\ ~Live[i].lost /\ ~Live[i].decom
    /\ OwnsPod(i) /\ ~pod.del /\ pvc.st = "bound"
    /\ Live[i].id # 0 /\ Live[i].id = RunningId /\ member[RunningId] = "active"
    /\ \A j \in CR \ {i} : ~Exists(Live[j])
Converged ==
    /\ IF desired THEN \E i \in CR : Settled(i)
       ELSE pod.st = "none" /\ pvc.st = "none" /\ \A i \in CR : ~Exists(Live[i])
    /\ \A d \in known : d \in Members => d = RunningId
Converges ==
    [](~IdentityChanged /\ ~AskedWithoutDisk /\ (raw > 0 => desired)) => <>[]Converged
=============================================================================
