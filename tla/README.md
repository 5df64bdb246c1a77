# TLA+ models of the Redpanda operator

This directory holds TLA+ models of the parts of the operator whose
correctness depends on the order in which things happen: leadership of the
multicluster operator, engagement of peer clusters, the rolling restart of
brokers managed by Broker CRs and of StatefulSet pools, the hand-over of a
pool between the two, the succession of Broker CRs at one network index
through disk loss, replacement, scale-down and deletion, the PVC unbinder and
the StatefulSet decommissioner. `PROJECT.json`
maps every definition to the lines it models and lists runs, findings, hazards
and theorems; this file explains them.

Line numbers refer to the sources as they stand in the repository. "CR" is a
custom resource, "pass" one call of a controller's `Reconcile`.

## 1. The system and its parts

The operator is one Go process per Kubernetes cluster. Its parts, with the
state they keep, and how they interact:

| Part | State | Operations | Talks to |
|---|---|---|---|
| Raft leadership (`pkg/multicluster/leaderelection`) | `isLeader`, `initialized`, `leaderCtx`; `LeaderManager.isLeader`; routine goroutines | raft Ready, start/stop callbacks, routine run / back-off / exit | peers over gRPC (etcd raft), every leader routine |
| Cluster engagement (`pkg/multicluster/raft.go`, `health.go`, `broadcaster.go`) | registered clusters, reachability per cluster, broadcast channel, engage and retry state per runnable | probe round, `recordResult`, `notify`, `doEngage`, retry timers | peers' API servers, controllers |
| Broker arbitration (`operator/internal/brokerset`) | none of its own: Broker CRs are its state | `ensureBrokers` (create, templates, tombstones, scale-down), `EnsureRollGrants` | Broker CRs through an informer cache |
| Broker controller (`broker_controller.go`) | Broker status; pods, claims | disk loss, claims, pod creation and adoption, rotation, registration, decommission, deletion | Kubernetes, the Redpanda admin API |
| Migration and rollback (`brokerset/migration.go`, `rollback.go`) | the use-broker-cr annotation, a backup ConfigMap, a condition on the owner | hand-over of pods and claims from a StatefulSet to Broker CRs and back | StatefulSet, pods, Broker CRs |
| Redpanda controller, pool tracker (`redpanda_controller.go`, `lifecycle/pool.go`, `failedpods`) | generation labels on StatefulSets, status conditions | create, update, scale, decommission, roll and delete StatefulSet pools | StatefulSets, pods, admin API |
| Stretch cluster controllers (`multicluster_controller.go`, `brokerpool_controller.go`) | as above, over several clusters | as above | several API servers |
| StatefulSet decommissioner (`controller/decommissioning`) | two delayed caches of observations | delete claims nobody uses and decommission brokers that are down and superfluous, after spaced, agreeing observations | informers, admin API |
| PVC unbinder (`controller/pvcunbinder`) | annotations on PersistentVolumes | delete claims and pod of a broker that cannot be scheduled, behind five gates | PVs, PVCs, pods, nodes, scheduler |
| Maintenance mode, stale disk wipe | CR status | act on one broker | admin API, pods |
| V1 (`vectorized`) controllers | Cluster status | scale, rolling update, configuration | StatefulSet, admin API |
| Declarative resources (topics, users, roles, groups, schemas, shadow links) | finalizers, status | sync one object | Redpanda APIs |
| Sidecars, configurator, charts, gotohelm, CLIs, tooling | files | rendering, probes | - |

What is hard about it: two controllers work on the same Broker CRs and share
nothing else; both read an informer cache that trails the API server; status
writes are lost to conflicts; a pass may be slow and act on what it read long
ago; Redpanda reports a dead node alive for a while; pods, claims and
addresses are named by index, so successive brokers share them; humans delete
and mark CRs; leadership comes and goes with callbacks in goroutines of their
own.

What makes each part correct:

* leadership: only a leader runs leader routines, one instance each, and a
  leader does run them;
* engagement: a reachable peer is engaged in the end, whatever order probes,
  notifications and retries come in;
* arbitration: one disruptive operation at a time, and the fleet converges on
  the template the owner asked for;
* incarnations: only a node that is dead, or was asked to leave, is drained;
  running pods and intact data stay; the index settles on one healthy Broker;
* pools: one broker is rolled at a time and none until the last is back, none
  is dropped before it is drained, a failed pod is replaced only while it
  fails, and the pools reach the owner's spec;
* hand-over: no pod is restarted for it, either direction finishes however it
  is interrupted or reversed, and a change pending meanwhile is not lost;
* unbinder: one broker at a time loses its claims, no disk is deleted or
  swapped, and a broker that can run again does;
* decommissioner: nothing is removed on a stale view, no second broker is
  asked to leave while the first stays down, and what is superfluous leaves.

## 2. Modules

| Module | Models | Proofs |
|---|---|---|
| `LeaderElection` | `lock.go` `runRaft`, `manager.go` | `LeaderElectionProofs` |
| `ClusterEngagement` | `raft.go` leaderRunnable, `health.go`, `broadcaster.go` | `ClusterEngagementProofs` |
| `BrokerRoll` | `ensureBrokers` on existing Brokers, `EnsureRollGrants`, the Broker pass without disk loss | `BrokerRollProofs`, `BrokerRollLockProofs` |
| `BrokerIncarnations` | `ensureBrokers` at one index, the Broker pass without rotation | `BrokerIncarnationsProofs`, `BrokerSuccessionProofs` |
| `PoolRoll` | `redpanda_controller.go` on StatefulSet pools, `lifecycle/pool.go`, parts of `failedpods` | - |
| `RollLock` | what a rolling restart promises; `BrokerRoll` and `PoolRoll` implement it | refinement in `BrokerRollLockProofs` |
| `BrokerMigration` | `migration.go`, `rollback.go`, the adoption in `broker_controller.go` | - |
| `PVCUnbinder` | `pvcunbinder.go` | `PVCUnbinderProofs` |
| `Decommissioner` | `statefulset_decomissioner.go`, `delayed_cache.go` | `DecommissionerProofs` |

Each but `RollLock` has an `MC` module that TLC instantiates. Operators whose
comment says "mutant" are not part of the model: each is a plausible bug in the
definition that follows it, and the property it is listed with in
`PROJECT.json` fails when it takes that definition's place.

### LeaderElection

`Ready` is one iteration of `runRaft`'s select loop: soft state in,
`LeadershipChanged`, then `BecomeLeader` or `BecomeFollower`. The callbacks
are goroutines, so they are counted in `starts` and `stops` and run later, in
any order (`RunStarted`, `RunStopped`). `inst[r]` counts instances of routine
`r` that run, wait out their back-off, or carry a cancelled context.
`RaftTransition` is external: raft elects and deposes this node at will. Raft
itself (terms, votes, messages) is the etcd library and not modelled.

### ClusterEngagement

One leadership term. The health tracker's round is `ProbeAll`, one
`ProbeReturns`, `RecordResult` and `OnReachable` per cluster, then `Prune`;
the tracker's lock is released between them, which is where the interleavings
are. A runnable's `pc` follows `wrapStart`: first `doEngage`
(`GetClusters`, `EngageOne`, `DoEngageReturns`), then `drainNotifications`
(`Subscribe`, `Wake`). The broadcaster's channel is abstracted to `stale[r]`:
the channel `r` holds has been closed. `missed` is a history variable:
clusters announced between the first `doEngage` and the first `Subscribe`.
Left out: `Warmup`, the local cluster, replacement of a registered cluster and
the cancellation at the end of the term. `Engage` itself is external.

### BrokerRoll

`crs` is a sequence of versions of all Broker CRs: its first element is what
the informer cache shows, its last what the API server holds, and at most
`MaxLag` writes lie between them. `Deliver` advances the cache. `EnsureBrokers` and
`EnsureRollGrants` are the two halves of the owner's pass (the second sees the
first one's marks through `marked`, the `Arbitration` value). A Broker pass is
one action per way through `reconcilePod`, `reconcilePodRotation`,
`reconcileBrokerRegistration` and `reconcileDecommission`, each ending in
`SyncStatus`, which is lost when the copy it read is stale. Templates are
version numbers; `HashOf` gives the pod-spec hash, so that two templates may
differ in configuration only; `Bad` are templates whose container cannot
start. `rolled` is a history variable: brokers taken down by a rotation and not
back yet.

Abstractions: one pool; the writes of one step reach the cache together; pods
are read fresh; a broker's node_id is known from the start; readiness and
health come from the same fact (the broker runs); Redpanda lets one broker at
a time enter maintenance mode; a decommission may finish while another broker
is down. Left out: creation of CRs and disk loss (`BrokerIncarnations`),
unschedulable pods, `MarkForRestart`, manual decommission.

### BrokerIncarnations

The CRs 1..`MaxCR` that exist at one network index over time, which all share
one pod name, one claim name and one address. `crs` is as in `BrokerRoll`.
A Broker pass is split: `BeginPass` reads the CR from the cache into
`seen[i]`, and `BrokerPass` acts on that copy later and ends in `EndPass`,
whose write is lost if the CR has changed. Its cases follow the reconciler
chain: `DetectDiskLost`, `DismantleDiskLost`, `TombstoneWithoutId`
(`reconcileDiskLost`), `AwaitClaim` (`reconcilePVCs`), `CreatePod`, `AdoptPod`
(`reconcilePod`), `Register` (`reconcilePodMetadata` and
`reconcileBrokerRegistration`), `ReconcileDecommission`, `ReconcileDelete`.
`EnsureBrokers` is `ensureBrokers` at this index, in its order: desired loop,
tombstones, excess.

`member` and `believed` are what the admin API reports for this address:
membership, and liveness, which with `Grace` outlasts a node's death.
`detect-disk-lost` is in `PodStarts`: a pod stamped with a node_id refuses an
empty disk. Without `Spare` a drain needs a running replacement to move
replicas to. `known` is a history variable: node_ids some CR recorded.

Abstractions: the finalizer is there from creation; the dead-node timeout is
"some time later"; a removed node_id cannot rejoin; pods, claims and the admin
API are read when they are acted on. Left out: teardown of the owner,
recommission, unmanaged Brokers, failing admin calls, existing claims, the
rollback bar, templates and grants, other pools.

### PoolRoll and RollLock

A pass of the Redpanda controller is a sequence of steps over `snap`: the
StatefulSets and pods it listed when it began (`Snapshot`), the edit it
renders, the broker map it fetched. `pc` is the step; between any two of them
the StatefulSet controller, kubelet, Redpanda and the owner move on. The steps
are those of the code: create missing StatefulSets, scale up, update, replace
failed pods, decommission and scale down, delete pools, and the gated roll,
with its pre- and post-restart probes. Membership, health (`seen`, which
refreshes behind the truth) and probes are answered live. `Legacy` templates
run a Redpanda without restart probes, whose roll falls back on the health
overview. `script` is one of the sequences of specs in `Scripts`, in which each
edit may come at any time.

`RollLock` is the abstract specification: a set `down` of brokers that rolls
have taken down, which never holds two. `BrokerRoll` (fresh cache) and
`PoolRoll` both map their history variable `rolled` to it
(`ImplementsRollLock`).

Left out: pods that map to several brokers, unschedulable and hung pods and
`Waits`, the schema-registry gate (it only delays a roll), the finalizer and
deletion of the cluster, resources other than StatefulSets.
`multicluster_controller.go` repeats this logic over several Kubernetes
clusters, with an extra guard on down nodes, and is not modelled.

### BrokerMigration

One pool. The owner's pass reads StatefulSet, Brokers and pods into `snap` and
goes through `ensureMigration` (shadow Brokers, preconditions, backup, orphan
deletion) or the rollback (strip owner references, delete Brokers, restore the
StatefulSet from the backup, stamp revisions, finalize); the StatefulSet's own
update, roll and scale-down are there in reduced form, since a migration waits
for them. Broker passes are `BrokerReads` followed by `BrokerCreates` or
`BrokerAdopts` (`pend` is what was read, a pod write being refused when the pod
changed), rotation, registration, decommission and the finalizer; `id` tells
whether the node_id is recorded, since a decommission without one has its pod
created again (`broker_controller.go:401-416`). `CreateShadows` writes the
shadows one by one as far as it gets: what a Broker pass does between two
writes concerns one index and commutes with the others, so only a call that
fails on the way is a case of its own. The garbage collector's
orphaning and cascading, and StatefulSet adoption by selector, are external
actions. A template is a pair of config checksum and the rest of the pod spec,
because the preconditions compare only the first. A script's `after` is the
condition the owner waits for before an edit. Roll grants are reduced to one
broker at a time with an expiry.

Left out: several pools and the aggregation of their conditions, tombstones,
the V1 owner, and duplicate shadows: `ensureMigration` creates them under
generated names from a cached list (`migration.go:114`), so a pass on an old
list may create a second CR at an index, as `ensureBrokers` may; the model has
one CR per index and reads the Broker list live. What duplicates do is in
`BrokerIncarnations` under lag.

### PVCUnbinder

The reconcile is split where the code calls the API: gates 0 to 2
(`GatesPass`, `GatesDefer`), the rebinding gates 3 and 4
(`RebindingGatePasses`, `RebindingDefers`), `PlanUnbind`, `PrepareForUnbind`
per volume, `DeleteClaim` per claim, `MaybeRecyclePersistentVolume`,
`DeletePod`; `Fail` ends it anywhere. Its progress is the annotations on the
volumes (`flight`, `freed`). The environment is the StatefulSet controller, a
scheduler whose volume binder prefers a matching free volume, nodes that are
lost, cordoned, come back or have their name reused, and informers of
claims or volumes that fall behind. Gate 2's outcome depends on the order of a
list when retained volumes name a claim twice, so it is a choice there
(`MayBeOneNode`, `MayBeMultiNode`). Any pod the scheduler reports
as fitting no node counts there, for want of CPU too
(`PodHasVolumeAffinityUnschedulable`, whose expression matches both).

`PlanUnbind` stands for the Gets of the claims and the List of the volumes that
follows (`pvcunbinder.go:650-676`). Claims read earlier than the volumes are
claims read from an informer that lags: `FallBehind("claim")` before the plan
and `CatchUp` after it, which the run has. Volumes older than the claims are a
lagging volume informer, which the theorems cover and the run does not.

Left out: network volumes and Immediate binding, tolerations, soft
anti-affinity, pods without the instance label, the per-cluster dispatch of the
multicluster variant.

### Decommissioner

One action per way through `Decommission` for a StatefulSet `q`. The two
delayed caches are `vol` and `ids`: per entry a count and the ticks since it
was last counted. A tick is the requeue timeout, a third of the interval; the
model takes every informer, the health report and the StatefulSet controller
to lag by less than a tick, which is the assumption under which the design is
sound, and a pass that left an entry or failed to be repeated within a tick.
Pods may take any time to start. `seen` holds the four views the pass decides
on, each refreshed on its own (`Sync`). Counts stop at the threshold. Five
history variables serve the properties: `since` (brokers whose pod was wanted
ever since they joined), `back` (brokers that ran after they were asked to
leave), and `held`, `bare` and `idle`, which tell for how many ticks in a row
a pod was missing under its claim.

Left out: deletion of a StatefulSet, the sidecar's instance per pod (which
compares with its own StatefulSet's replicas only), brokers whose address names
no pod.

## 3. Runs

Passing runs (distinct states on the bounds in the cfg):

| Run | States | Shows |
|---|---|---|
| `leader_election` | 328 | No leader work without leadership, one instance per routine, a follower quiesces, `IsLeader()` clears whatever order callbacks run in, a first leadership runs its routines |
| `cluster_engagement` | 18,750 | A peer that registers late, is partitioned and heals: no notification that reaches the drain loop is lost, a peer that stays reachable is engaged, an unreachable one is not retried for ever |
| `broker_roll` | 68,024 | Fresh cache, three Brokers, a template that cannot start, its repair, a scale-down, an expiring grant, an admin API that comes and goes: grants are exclusive and exclude decommissions, `RollLock` is implemented, a grant is released only when its broker is back, and the fleet converges |
| `broker_roll_lagging` | 86,236 | Three Brokers, one template change, a scale-down, an expiring grant, cache one write behind: one broker is down at a time and the fleet converges |
| `incarnations` | 1.5 million | Fresh cache but slow passes, two faults, a manual decommission, scale-down, grace window: `OnlyTheAskedIsDrained`, `RunningPodKept`, `DataKept` |
| `incarnations_converge` | 111,563 | No grace window, two faults or two CRs deleted by hand: node_ids are never shared, a dead node_id is drained only with its replacement in the cluster, a CR deleted by hand leaves its pod running, and the index settles |
| `incarnations_lagging` | 1.1 million | Cache one write behind, two faults or two deletions by hand, duplicate CRs included: a tombstone never names the running broker (`PinnedIsDead`) |
| `pool_roll` | 298,683 | Two pools through a template that cannot start and its repair, a scale-down by two, a NodePool added and removed, a change that also grows the pool, with an eviction, crash, failed patch or aborted pass: `RollLock` is implemented, no broker is dropped undrained, a failed pod is replaced only while it fails, the pools settle |
| `migration` | 551,469 | Seven scripts of two brokers (there and back, with a roll or a scale-up pending, born with Brokers, scaled down on either side, changed once handed over) with one eviction, lost status write, early expiry, failed call or aborted pass: no pod is restarted for the hand-over, the selected side ends up with every pod, changes reach the pods |
| `unbinder` | 411,576 | Two brokers with two claims each on three nodes, with and without rebinding, three node events or two and a fault: one unbind at a time, no disk lost or swapped, and by default a stuck broker runs again |
| `decommissioner` | 201,172 | Two StatefulSets in each of the three ways the controller is set up, a scaling and a fault: no wanted broker is removed, a claim only after its pod was missing throughout the interval, no second decommission while the first broker stays down, and ghosts, scaled-away brokers and their claims go |

The `TypeOK` of the modules whose run does not list it was checked on the same
instance.

One run ends in a counterexample, a disagreement between the code and what the
repository says of it (quoted in `PROJECT.json`, "findings"):

* `leader_regained`: `runRaft` does not reset `isLeader` on loss, so a node
  elected a second time runs no routine.

### What does not hold

The passing runs stop where the following begins. Each was seen with TLC on the
constants given, everything else as in the cfg named.

Where the code contradicts what the repository says of it:

* `BrokerRoll.cfg` with `N = 2`, `Edits <- ThereAndBack`, `Bad = {}`,
  `OneBrokerDown`: `rollComplete` (`grants.go:190`) does not look at the
  deletion timestamp, so when the template is reverted after the granted pod
  was deleted, the terminating pod counts as rolled and a second broker goes
  down. `grants.go:34-41`: "serializes disruptive pod actions across the whole
  cluster", "hold one while its pod terminates".
* `ClusterEngagement.cfg` with `Preset = {c1}`, no faults and no returns,
  `ReachableIsEngaged`: a probe that first succeeds between the first
  `doEngage` and the goroutine's first channel (`raft.go:842`) is announced to
  nobody. `health.go:72-73`: "re-engages each cluster the moment its first
  probe succeeds".
* `IncarnationsConverge.cfg` with `Grace = TRUE`, `ReplacedBeforeDrained`:
  while the replacement's pod runs but has not joined, it adopts the dead
  node_id, still reported alive (`broker_controller.go:837`); the tombstone is
  then drained with no replacement in the cluster, and `DistinctIdentities`
  fails too. `brokerset.go:442`: "Wait
  for the replacement to REGISTER, not merely exist".
* `PoolRoll.cfg` with `Scripts <- Lost`, `TemplateApplied`: `ToScaleDown`
  patches the StatefulSet as it is and labels it with the new generation
  (`pool.go:517`), so a template change made together with a scale-down of the
  default pool (configuration version unchanged) is never written.
  `pool.go:516`: "we use the desired set spec here".
* `BrokerMigration.cfg` with `Scripts <- ImageScript`, `RolloutReachesPods`:
  the preconditions compare config checksums, so an image change during the
  hand-over passes them, and adoption stamps the new template's hash on pods
  that run the old one (`broker_controller.go:456`). `migration.go:175-178`: "a
  config rollout pending at migration time would otherwise be silently
  cancelled".
* `PVCUnbinder.cfg` with `Lagging = {"pv"}`, `DataRetained`, and with
  `MaxFaults = 3` and `MaxTrouble = 4` also `OneUnbindAtATime`: the gate clears
  an annotation live, then `prepareForUnbind` works from the cached list, which
  still shows it, skips the patch and deletes the claim unmarked; a volume
  missing from the cache is not retained. `pvcunbinder.go:92-96`: "All reads go
  through the uncached Reader".

Elsewhere:

* `BrokerRollLagging.cfg`, `DecommissionExcludesRoll`: a pass that lists
  before the previous pass's grant reaches the cache marks a Broker for
  decommission beside the grant (`brokerset.go:309`).
* `BrokerRollLagging.cfg` with `MaxEdits = 2`, `AtMostOneGrant` and
  `OneBrokerDown`: between two passes that read the same cache the second
  template change makes a lower index outdated again, the second pass grants
  it, and two brokers can go down (`grants.go:55`; the grant patch carries no
  resourceVersion). `grants.go:35` says at most one Broker holds an unexpired
  grant at a time. The run therefore claims `OneBrokerDown` for one change
  only, and `AtMostOneGrant` of a fresh cache.
* `IncarnationsLagging.cfg`, `DataKept`, `OnlyTheAskedIsDrained` or
  `RunningPodKept`: a second live CR is created at the index on a stale list
  (generated names do not collide, `brokerset.go:839`), and one of the two is
  later drained as excess or dismantles the other one's disk.
* `IncarnationsConverge.cfg` with `Mixed = TRUE`, `RunningPodKept` and
  `DistinctIdentities`: a tombstone in decommission adopts the pod that its
  replacement's CR, deleted by hand, released, and deletes it when the dead
  node_id is gone (`broker_controller.go:440`).
* `IncarnationsConverge.cfg` with `MaxRaw = 0` and `MaxManual = 1`,
  `DistinctIdentities`: a manual decommission of a replacement that has not
  registered resolves the dead node_id, which has the same address, and
  records it beside the tombstone.
* `IncarnationsConverge.cfg`, `OnlyTheAskedIsDrained`: after a scale-down, a CR
  that is deleted by hand is also marked as excess while its finalizer pass
  releases the pod; the next pass drains the broker although the CR no longer
  owns it.
* `IncarnationsConverge.cfg` with `MaxFaults = 0`, `DataKept`: a CR deleted by
  hand while its decommission starts loses the node_id it had resolved; the
  deletion then takes the draining entry for nothing left to decommission and
  deletes pod and claim under it (`broker_controller.go:1196`).
* `IncarnationsConverge.cfg`, `Converges` without its hypothesis
  `~AskedWithoutDisk`: a Broker marked before its first pass gets a pod but no
  claim (`reconcilePVCs` returns early, `reconcilePod` does not) and stays in
  Decommissioning.
* `IsReachable` is false for a cluster that has not been probed, so the first
  `doEngage` skips every cluster; the comment at `raft.go:764` says such
  clusters are reported reachable.

* `PoolRoll.cfg`, `DrainedBeforeDropped` without `Hole`: `CheckScale` compares
  how many pods there are, not which; a terminating pod and a missing one below
  it cancel out and a broker is dropped undrained (the comment at
  `redpanda_controller.go:1198-1200` promises otherwise).
* Nothing on the StatefulSet path recommissions a draining broker when the
  owner restores the replica count, which
  `docs/multicluster-reconciliation.md:390` says cancels the scale-down. The
  comment at `redpanda_controller.go:1881-1882` says "the caller treats a
  returned error as non-fatal and proceeds with the roll"; the caller holds the
  roll.
* `HandoverFinishes` without `Wedged`: a shadow Broker that finds its pod
  missing creates it although the StatefulSet is live
  (`broker_controller.go:424`). The StatefulSet does not adopt that pod and the
  migration waits for ever. A scale-down racing the migration leaves an orphan
  pod the same way.
* `BrokerMigration` with other scripts: a scale-down and the removal of the
  annotation, both before the pods are adopted, deadlock the rollback on a
  decommissioning Broker that may no longer adopt; a pool grown in broker mode
  and rolled back gets a StatefulSet of the old size, which deletes the extra
  brokers undrained (`.changes/unreleased/operator-Added-20260814-154302.yaml`
  says the rollback works "with no pod
  recreation or restarts"); a pool born with Brokers, changed and rolled back
  has old pods stamped with the new revision; a pod created by a late Broker
  pass after `finalizeRollback` has no revision label and is never rolled; a
  Broker pass that adopts after its finalizer was stripped takes the pod with
  it (exempt in `HandoverKeepsPods`).
* `PVCUnbinder.cfg` with `PhaseLags = TRUE`, `NoDiskSwap`: a freed volume still
  shown as Bound by its terminating claim loses its mark and may be bound by
  another broker. A node whose name is reused between gate and binding swaps
  disks too (exempt). With rebinding only, one kind of claim, `MaxTrouble = 4`
  and a lagging claim informer, `OneUnbindAtATime`: a claim missing from a
  stale cache (`pvcunbinder.go:654`) gets its bound volume recycled under it,
  is later deleted unmarked, and another broker's unbind passes gate 0.
* `StuckIsFreed` without `Calm`: claims deleted under a pod that was scheduled
  meanwhile stay Terminating under a running broker and hold Gate 0 for its
  siblings; with rebinding, or the exemption off, a half-done unbind leaves an
  unbound claim that Gate 3 defers on for ever. A pod that is Pending for want
  of CPU, all its claims bound, loses them: nothing proves it mis-pinned.
* `Decommissioner`: a claim whose pod is wanted is not safe outright, which is
  why `UsedDataKept` speaks of the pod. Marks are kept by claim name and
  claims are deleted by name without a UID precondition, so with
  `MaxScales = 3`, or two scalings and a lost pod, a claim that was scaled
  away, marked and recreated inherits the marks of the one before it. A wanted
  pod that stays missing for longer than the interval loses its claim (no look
  at the ordinal), and claims of scaled-away brokers go before the brokers are
  drained. "No two brokers should attempt to be decommissioned simultaneously"
  (`statefulset_decomissioner.go:303-304`) counts only brokers that are down: one
  that comes back while it drains is not waited for, and with `MaxScales = 3`
  not even when it is scaled away again, until the next health report shows it
  down. `OneDecommissionAtATime` therefore exempts a broker that ran again
  after it was asked to leave. In V2 clusters no sync period is set, so a ghost
  that no event announces waits for the informers' resync.

### Bounds

* Three Brokers are enough for one to hold a grant, one to be next and one to
  be scaled away. Two edits give a bad template and its repair; one expiry is
  enough for a grant to pass through every stage expired. The safety
  properties of `broker_roll` were also checked with three edits, two expiries
  and each choice of bad templates.
* Three CRs and three node_ids at an index give a broker, its replacement and
  the replacement's replacement, hence two tombstones at once with two faults;
  a manual decommission adds a fourth incarnation only in runs that ask for
  nothing of it but safety (the names run out and nothing more is created).
  Random simulation with four CRs, four faults and two manual decommissions
  found nothing further, and `incarnations` holds with `Spare` as well (2.3
  million states).
* One write of lag is the least that makes a list stale; every failure under
  lag named above needs no more. One peer and one runnable are enough for
  engagement, since runnables do not interact and a notification names no peer;
  that notifications are not missed is proved for any number of both.
* `Others = 2`: the last-broker guard never applies at this index. It is in
  the model but outside what the runs reach.
* The scripts of `pool_roll` and `migration` are the edits an owner makes of
  one pool of two or three brokers, each at any time; one fault may come at any
  point of them. Two brokers are the fewest of which one may roll and the other
  must wait; three in `Shrink` give two scale-down steps in a row.
* `unbinder` needs two brokers to swap disks and a third node to move to;
  `MaxTrouble = 3` allows three node events, or two and a failed call, restart
  or stale informer, and three incarnations of a claim are enough for two
  unbinds. Behaviours that run out of claim uids are left out of
  `StuckIsFreed`.
* `decommissioner`: two pools of at most two pods and one, four node_ids, one
  scaling and one fault. Its safety properties are proved for any of them.
* `Mixed = FALSE`: faults and deletions by hand come in different behaviours,
  because together they fail as told above.
* Deadlock checking is off for `LeaderElection`, whose process may stop, and
  for `PVCUnbinder` and `Decommissioner`, which rest when there is nothing to
  do and a bound is used up.

### Fairness

Weak fairness of each controller step, because a controller-runtime workqueue
retries a failed or requeued key and every early return in these passes
requeues; of `Deliver`, because watches deliver; of kubelet, scheduler and the
pvc-protection controller, and of Redpanda's drains and joins, which finish
what they began. Never of faults, edits, deletions, elections or an admin API
coming back: properties that need one of those name it in their hypothesis
(`RollConverges` assumes the admin API stays reachable in the end,
`HealedIsEngaged` that the peer does). Kubernetes is one fair action in
`PVCUnbinder` and `Decommissioner` (`Cluster`), as is the reconcile's next step
in the first; there only the choice of a list order makes strong fairness of
`GatesPass` necessary, since a pass that is deferred is repeated with the list
in another order. In `Decommissioner` each StatefulSet has a pass per tick
again and again (the sync period, or the informers' resync), and time passes.
An expired grant is fair only while its roll is stuck, since the clock runs on.
`Converges` assumes away the two states from which the code hands over to a
human or wedges: a broker that joined under another node_id (`IdentityChanged`,
phase Stuck by design) and a Broker asked to leave without a disk
(`AskedWithoutDisk`, see above); and it speaks of CRs deleted by hand only
while the index stays desired.

## 4. Proofs

TLAPS checks 8,629 obligations in eight modules. A theorem holds for every
value of the constants the named assumptions allow: any cache lag, grace
window, number of Brokers, faults and deletions by hand. Where the code breaks
a property in some situation (section 3), the theorem does not exclude the
environment in which that happens; its hypothesis names the step, as an action
property of the behaviour, and everything else stays as the model has it:
stale reads in every other place included. Such a theorem tells what a repair
of the code has to ensure, and that nothing else is needed. Each hypothesis was
dropped in turn, and TLC found the property violated. Every inductive invariant
was checked with TLC first.

* `LeaderElectionProofs`: `TypeCorrect`; `LeaderWorkIsCancelled` and
  `SingleLiveInstance`. Neither invariant is inductive alone: a start callback
  may create instances only because none are live while it is pending, and
  `isLeader` never falls back, so a second start is never spawned. `IInv` adds
  what ties `isLeader`, `observed` and the live work together.
* `ClusterEngagementProofs`: `NotificationsAreNotMissed`, by `EngageInv`:
  the tracker only knows registered clusters (`KnownAreRegistered`), and only
  a channel in hand is ever closed (`ClosedAreHeld`).
* `BrokerRollProofs`: `TypeCorrect`; `RollInvariant`, `GrantsAreExclusive` and
  `RollsExcludeDecommissions` under `FreshArbitration`: `EnsureBrokers` and
  `EnsureRollGrants` see the live grants and marks. Templates, conditions and
  phases they read may be old, and so may all that Broker passes read. Without
  it a pass on an old list issues a second grant or marks beside a grant. The
  inductive invariant `RollInv` adds `MarkedHoldNoGrant`: a grant on a Broker
  marked for decommission would never complete, and exclusion of the two rests
  on there being none. The argument reduces a pass to "refines": what a pass
  writes before the new grant only takes grants away or re-keys them, and a new
  grant is issued only when nothing is left (`NoneLeft`).
* `BrokerRollLockProofs`, on top of it: `OneBrokerDownAtATime` and
  `RollsImplementLock` (the refinement of `RollLock`) under `FreshRolls` (in
  addition `EnsureRollGrants` sees the live templates, and a rotation the live
  grant and template of its own Broker) and `NeverTakenBack` (no pass gives a
  Broker back the template of the pod that is terminating; other reverts are
  allowed). The second is what `ThereAndBack` breaks.
  `GrantsReleasedWhenBack` also needs `FreshCreates`: the pass that creates a
  pod does not lose its status update, which clears the old condition; with
  `MaxLag = 3` TLC breaks it otherwise. `DownInv` says that whoever was taken
  down runs, if at all, in a terminating pod of another template than its CR's
  (`RolledIsDown`), so that its grant is not complete; that it is alone and
  nobody else holds a grant to go down (`RolledAlone`); and that it comes before
  every holder of a grant that ran out (`RolledFirst`, `HolderFirst`), because a
  renewal goes to the smallest index.
* `BrokerIncarnationsProofs`: `TypeCorrect` and `PinnedStaysDead`, for any cache
  lag, grace window, faults and deletions by hand. `PinInv`: a CR becomes a
  tombstone only while its pod cannot run on its disk, and no disk on a live
  node ever gets a node_id that was recorded before.
* `BrokerSuccessionProofs`: `DrainsAreAskedFor`, `RunningPodsStay` and
  `DataOfMembersStays` under `Orderly`, the conjunction of four hypotheses:
  `HoldersListed` (a Broker is created from a list that shows every CR holding
  the index, or `OnlyTheAskedIsDrained` fails), `OwnWritesRead` (a pass reads
  what the Broker controller itself wrote last, while marks and deletions by
  others may be unseen; or `DataKept` fails), `TombstonesAdoptNothing` (or
  `RunningPodKept` fails) and `DeletedOrDecommissioned` (no CR is deleted while
  its decommission is in flight, tombstones aside; or `DataKept` fails). By
  `SuccInv`: at most one CR holds the index (`OneHolder`), each CR passes its
  stages in order, also in the copy a slow pass works on and in every version
  the cache may still show (`Stages`, `Copies`, `Forward`), and pod and disk
  belong to the holder (`PodOwned`, `LostHolder`, `DoneHolder`, `DiskFacts`).
  `IdentitiesAreDistinct` and `DrainsWaitForReplacement` need one step more
  excluded, `RunningBrokersRecorded`: a node_id that is newly recorded is that
  of the broker running in the pod. That is the step the grace window makes
  possible; the window itself is not excluded. By `IdInv`: node_ids are recorded
  in the order Redpanda gives them out (`Younger`, `DiskYounger`, `KnownIds`),
  only tombstones leave while the index is wanted (`OnlyTombstonesLeave`), each
  of them for a younger node_id (`Succeeded`), and the youngest recorded stays
  active (`LastActive`).
* `PVCUnbinderProofs`: `OneUnbind` and `DisksAreRetained` with rebinding off,
  the default, however the claim and the volume informer lag, under
  `TrueLists`: when an unbind is planned, the list shows the volumes of the
  broker and no in-flight mark that has been cleared (or `DataRetained`, or
  `OneUnbindAtATime`, fails). Other old copies are harmless, because
  `prepareForUnbind` patches with a resourceVersion.
  `UnbindInv`: volumes and claims belong to each other by name and uid
  (`VolumesAreOwn`, `ClaimsAreOwn`), uids are not used twice (`Youngest`), a
  cached claim is the current one or one whose deletion is on record
  (`StaleIsPast`), a broker waiting for its disk bears a mark (`OpenIsMarked`)
  that the scan does not clear and gate 0 does not overlook
  (`OpenIsUnsettled`), and a reconcile past gate 0 is the only unbind (`Alone`)
  and has marked, or is about to mark from a current copy, whatever it will
  delete (`ToPrepare`, `ToDelete`). The steps are first reduced to the ten
  things they do to claims, volumes and reconcile (`Effect`).
* `DecommissionerProofs`: `TypeCorrect`, `DecommissionsAreSequential`,
  `WantedBrokersStay` and `DataInUseStays`, for any pools, scalings and faults.
  `LeavingIsDown` ties a draining broker that never ran again to what every
  later health report shows; `WantedInv` and `UsedInv` bound how old a mark can
  be that was made on a view now out of date: less than a tick.

Only model-checked: every liveness property (fairness and `ENABLED` are out
of the prover's reach); the unbinder with rebinding, hence `NoDiskSwap`; and all
of `PoolRoll` and `BrokerMigration`.

## 5. Plan

In this order:

1. Prove that `PoolRoll` implements `RollLock`, and `FailedPodServesNothing`;
   then `HandoverKeepsPods` of `BrokerMigration`.
2. Model: `failedpods.Waits` as a pure algorithm with a reference definition;
   several clusters in `PoolRoll` (`multicluster_controller.go`); maintenance
   mode and stale disk wipe beside a roll; owner teardown; the aggregation of
   several pools' migration conditions.
3. `LeaderElection` with several nodes over an abstract raft, and
   `ClusterEngagement` over several terms, composed.

### Not modelled

Not planned: rendering (charts, gotohelm, configuration), declarative
resources, CLIs, probes, metrics, generated code and test tooling. They hold no
protocol state; `PROJECT.json` lists each with its reason.
