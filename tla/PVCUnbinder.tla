---------------------------- MODULE PVCUnbinder ----------------------------
(***************************************************************************)
(* The PVC unbinder of operator/internal/controller/pvcunbinder: brokers on *)
(* local disks whose node is lost stay Pending, and the unbinder deletes    *)
(* their claims and pod so that they come back elsewhere.  It has one       *)
(* worker, keeps its progress in annotations of the PersistentVolumes, and  *)
(* is run against the StatefulSet controller, the scheduler with its volume *)
(* binder, nodes that come and go, failing API calls and restarts.          *)
(*                                                                          *)
(* All volumes are local, all claims WaitForFirstConsumer, all brokers of   *)
(* one cluster with hard anti-affinity.  A node that is cordoned stands for *)
(* every node that exists and takes no pods.                                *)
(***************************************************************************)
EXTENDS Integers, FiniteSets

CONSTANTS Broker, Kind, Node,
          None,      \* no node, no volume, no claim
          Home,      \* where each broker runs at first
          Flags,     \* command-line flags the operator may be started with
          PhaseLags, \* whether a freed volume is shown as Bound until its claim is gone
          Lagging,   \* the informers that may lag: "claim", "pv"
          MaxUid,    \* bound on incarnations of a claim
          MaxEvents, \* bound on node events, pauses and pods Pending for want of CPU
          MaxFaults, \* bound on failed calls, restarts and times an informer falls behind
          MaxTrouble \* bound on events and faults together

Claim == Broker \X Kind
Id == Broker \X Kind \X (1 .. MaxUid) \* a claim's name and uid; also the volume made for it
NoClaim == [uid |-> 0, vol |-> None, del |-> FALSE]
NoPV == [node |-> None]
NoPod == [phase |-> "none", node |-> None, seen |-> FALSE]
Idle == [pc |-> "idle"]

ASSUME UnbinderAssumption ==
    /\ Broker # {} /\ Kind # {} /\ None \notin Node /\ None \notin Id
    /\ Home \in [Broker -> Node]
    /\ \A a, b \in Broker : Home[a] = Home[b] => a = b
    /\ Flags \subseteq [rebind: BOOLEAN, exempt: BOOLEAN]
    /\ PhaseLags \in BOOLEAN /\ Lagging \subseteq {"claim", "pv"}
    /\ MaxUid \in Nat \ {0} /\ {MaxEvents, MaxFaults, MaxTrouble} \subseteq Nat

VARIABLES
    flags,  \* AllowRebinding and ~DisableStuckClaimExemption
    node, pod, claim, pv,
    paused, \* the pause annotation of the cluster's CR
    stale,  \* what a lagging informer still shows
    u,      \* the reconcile under way
    hit,    \* history: claims the unbinder has deleted, by name and uid
    events, faults

world == <<node, pod, claim, pv>>
bounds == <<events, faults>>
vars == <<flags, world, paused, stale, u, hit, bounds>>

-----------------------------------------------------------------------------
Name(id) == <<id[1], id[2]>>
ClaimId(c) == <<c[1], c[2], claim[c].uid>>
Exists(c) == claim[c] # NoClaim
Bound(c) == claim[c].vol # None
PVs == {p \in Id : pv[p] # NoPV}
(* The phase of a volume, as the volume controller has last written it.      *)
InUse(p) == \E c \in Claim : claim[c].vol = p /\ (pv[p].ref = ClaimId(c) \/ PhaseLags)
Available(p) == pv[p].ref = None /\ ~InUse(p)

View(i, live) == IF \E s \in stale : s.of = i THEN (CHOOSE s \in stale : s.of = i).was ELSE live
ClaimView == View("claim", claim)
PVView == View("pv", pv)

Waiting(b) == pod[b].phase \in {"pending", "stuck"}
Occupied(n, b) == \E o \in Broker \ {b} : pod[o].phase = "running" /\ pod[o].node = n
Fits(b, n) ==
    /\ node[n].st = "up" /\ ~Occupied(n, b)
    /\ \A k \in Kind : Exists(<<b, k>>) /\ ~claim[<<b, k>>].del
    /\ \A k \in Kind : Bound(<<b, k>>) => pv[claim[<<b, k>>].vol].node = n
Unschedulable(b) == Waiting(b) /\ \A n \in Node : ~Fits(b, n)

PodIs(b, phase, n) == pod' = [pod EXCEPT ![b] = [phase |-> phase, node |-> n, seen |-> FALSE]]

MoreEvents == events < MaxEvents /\ events + faults < MaxTrouble
MoreFaults == faults < MaxFaults /\ events + faults < MaxTrouble

TypeOK ==
    /\ flags \in Flags /\ paused \in BOOLEAN
    /\ node \in [Node -> [st: {"up", "cordoned", "gone"}, reused: BOOLEAN]]
    /\ pod \in [Broker -> [phase: {"none", "pending", "stuck", "running"},
                           node: Node \cup {None}, seen: BOOLEAN]]
    /\ claim \in [Claim -> [uid: 0 .. MaxUid, vol: Id \cup {None}, del: BOOLEAN]]
    /\ pv \in [Id -> {NoPV} \cup [node: Node, ref: Id \cup {None}, retain: BOOLEAN,
                                  flight: Id \cup {None}, freed: BOOLEAN]]
    /\ \A b \in Broker : pod[b].seen => u # Idle /\ u.b = b
    /\ hit \subseteq Id
    /\ events \in 0 .. MaxEvents /\ faults \in 0 .. MaxFaults

Init ==
    /\ flags \in Flags /\ paused = FALSE
    /\ node = [n \in Node |-> [st |-> "up", reused |-> FALSE]]
    /\ pod = [b \in Broker |-> [phase |-> "running", node |-> Home[b], seen |-> FALSE]]
    /\ claim = [c \in Claim |-> [uid |-> 1, vol |-> <<c[1], c[2], 1>>, del |-> FALSE]]
    /\ pv = [p \in Id |-> IF p[3] > 1 THEN NoPV
                          ELSE [node |-> Home[p[1]], ref |-> p, retain |-> FALSE,
                                flight |-> None, freed |-> FALSE]]
    /\ stale = {} /\ u = Idle /\ hit = {}
    /\ events = 0 /\ faults = 0

-----------------------------------------------------------------------------
(* External: nodes, the owner, the StatefulSet controller, the scheduler and *)
(* the volume controllers.                                                   *)
NodeFails(n) ==
    /\ node[n].st = "up" /\ MoreEvents
    /\ \E st \in {"cordoned", "gone"} : node' = [node EXCEPT ![n].st = st]
    /\ pod' = [b \in Broker |-> IF pod[b].node = n THEN NoPod ELSE pod[b]]
    /\ events' = events + 1
    /\ UNCHANGED <<flags, claim, pv, paused, stale, u, hit, faults>>

NodeReturns(n) ==
    /\ node[n].st # "up" /\ MoreEvents
    /\ node' = [node EXCEPT ![n] = [st |-> "up", reused |-> @.reused \/ @.st = "gone"]]
    /\ events' = events + 1
    /\ UNCHANGED <<flags, pod, claim, pv, paused, stale, u, hit, faults>>

OwnerPauses ==
    /\ MoreEvents
    /\ paused' = ~paused /\ events' = events + 1
    /\ UNCHANGED <<flags, world, stale, u, hit, faults>>

(* The next incarnation of claim c.                                          *)
Used(c, i) == LET id == <<c[1], c[2], i>> IN id \in hit \/ pv[id] # NoPV
NewUid(c) == 1 + Cardinality({i \in 1 .. MaxUid : \E j \in i .. MaxUid : Used(c, j)})
Fresh(c) == [uid |-> NewUid(c), vol |-> None, del |-> FALSE]

StsCreatesPod(b) ==
    /\ pod[b].phase = "none"
    /\ \A k \in Kind : ~claim[<<b, k>>].del /\ (Exists(<<b, k>>) \/ NewUid(<<b, k>>) <= MaxUid)
    /\ claim' = [c \in Claim |-> IF c[1] = b /\ ~Exists(c) THEN Fresh(c) ELSE claim[c]]
    /\ PodIs(b, "pending", None)
    /\ UNCHANGED <<flags, node, pv, paused, stale, u, hit, bounds>>

StsRecreatesClaims(b) ==
    /\ Waiting(b)
    /\ \E k \in Kind : ~Exists(<<b, k>>) /\ NewUid(<<b, k>>) <= MaxUid
    /\ claim' = [c \in Claim |-> IF c[1] = b /\ ~Exists(c) /\ NewUid(c) <= MaxUid
                                THEN Fresh(c) ELSE claim[c]]
    /\ UNCHANGED <<flags, node, pod, pv, paused, stale, u, hit, bounds>>

(* The pod's claims are bound on node n, each to a free volume there if      *)
(* there is one and else to a new one.  Binding may stop half-way.           *)
Free(c, n) == {p \in PVs : Available(p) /\ pv[p].node = n /\ p[2] = c[2]}
Choices(c, n) == IF Free(c, n) = {} THEN {ClaimId(c)} ELSE Free(c, n)
NewPV(c, n) == [node |-> n, ref |-> ClaimId(c), retain |-> FALSE, flight |-> None, freed |-> FALSE]
Bind(b, n) ==
    LET open == {c \in Claim : c[1] = b /\ ~Bound(c)}
    IN  /\ Waiting(b) /\ Fits(b, n)
        /\ \E S \in (SUBSET open) \ {{}} :
            /\ \/ S = open /\ UNCHANGED faults
               \/ S # open /\ MoreFaults /\ faults' = faults + 1
            /\ \E vol \in [S -> UNION {Choices(c, n) : c \in S}] :
                /\ \A c \in S : vol[c] \in Choices(c, n)
                /\ claim' = [c \in Claim |-> IF c \in S THEN [claim[c] EXCEPT !.vol = vol[c]] ELSE claim[c]]
                /\ pv' = [p \in Id |->
                            IF \E c \in S : vol[c] = p
                            THEN LET c == CHOOSE d \in S : vol[d] = p
                                 IN  IF pv[p] = NoPV THEN NewPV(c, n) ELSE [pv[p] EXCEPT !.ref = ClaimId(c)]
                            ELSE pv[p]]
        /\ UNCHANGED <<flags, node, pod, paused, stale, u, hit, events>>

PodStarts(b) ==
    /\ Waiting(b)
    /\ \A k \in Kind : Bound(<<b, k>>)
    /\ \E n \in Node : Fits(b, n) /\ PodIs(b, "running", n)
    /\ UNCHANGED <<flags, node, claim, pv, paused, stale, u, hit, bounds>>

(* The pod has been unschedulable for the configured time; a scheduler short *)
(* of CPU reports the same.                                                  *)
TimesOut(b) ==
    /\ pod[b].phase = "pending"
    /\ Unschedulable(b)
    /\ PodIs(b, "stuck", None)
    /\ UNCHANGED <<flags, node, claim, pv, paused, stale, u, hit, bounds>>

ShortOfCPU(b) ==
    /\ pod[b].phase = "pending" /\ MoreEvents
    /\ PodIs(b, "stuck", None) /\ events' = events + 1
    /\ UNCHANGED <<flags, node, claim, pv, paused, stale, u, hit, faults>>

(* A deleted claim goes once no scheduled pod uses it, and its volume with   *)
(* it unless it is retained.                                                 *)
ClaimGone(c) ==
    /\ claim[c].del /\ pod[c[1]].phase # "running"
    /\ claim' = [claim EXCEPT ![c] = NoClaim]
    /\ pv' = [p \in Id |-> IF pv[p] # NoPV /\ pv[p].ref = ClaimId(c) /\ ~pv[p].retain
                           THEN NoPV ELSE pv[p]]
    /\ UNCHANGED <<flags, node, pod, paused, stale, u, hit, bounds>>

(* The informer of i shows what it shows now until it catches up.            *)
FallBehind(i) ==
    /\ MoreFaults /\ \A s \in stale : s.of # i
    /\ stale' = stale \cup {[of |-> i, was |-> IF i = "pv" THEN pv ELSE claim]}
    /\ faults' = faults + 1
    /\ UNCHANGED <<flags, world, paused, u, hit, events>>

CatchUp ==
    /\ stale # {} /\ stale' = {}
    /\ UNCHANGED <<flags, world, paused, u, hit, bounds>>

-----------------------------------------------------------------------------
(* The reconcile.  Every end, whatever the reason, drops what it has read.   *)
End == u' = Idle
Unseen(pods) == [b \in Broker |-> [pods[b] EXCEPT !.seen = FALSE]]

(* Gates 0 and 4 read the annotations uncached.                              *)
InFlightClaimSettledWhenGone(p) == \* mutant: a missing claim counts as settled
    LET f == pv[p].flight
        c == claim[Name(f)]
    IN  ~c.del /\ (c.uid \in {0, f[3]} \/ c.vol # None)
InFlightClaimSettled(p) ==
    LET f == pv[p].flight
        c == claim[Name(f)]
    IN  /\ c # NoClaim /\ ~c.del
        /\ c.uid = f[3] \/ c.vol # None
InFlightClaimOwnedByNone(p, b) == FALSE \* mutant: the pod's own unbind blocks it too
InFlightClaimOwnedBy(p, b) == pv[p].flight[1] = b
UnbindInFlight(b) ==
    \E p \in PVs : /\ pv[p].flight # None /\ ~InFlightClaimSettled(p)
                   /\ ~InFlightClaimOwnedBy(p, b)
FreedPVBlockingOnLiveNode(p) == \* mutant: a cordoned node does not count
    pv[p].freed /\ Available(p) /\ node[pv[p].node].st = "up"
FreedPVBlocking(p) == pv[p].freed /\ Available(p) /\ node[pv[p].node].st # "gone"
Cleared(p) ==
    [pv[p] EXCEPT !.flight = IF @ # None /\ InFlightClaimSettled(p) THEN None ELSE @,
                  !.freed = @ /\ ~InUse(p)]

(* Gate 2: the claims of unschedulable pods, for want of CPU too, by the     *)
(* node of a volume that refers to them; of several volumes that do, any one *)
(* may be listed last.                                                       *)
PodHasVolumeAffinityUnschedulable(b) == Unschedulable(b) \/ pod[b].phase = "stuck"
Refers(p, c) == PVView[p] # NoPV /\ PVView[p].ref # None /\ Name(PVView[p].ref) = c
NodesOf(c) == {PVView[p].node : p \in {q \in Id : Refers(q, c)}}
StuckClaims == {c \in Claim : PodHasVolumeAffinityUnschedulable(c[1]) /\ NodesOf(c) # {}}
MayBeOneNode == StuckClaims = {} \/ \E n \in Node : \A c \in StuckClaims : n \in NodesOf(c)
MayBeMultiNode == \E c, d \in StuckClaims : c # d /\ \E m \in NodesOf(c), n \in NodesOf(d) : m # n

ShouldRemediate(b) == pod[b].phase = "stuck"

(* The scan clears what has settled, whether or not the reconcile goes on.   *)
ScanPVs(b) ==
    /\ u = Idle /\ ShouldRemediate(b)
    /\ \/ pv' = [p \in Id |-> IF p \in PVs THEN Cleared(p) ELSE NoPV] /\ UNCHANGED faults
       \/ UNCHANGED pv /\ MoreFaults /\ faults' = faults + 1
    /\ UNCHANGED <<flags, node, claim, paused, stale, hit, events>>

GatesPass(b) ==
    /\ ScanPVs(b)
    /\ ~UnbindInFlight(b) /\ ~paused /\ MayBeOneNode
    /\ u' = [pc |-> "gates", b |-> b, blocked |-> \E p \in PVs : FreedPVBlocking(p)]
    /\ pod' = [pod EXCEPT ![b].seen = TRUE]

GatesDefer(b) ==
    /\ ScanPVs(b)
    /\ UnbindInFlight(b) \/ paused \/ MayBeMultiNode
    /\ UNCHANGED <<u, pod>>

-----------------------------------------------------------------------------
(* Gate 3: claims not yet bound, and the proof that they never will be       *)
(* because their own pod is deadlocked on a claim that is.                   *)
NodeUnavailableForScheduling(n, b) == node[n].st # "up" \/ Occupied(n, b)
PodHasMispinnedBoundClaim(b) ==
    \E k \in Kind : LET c == <<b, k>>
                        p == claim[c].vol
                    IN  /\ p # None /\ pv[p] # NoPV /\ pv[p].ref = ClaimId(c)
                        /\ NodeUnavailableForScheduling(pv[p].node, b)
Unbound(f) == {c \in Claim : f[c] # NoClaim /\ f[c].vol = None}
StuckClaimNames(b) ==
    {c \in Unbound(claim) : /\ c[1] = b \/ ShouldRemediate(c[1])
                            /\ PodHasMispinnedBoundClaim(c[1])}
Exemptions(b) == IF flags.rebind \/ ~flags.exempt THEN {} ELSE StuckClaimNames(b)
RebindingGatePasses(b) ==
    Unbound(ClaimView) # {} => /\ Unbound(ClaimView) \subseteq Exemptions(b)
                               /\ PodHasMispinnedBoundClaim(b)
                               /\ Unbound(claim) \subseteq Exemptions(b)

(* The claims of the pod, and the volumes that refer to them by name.        *)
Volumes(b) == {p \in Id : \E k \in Kind : Refers(p, <<b, k>>)}
Plan(b) ==
    LET claims == [k \in Kind |-> ClaimView[<<b, k>>]]
        vols   == Volumes(b)
        bound  == {k \in Kind : claims[k].vol # None}
    IN  [pc |-> "act", b |-> b, claims |-> claims, vols |-> [p \in vols |-> PVView[p]],
         prepare |-> vols, delete |-> bound, recycle |-> IF flags.rebind THEN vols ELSE {},
         missing |-> bound # {} \/ \E k \in Kind : claims[k] = NoClaim]

PlanUnbind ==
    /\ u.pc = "gates"
    /\ RebindingGatePasses(u.b) /\ ~u.blocked
    /\ u' = Plan(u.b)
    /\ UNCHANGED <<flags, world, paused, stale, hit, bounds>>

RebindingDefers ==
    /\ u.pc = "gates"
    /\ ~RebindingGatePasses(u.b) \/ u.blocked
    /\ End /\ pod' = Unseen(pod)
    /\ UNCHANGED <<flags, node, claim, pv, paused, stale, hit, bounds>>

(* Retain and the in-flight annotations, in one patch with a resourceVersion *)
(* and only if the copy at hand does not show them.                          *)
PreparedUnretained(r) == [r EXCEPT !.flight = IF @ = None THEN r.ref ELSE @] \* mutant: only marks
Prepared(r) == [r EXCEPT !.retain = TRUE, !.flight = IF @ = None THEN r.ref ELSE @]
PrepareForUnbind ==
    /\ u.pc = "act"
    /\ u.prepare # {}
    /\ LET p    == CHOOSE q \in u.prepare : TRUE
           copy == u.vols[p]
           conflict == Prepared(copy) # copy /\ pv[p] # copy
       IN  IF conflict
           THEN End /\ pod' = Unseen(pod) /\ UNCHANGED pv
           ELSE /\ pv' = IF Prepared(copy) = copy THEN pv ELSE [pv EXCEPT ![p] = Prepared(copy)]
                /\ u' = [u EXCEPT !.prepare = @ \ {p}]
                /\ UNCHANGED pod
    /\ UNCHANGED <<flags, node, claim, paused, stale, hit, bounds>>

DeleteClaim ==
    /\ u.pc = "act" /\ u.prepare = {}
    /\ \E k \in u.delete :
        LET c == <<u.b, k>>
        IN  \/ /\ claim[c] = u.claims[k]
               /\ claim' = [claim EXCEPT ![c].del = TRUE]
               /\ hit' = hit \cup {ClaimId(c)}
               /\ u' = [u EXCEPT !.delete = @ \ {k}]
               /\ UNCHANGED pod
            \/ /\ claim[c] # u.claims[k]
               /\ End /\ pod' = Unseen(pod)
               /\ UNCHANGED <<claim, hit>>
    /\ UNCHANGED <<flags, node, pv, paused, stale, bounds>>

MaybeRecyclePersistentVolume ==
    /\ u.pc = "act" /\ u.prepare = {} /\ u.delete = {}
    /\ u.recycle # {}
    /\ LET p == CHOOSE q \in u.recycle : TRUE IN
        IF pv[p] = NoPV
        THEN End /\ pod' = Unseen(pod) /\ UNCHANGED pv
        ELSE /\ pv' = [pv EXCEPT ![p].ref = None, ![p].freed = TRUE]
             /\ u' = [u EXCEPT !.recycle = @ \ {p}]
             /\ UNCHANGED pod
    /\ UNCHANGED <<flags, node, claim, paused, stale, hit, bounds>>

DeletePod ==
    /\ u.pc = "act" /\ u.prepare = {} /\ u.delete = {} /\ u.recycle = {}
    /\ End
    /\ pod' = Unseen(IF u.missing /\ pod[u.b].seen THEN [pod EXCEPT ![u.b] = NoPod] ELSE pod)
    /\ UNCHANGED <<flags, node, claim, pv, paused, stale, hit, bounds>>

(* A call fails, or the operator restarts.                                   *)
Fail ==
    /\ u # Idle /\ MoreFaults
    /\ End /\ pod' = Unseen(pod)
    /\ faults' = faults + 1
    /\ UNCHANGED <<flags, node, claim, pv, paused, stale, hit, events>>

-----------------------------------------------------------------------------
Step == PlanUnbind \/ RebindingDefers \/ PrepareForUnbind \/ DeleteClaim
        \/ MaybeRecyclePersistentVolume \/ DeletePod

Cluster ==
    \/ \E b \in Broker : \/ StsCreatesPod(b) \/ StsRecreatesClaims(b)
                         \/ \E n \in Node : Bind(b, n)
                         \/ PodStarts(b) \/ TimesOut(b)
    \/ \E c \in Claim : ClaimGone(c)
    \/ CatchUp

Next ==
    \/ Cluster
    \/ \E n \in Node : NodeFails(n) \/ NodeReturns(n)
    \/ OwnerPauses
    \/ \E i \in Lagging : FallBehind(i)
    \/ \E b \in Broker : ShortOfCPU(b) \/ GatesPass(b) \/ GatesDefer(b)
    \/ Step
    \/ Fail

Spec == Init /\ [][Next]_vars

(* Kubernetes' controllers and the worker keep going.  A deferred reconcile  *)
(* is repeated every 30 seconds, and the order in which the volumes of one   *)
(* claim are listed changes from one to the next.                            *)
Fairness == WF_vars(Cluster) /\ WF_vars(Step) /\ SF_vars(\E b \in Broker : GatesPass(b))

FairSpec == Spec /\ Fairness

-----------------------------------------------------------------------------
Unbinding(b) == \E id \in hit : id[1] = b /\ LET c == claim[Name(id)]
                                             IN  c.uid <= id[3] \/ c.del \/ c.vol = None

(* Gate 0: the brokers whose claims the unbinder has deleted and that are    *)
(* not yet bound to disks again are never more than one, whatever fails in   *)
(* the middle of an unbind.                                                  *)
OneUnbindAtATime == \A a, b \in Broker : Unbinding(a) /\ Unbinding(b) => a = b

(* No disk is lost to its reclaim policy: prepareForUnbind comes before the  *)
(* claim is deleted, on every volume of it.                                  *)
DataRetained == [][\A p \in PVs : pv'[p] # NoPV]_vars

(* Gate 4: a broker is not bound to a disk another broker has written, even  *)
(* with --allow-pv-rebinding, unless the disk's node was gone and its name   *)
(* came back.                                                                *)
NoDiskSwap ==
    [][\A c \in Claim : LET p == claim'[c].vol
                        IN  p # claim[c].vol /\ p # None /\ p[1] # c[1] => node[pv[p].node].reused]_vars

(* A broker that cannot be scheduled is freed and runs again: no gate waits  *)
(* for ever, not on the reconcile's own unfinished unbind nor on claims that *)
(* wait for it.  Left out: a paused cluster, too few nodes, stuck pods on    *)
(* several nodes, the deprecated flags, a claim deleted under a pod that got *)
(* scheduled meanwhile, and behaviours that run into MaxUid.                 *)
Calm ==
    /\ ~flags.rebind /\ flags.exempt /\ ~paused
    /\ Cardinality({n \in Node : node[n].st = "up"}) >= Cardinality(Broker)
    /\ \A c \in Claim : /\ claim[c].del => pod[c[1]].phase # "running"
                        /\ NewUid(c) <= MaxUid
    /\ MayBeOneNode
StuckIsFreed == <>[]Calm => <>[](\A b \in Broker : pod[b].phase = "running")
=============================================================================
