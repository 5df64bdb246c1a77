----------------------------- MODULE BrokerRoll -----------------------------
(***************************************************************************)
(* Rolling a template change, and scaling down, across the Broker CRs of    *)
(* one node pool.  The cluster controller (operator/internal/brokerset)     *)
(* writes templates and hands out roll-grants; the Broker controller        *)
(* (operator/internal/controller/redpanda/broker_controller.go) drains,     *)
(* deletes and recreates the pod of a Broker that holds one.                *)
(*                                                                          *)
(* Both controllers read Broker CRs from an informer cache that trails the  *)
(* API server.  crs is the history the cache has yet to see: its first      *)
(* element is the cache, its last the API server's state.  What one step    *)
(* writes is delivered together.  Pods are read fresh.                      *)
(***************************************************************************)
EXTENDS Naturals, Sequences, FiniteSets, FiniteSetsExt

CONSTANTS N,         \* Broker network indices are 0..N-1
          Versions,  \* pod templates the owner can ask for
          First,     \* the template every pod runs at the start
          Edits,     \* <<from, to>>: edits of the owner's template
          HashOf,    \* pod-spec hash of a template; a config-only edit keeps it
          Bad,       \* templates whose redpanda container cannot start
          MinReplicas, \* the owner never asks for fewer brokers
          MaxLag,    \* writes the informer cache may trail the API server by
          MaxEdits,  \* bound on template edits
          MaxExpire  \* bound on grants that run out while their roll progresses

Broker == 0 .. N - 1

ASSUME NAssumption == N \in Nat \ {0} /\ MinReplicas \in 0 .. N
ASSUME TemplateAssumption ==
    /\ First \in Versions \ Bad
    /\ Edits \subseteq Versions \X Versions
    /\ Bad \subseteq Versions
    /\ DOMAIN HashOf = Versions
ASSUME BoundAssumption == MaxLag \in Nat /\ MaxEdits \in Nat /\ MaxExpire \in Nat

VARIABLES
    spec,     \* the owner's current template
    replicas, \* the owner's replicas
    crs,      \* Broker CRs: crs[1] is the cache, the last element is live
    pass,     \* the cluster controller's pass: "idle" or "grants"
    marked,   \* Arbitration.decommissionMarked of that pass
    pod,      \* pod[b]: the pod of network index b
    maint,    \* external: Redpanda's maintenance mode of broker b
    member,   \* external: Redpanda's membership status of broker b
    admin,    \* external: the brokers' admin API can be reached
    rolled,   \* history: taken down by a drained rotation, not yet up again
    edits, expired \* how much of MaxEdits and MaxExpire is used

vars == <<spec, replicas, crs, pass, marked, pod, maint, member, admin, rolled,
          edits, expired>>
world == <<pod, maint, member, admin, rolled>>
owner == <<spec, replicas, edits>>

-----------------------------------------------------------------------------
(* Data.  A grant is keyed on a template hash; `fresh` is TRUE until its     *)
(* deadline.  `registered` is the BrokerRegistered condition: "old" is True  *)
(* as observed on an earlier pod.  `gone` is a deleted CR.                   *)
Hash(v) == HashOf[v]
NoGrant == [held |-> FALSE, hash |-> Hash(First), fresh |-> FALSE, noDrain |-> FALSE]
(* Mutant: the grant is not keyed on the template's hash annotation.         *)
GrantUnkeyed(v, nd) == [held |-> TRUE, hash |-> 0, fresh |-> TRUE, noDrain |-> nd]
Grant(v, nd) == [held |-> TRUE, hash |-> Hash(v), fresh |-> TRUE, noDrain |-> nd]

Grants == [held: BOOLEAN, hash: {Hash(v) : v \in Versions}, fresh: BOOLEAN,
           noDrain: BOOLEAN]
CR == [ver: Versions, grant: Grants, decom: BOOLEAN,
       phase: {"live", "Decommissioned", "gone"},
       registered: {"no", "yes", "old"}]

(* pending: not running yet; running: in phase Running, broker not started;  *)
(* up: the broker answers; failing: the redpanda container cannot start;     *)
(* del: the pod has a DeletionTimestamp.                                     *)
Pod == [st: {"none", "pending", "running", "up", "failing"},
        ver: Versions, del: BOOLEAN]

TypeOK ==
    /\ spec \in Versions
    /\ replicas \in MinReplicas .. N
    /\ Len(crs) \in 1 .. MaxLag + 1
    /\ crs \in Seq([Broker -> CR])
    /\ pass \in {"idle", "grants"}
    /\ marked \in BOOLEAN
    /\ pod \in [Broker -> Pod]
    /\ maint \in [Broker -> {"off", "draining", "drained"}]
    /\ member \in [Broker -> {"active", "draining", "removed"}]
    /\ admin \in BOOLEAN
    /\ rolled \subseteq Broker
    /\ edits \in 0 .. MaxEdits
    /\ expired \in 0 .. MaxExpire

Init ==
    /\ spec = First
    /\ replicas = N
    /\ crs = << [b \in Broker |-> [ver |-> First, grant |-> NoGrant, decom |-> FALSE,
                                   phase |-> "live", registered |-> "yes"]] >>
    /\ pass = "idle"
    /\ marked = FALSE
    /\ pod = [b \in Broker |-> [st |-> "up", ver |-> First, del |-> FALSE]]
    /\ maint = [b \in Broker |-> "off"]
    /\ member = [b \in Broker |-> "active"]
    /\ admin = TRUE
    /\ rolled = {}
    /\ edits = 0
    /\ expired = 0

-----------------------------------------------------------------------------
(* The API server and its cache.                                             *)
Cache == Head(crs)
Live == crs[Len(crs)]

(* A write by resourceVersion succeeds only if nothing wrote b since the     *)
(* cached copy.                                                              *)
Current(b) == \A i \in DOMAIN crs : crs[i][b] = Cache[b]

(* The API server's state becomes s; at MaxLag the oldest event arrives.     *)
Put(s) ==
    crs' = IF s = Live THEN crs
           ELSE IF Len(crs) > MaxLag THEN Append(Tail(crs), s)
           ELSE Append(crs, s)

Deliver ==
    /\ Len(crs) > 1
    /\ crs' = Tail(crs)
    /\ UNCHANGED <<owner, pass, marked, world, expired>>

-----------------------------------------------------------------------------
(* Predicates on Broker CRs and pods (broker_markers.go, broker_helpers.go). *)
HasUnexpiredRollGrant(c) == c.grant.held /\ c.grant.fresh
HasValidRollGrant(c) == HasUnexpiredRollGrant(c) /\ c.grant.hash = Hash(c.ver)
HasPod(b) == pod[b].st # "none"
PodOutdated(c, b) == pod[b].ver # c.ver
Failing(b) == pod[b].st = "failing"
Up(b) == pod[b].st = "up"
Decommissioning(c) == c.decom /\ c.phase = "live"

(* External: Redpanda is healthy when every member is up, and a broker's     *)
(* readiness probe reports the health of the cluster.                        *)
IsClusterHealthy == \A b \in Broker : member[b] # "removed" => Up(b)
IsPodReady(b) == Up(b) /\ IsClusterHealthy

-----------------------------------------------------------------------------
(* ensureBrokers: templates onto desired Brokers, in index order, and one    *)
(* excess Broker marked for decommission.                                    *)
Listed == {b \in Broker : Cache[b].phase # "gone"}
TemplateWrites ==
    {b \in Listed : b < replicas /\ ~Cache[b].decom /\ Cache[b].ver # spec}
WithTemplates(s, B) == [b \in Broker |-> IF b \in B THEN [s[b] EXCEPT !.ver = spec] ELSE s[b]]

(* Delete of every excess CR that finished, highest index first, up to the   *)
(* first one that has not.                                                   *)
Excess == {b \in Listed : b >= replicas}
ExcessLive == {b \in Excess : Cache[b].phase = "live"}
NextExcess == Max(ExcessLive)
Finished ==
    {b \in Excess \ ExcessLive : \A c \in ExcessLive : c < b}
WithoutFinished(s) ==
    [b \in Broker |-> IF b \in Finished THEN [s[b] EXCEPT !.phase = "gone"] ELSE s[b]]

DecommissionInFlight == \E b \in Listed : Decommissioning(Cache[b])
RollGrantHeld == \E b \in Listed : HasUnexpiredRollGrant(Cache[b])

(* Mutant: a decommission may start while a grant is held.                   *)
MayMarkMidRoll == ExcessLive # {} /\ ~DecommissionInFlight

MayMark ==
    /\ ExcessLive # {}
    /\ ~DecommissionInFlight
    /\ ~RollGrantHeld

(* A conflict on one write ends the pass after the writes before it.         *)
EnsureBrokers ==
    /\ pass = "idle"
    /\ LET conflicts == {b \in TemplateWrites : ~Current(b)}
           written == {b \in TemplateWrites : \A c \in conflicts : b < c}
           s == WithoutFinished(WithTemplates(Live, TemplateWrites))
       IN  IF conflicts # {}
           THEN /\ Put(WithTemplates(Live, written))
                /\ UNCHANGED <<pass, marked>>
           ELSE IF ~MayMark
           THEN /\ Put(s)
                /\ pass' = "grants" /\ marked' = FALSE
           ELSE IF Current(NextExcess)
           THEN /\ Put([s EXCEPT ![NextExcess].decom = TRUE])
                /\ pass' = "grants" /\ marked' = TRUE
           ELSE /\ Put(s)
                /\ UNCHANGED <<pass, marked>>
    /\ UNCHANGED <<owner, world, expired>>

-----------------------------------------------------------------------------
(* EnsureRollGrants works on a second listing of the cache.                  *)
Rollable == {b \in Listed : ~Cache[b].decom}
OnCurrent(b) == HasPod(b) /\ ~PodOutdated(Cache[b], b)
Removing(b) == b >= replicas \/ Cache[b].decom
PodMissing == \E b \in Rollable : ~HasPod(b)
NotReady(b) == OnCurrent(b) /\ Cache[b].registered # "no" /\ ~IsPodReady(b)

(* failedpods: an outdated pod that cannot start, that no peer sees alive,   *)
(* with no pod terminating and no sign that the current template fails.      *)
MayBeCandidate(b) ==
    /\ HasPod(b) /\ PodOutdated(Cache[b], b) /\ ~pod[b].del /\ Failing(b)
    /\ ~Removing(b)
Unheard(b) == ~admin /\ \E c \in Listed \ {b} : Up(c)
Hold ==
    \/ \E c \in Listed : HasPod(c) /\ pod[c].del
    \/ LET current == {c \in Rollable : OnCurrent(c) /\ ~Removing(c)}
       IN  current # {} /\ \A c \in current : ~Up(c)
NoDrainHold(b) ==
    ~MayBeCandidate(b) \/ marked \/ PodMissing \/ Unheard(b) \/ Hold

AnotherDown(b) == admin /\ \E c \in Broker \ {b} : member[c] # "removed" /\ ~Up(c)

(* Mutant: completion does not wait for the pod to turn Ready.               *)
RollCompleteUnready(b) == OnCurrent(b) /\ Cache[b].registered # "no"

RollComplete(b) ==
    /\ OnCurrent(b)
    /\ Cache[b].registered # "no"
    /\ IF Cache[b].grant.noDrain
       THEN /\ Up(b) /\ ~Unheard(b)
            /\ IsPodReady(b) \/ AnotherDown(b)
       ELSE IsPodReady(b)

(* Mutant: a grant whose template moved on is revoked instead of re-keyed.   *)
VerdictRevokesStale(b) ==
    LET g == Cache[b].grant
    IN  IF RollComplete(b) \/ g.hash # Hash(Cache[b].ver) THEN "revoke"
        ELSE IF ~g.fresh THEN "expired"
        ELSE "hold"

(* Mutant: an expired grant counts as active.                                *)
VerdictHoldsExpired(b) ==
    LET g == Cache[b].grant
    IN  IF RollComplete(b) THEN "revoke"
        ELSE IF g.fresh /\ g.hash # Hash(Cache[b].ver) THEN "rekey"
        ELSE "hold"

(* What the pass makes of a grant it finds on a Broker that may roll, in     *)
(* the order of the cases of the switch.                                     *)
Verdict(b) ==
    LET g == Cache[b].grant
        stale == g.hash # Hash(Cache[b].ver)
    IN  IF RollComplete(b) THEN "revoke"
        ELSE IF /\ g.noDrain /\ HasPod(b) /\ ~pod[b].del /\ ~OnCurrent(b)
                /\ (stale \/ NoDrainHold(b))
             THEN "drop"
        ELSE IF ~g.fresh THEN "expired"
        ELSE IF stale THEN "rekey"
        ELSE IF ~g.noDrain /\ ~NoDrainHold(b) THEN "switch"
        ELSE "hold"

Granted == {b \in Rollable : Cache[b].grant.held}
Judged(verdicts) == {b \in Granted : Verdict(b) \in verdicts}
Revoked ==
    {b \in Listed : Cache[b].decom /\ Cache[b].grant.held}
        \cup Judged({"revoke", "drop"})
Rekeyed == Judged({"rekey", "switch"})

(* grantRoll: a merge patch against the cached copy, with no resourceVersion: *)
(* an annotation that copy already has right is not written.                 *)
GrantRoll(s, b, nd) ==
    [s EXCEPT ![b].grant =
        Grant(Cache[b].ver, IF Cache[b].grant.noDrain = nd THEN s[b].grant.noDrain ELSE nd)]

WithGrants(s, B) ==
    [b \in Broker |->
        IF b \in B \cap Revoked THEN [s[b] EXCEPT !.grant = NoGrant]
        ELSE IF b \in B \cap Rekeyed
        THEN GrantRoll(s, b, Cache[b].grant.noDrain \/ ~NoDrainHold(b))[b]
        ELSE s[b]]

Candidates ==
    Judged({"expired"})
        \cup {b \in Rollable \ Granted : HasPod(b) /\ PodOutdated(Cache[b], b)}
(* Holders of an expired grant first, then by index.                         *)
FirstOf(B) == Min(IF B \cap Granted # {} THEN B \cap Granted ELSE B)
NoDrainCandidates == {b \in Candidates : ~NoDrainHold(b)}
GrantsHeldBack ==
    \/ marked \/ DecommissionInFlight
    \/ \E b \in Rollable : NotReady(b)
    \/ ~admin \/ ~IsClusterHealthy

(* Mutant: re-keying a grant does not count it as active.                    *)
NewGrantBesideRekeyed(s) ==
    IF Judged({"drop", "switch", "hold"}) # {} \/ Candidates = {} \/ GrantsHeldBack
    THEN s
    ELSE GrantRoll(s, FirstOf(Candidates), FALSE)

(* Mutant: a grant already held does not keep the next candidate waiting.    *)
NewGrantUncounted(s) ==
    IF Candidates = {} \/ GrantsHeldBack THEN s ELSE GrantRoll(s, FirstOf(Candidates), FALSE)

NewGrant(s) ==
    IF Judged({"drop", "rekey", "switch", "hold"}) # {} \/ Candidates = {}
    THEN s
    ELSE IF NoDrainCandidates # {}
    THEN GrantRoll(s, FirstOf(NoDrainCandidates), TRUE)
    ELSE IF GrantsHeldBack THEN s
    ELSE GrantRoll(s, FirstOf(Candidates), FALSE)

(* A revocation carries the resourceVersion it read: on a conflict the pass  *)
(* ends.  The list is in no particular order, so any of the other writes may *)
(* have been made before it.                                                 *)
EnsureRollGrants ==
    /\ pass = "grants"
    /\ pass' = "idle" /\ marked' = FALSE
    /\ LET writes == Revoked \cup Rekeyed
           conflicts == {b \in Revoked : ~Current(b)}
       IN  IF conflicts = {}
           THEN Put(NewGrant(WithGrants(Live, writes)))
           ELSE \E B \in SUBSET (writes \ conflicts) : Put(WithGrants(Live, B))
    /\ UNCHANGED <<owner, world, expired>>

-----------------------------------------------------------------------------
(* The Broker controller's pass over b.  It acts on the cached CR and ends   *)
(* in syncBrokerStatus, whose update is lost when the cached CR is stale.    *)
Seen(b) == Cache[b]
SyncStatus(b, registered, phase) ==
    Put(IF Current(b) THEN [Live EXCEPT ![b].registered = registered, ![b].phase = phase]
                      ELSE Live)
Unverified(b) == SyncStatus(b, "no", Seen(b).phase)
ControllerOnly == UNCHANGED <<owner, pass, marked, member, admin, expired>>

(* Best effort: every caller ignores its failure.                            *)
DisableMaintenanceMode(b) ==
    maint' = IF admin THEN [maint EXCEPT ![b] = "off"] ELSE maint

(* reconcilePod: the pod is created from the template the cache shows.       *)
CreatePod(b) ==
    /\ Seen(b).phase = "live" /\ ~Seen(b).decom /\ ~HasPod(b)
    /\ pod' = [pod EXCEPT ![b] = [st |-> "pending", ver |-> Seen(b).ver, del |-> FALSE]]
    /\ Unverified(b)
    /\ ControllerOnly /\ UNCHANGED <<maint, rolled>>

NeedsRotation(b) ==
    /\ Seen(b).phase = "live" /\ ~Seen(b).decom
    /\ HasPod(b) /\ PodOutdated(Seen(b), b)

(* reconcilePodRotation, without a grant it may act on.                      *)
MayNotRotate(b) ==
    ~HasValidRollGrant(Seen(b)) \/ (Seen(b).grant.noDrain /\ ~Failing(b))

Park(b) ==
    /\ NeedsRotation(b) /\ MayNotRotate(b)
    /\ DisableMaintenanceMode(b)
    /\ Unverified(b)
    /\ ControllerOnly /\ UNCHANGED <<pod, rolled>>

(* With a no-drain grant: the grant is read again, live, before the delete.  *)
ReplaceFailing(b) ==
    /\ NeedsRotation(b) /\ ~MayNotRotate(b) /\ Seen(b).grant.noDrain
    /\ IF pod[b].del THEN UNCHANGED <<pod, maint>>
       ELSE /\ DisableMaintenanceMode(b)
            /\ pod' = IF Live[b].grant.noDrain /\ HasValidRollGrant(Live[b])
                      THEN [pod EXCEPT ![b].del = TRUE] ELSE pod
    /\ Unverified(b)
    /\ ControllerOnly /\ UNCHANGED rolled

MayRotate(b) == NeedsRotation(b) /\ ~MayNotRotate(b) /\ ~Seen(b).grant.noDrain

(* ensureDrained.  External: Redpanda refuses to put a second broker in      *)
(* maintenance mode; the pass then fails and writes nothing.                 *)
EnableMaintenanceMode(b) ==
    /\ maint[b] = "off" /\ \A c \in Broker \ {b} : maint[c] = "off"
    /\ maint' = [maint EXCEPT ![b] = "draining"]

EnsureDrained(b) ==
    /\ MayRotate(b) /\ admin /\ maint[b] # "drained"
    /\ EnableMaintenanceMode(b) \/ (maint[b] = "draining" /\ UNCHANGED maint)
    /\ Unverified(b)
    /\ ControllerOnly /\ UNCHANGED <<pod, rolled>>

Rotate(b) ==
    /\ MayRotate(b) /\ admin /\ maint[b] = "drained"
    /\ pod' = [pod EXCEPT ![b].del = TRUE]
    /\ rolled' = rolled \cup {b}
    /\ Unverified(b)
    /\ ControllerOnly /\ UNCHANGED maint

(* Mutant: a broker back from its rotation is left in maintenance mode.      *)
RegisterInMaintenance(b) ==
    /\ Seen(b).phase = "live" /\ ~Seen(b).decom
    /\ HasPod(b) /\ ~PodOutdated(Seen(b), b) /\ pod[b].st # "pending"
    /\ SyncStatus(b, IF admin THEN "yes" ELSE "no", "live")
    /\ ControllerOnly /\ UNCHANGED <<pod, maint, rolled>>

(* reconcileBrokerRegistration: the membership entry is matched by address,  *)
(* whether or not its broker is up.                                          *)
Register(b) ==
    /\ Seen(b).phase = "live" /\ ~Seen(b).decom
    /\ HasPod(b) /\ ~PodOutdated(Seen(b), b) /\ pod[b].st # "pending"
    /\ DisableMaintenanceMode(b)
    /\ SyncStatus(b, IF admin THEN "yes" ELSE "no", "live")
    /\ ControllerOnly /\ UNCHANGED <<pod, rolled>>

(* A current pod that is not running yet: nothing to verify.                 *)
AwaitPod(b) ==
    /\ Seen(b).phase = "live" /\ ~Seen(b).decom
    /\ ~PodOutdated(Seen(b), b) /\ pod[b].st = "pending"
    /\ Unverified(b)
    /\ ControllerOnly /\ UNCHANGED <<pod, maint, rolled>>

(* executeDecommission: never the last member.                               *)
Members == {b \in Broker : member[b] # "removed"}
StartDecommission(b) ==
    /\ Decommissioning(Seen(b)) /\ admin /\ member[b] = "active" /\ Cardinality(Members) > 1
    /\ member' = [member EXCEPT ![b] = "draining"]
    /\ Unverified(b)
    /\ UNCHANGED <<owner, pass, marked, pod, maint, admin, rolled, expired>>

FinishDecommission(b) ==
    /\ Decommissioning(Seen(b)) /\ admin /\ member[b] = "removed"
    /\ pod' = IF HasPod(b) THEN [pod EXCEPT ![b].del = TRUE] ELSE pod
    /\ SyncStatus(b, "no", "Decommissioned")
    /\ ControllerOnly /\ UNCHANGED <<maint, rolled>>

BrokerPass(b) ==
    \/ CreatePod(b)
    \/ Park(b) \/ ReplaceFailing(b) \/ Register(b)
    \/ EnsureDrained(b)
    \/ Rotate(b)
    \/ AwaitPod(b)
    \/ StartDecommission(b)
    \/ FinishDecommission(b)

-----------------------------------------------------------------------------
(* External: the owner's edits, kubelet, Redpanda, time.                     *)
EditTemplate ==
    /\ edits < MaxEdits
    /\ \E v \in Versions : <<spec, v>> \in Edits /\ spec' = v
    /\ edits' = edits + 1
    /\ UNCHANGED <<replicas, crs, pass, marked, world, expired>>

ScaleDown ==
    /\ replicas > MinReplicas
    /\ replicas' = replicas - 1
    /\ UNCHANGED <<spec, edits, crs, pass, marked, world, expired>>

(* The grant's deadline passes, in every copy of the CR: always once the new *)
(* pod turns out unable to start, MaxExpire times otherwise.                 *)
RollStuck(b) == Failing(b) /\ ~PodOutdated(Live[b], b)
Expire(b) ==
    /\ HasUnexpiredRollGrant(Live[b])
    /\ IF RollStuck(b) THEN UNCHANGED expired
       ELSE expired < MaxExpire /\ expired' = expired + 1
    /\ crs' = [i \in DOMAIN crs |-> [crs[i] EXCEPT ![b].grant.fresh = FALSE]]
    /\ UNCHANGED <<owner, pass, marked, world>>

Starts(b) ==
    /\ pod[b].st \in {"pending", "running"} /\ ~pod[b].del
    /\ pod' = [pod EXCEPT ![b].st =
                  IF pod[b].st = "pending" THEN "running"
                  ELSE IF pod[b].ver \in Bad THEN "failing" ELSE "up"]
    /\ rolled' = IF pod'[b].st = "up" THEN rolled \ {b} ELSE rolled
    /\ UNCHANGED <<owner, crs, pass, marked, maint, member, admin, expired>>

(* A terminating pod is gone; a condition about it is about an old pod.      *)
Terminated(b) ==
    /\ pod[b].del
    /\ pod' = [pod EXCEPT ![b].st = "none", ![b].del = FALSE]
    /\ crs' = [i \in DOMAIN crs |->
                  IF crs[i][b].registered = "yes"
                  THEN [crs[i] EXCEPT ![b].registered = "old"] ELSE crs[i]]
    /\ UNCHANGED <<owner, pass, marked, maint, member, admin, rolled, expired>>

DrainFinishes(b) ==
    /\ maint[b] = "draining" /\ Up(b)
    /\ maint' = [maint EXCEPT ![b] = "drained"]
    /\ UNCHANGED <<owner, crs, pass, marked, pod, member, admin, rolled, expired>>

DecommissionFinishes(b) ==
    /\ member[b] = "draining"
    /\ member' = [member EXCEPT ![b] = "removed"]
    /\ maint' = [maint EXCEPT ![b] = "off"]
    /\ rolled' = rolled \ {b}
    /\ UNCHANGED <<owner, crs, pass, marked, pod, admin, expired>>

AdminToggles ==
    /\ admin' = ~admin
    /\ UNCHANGED <<owner, crs, pass, marked, pod, maint, member, rolled, expired>>

External ==
    \/ EditTemplate \/ ScaleDown \/ AdminToggles
    \/ \E b \in Broker :
          Expire(b) \/ Starts(b) \/ Terminated(b) \/ DrainFinishes(b) \/ DecommissionFinishes(b)

Next ==
    \/ Deliver
    \/ EnsureBrokers
    \/ EnsureRollGrants
    \/ \E b \in Broker : BrokerPass(b)
    \/ External

Spec == Init /\ [][Next]_vars

(* Watches deliver, both controllers requeue, kubelet and Redpanda finish    *)
(* what they began.                                                          *)
Fairness ==
    /\ WF_vars(Deliver)
    /\ WF_vars(EnsureBrokers)
    /\ WF_vars(EnsureRollGrants)
    /\ \A b \in Broker :
        /\ WF_vars(CreatePod(b)) /\ WF_vars(AwaitPod(b))
        /\ WF_vars(Park(b)) /\ WF_vars(ReplaceFailing(b))
        /\ WF_vars(Register(b))
        /\ WF_vars(EnsureDrained(b)) /\ WF_vars(Rotate(b))
        /\ WF_vars(StartDecommission(b)) /\ WF_vars(FinishDecommission(b))
        /\ WF_vars(Starts(b)) /\ WF_vars(Terminated(b))
        /\ WF_vars(RollStuck(b) /\ Expire(b))
        /\ WF_vars(DrainFinishes(b)) /\ WF_vars(DecommissionFinishes(b))

FairSpec == Spec /\ Fairness

-----------------------------------------------------------------------------
(* "At most one Broker holds an unexpired roll-grant at a time" (grants.go). *)
AtMostOneGrant ==
    \A b, c \in Broker :
        HasUnexpiredRollGrant(Live[b]) /\ HasUnexpiredRollGrant(Live[c]) => b = c

(* Rotations take one broker down at a time: nobody's pod is deleted after a *)
(* drain until the broker taken down before it has started again.            *)
OneBrokerDown == Cardinality(rolled) <= 1

(* The drained rotations implement RollLock: each takes down one broker, and *)
(* only after the one taken down before it is back or decommissioned.        *)
Lock == INSTANCE RollLock WITH down <- rolled
ImplementsRollLock == Lock!Spec

(* While a decommission is in flight nobody holds a grant to roll a running  *)
(* broker, and none starts while such a grant is held.                       *)
DecommissionExcludesRoll ==
    ~ \E b, c \in Broker :
        /\ Decommissioning(Live[b])
        /\ HasUnexpiredRollGrant(Live[c]) /\ ~Live[c].grant.noDrain

(* What AtMostOneGrant and DecommissionExcludesRoll rest on when the cache is *)
(* up to date: only a marked CR is ever Decommissioned or deleted, and a     *)
(* marked one, whose roll would never complete, holds no live grant.         *)
MarkedHoldNoGrant ==
    \A b \in Broker :
        /\ Live[b].phase # "live" => Live[b].decom
        /\ Live[b].decom => ~HasUnexpiredRollGrant(Live[b])
RollInv ==
    /\ TypeOK
    /\ AtMostOneGrant
    /\ DecommissionExcludesRoll
    /\ MarkedHoldNoGrant

(* A grant to roll a running broker is taken back only once that broker runs *)
(* again in its new pod and the BrokerRegistered condition is about that pod.*)
ReleasedOnlyWhenBack ==
    [][\A b \in Broker :
          /\ HasUnexpiredRollGrant(Live[b]) /\ ~Live[b].grant.noDrain
          /\ ~Live[b].decom /\ ~(Live[b].grant.held)'
          => b \notin rolled /\ Live[b].registered = "yes"]_vars

(* Once the owner settles on a template that can start and the admin API     *)
(* stays reachable, every Broker the owner asks for runs that template,      *)
(* every other one is gone, no grant is left and no broker is stranded in    *)
(* maintenance mode.                                                         *)
Converged ==
    \A b \in Broker :
        IF b < replicas
        THEN /\ Up(b) /\ ~pod[b].del /\ pod[b].ver = spec
             /\ ~Live[b].grant.held /\ maint[b] = "off"
        ELSE Live[b].phase = "gone" /\ ~HasPod(b)
RollConverges == <>[](admin /\ spec \notin Bad) => <>[]Converged
=============================================================================
