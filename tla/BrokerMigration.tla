-------------------------- MODULE BrokerMigration --------------------------
(***************************************************************************)
(* Handing a pool's pods over between its StatefulSet and Broker CRs:       *)
(* operator/internal/brokerset/migration.go and rollback.go, driven by      *)
(* RedpandaReconciler.reconcilePools, against the Broker controller, the    *)
(* StatefulSet controller and the garbage collector.                        *)
(*                                                                          *)
(* The use-broker-cr annotation selects who is to manage the pods.  Rolls   *)
(* and decommissions are reduced to their outcome; PoolRoll, BrokerRoll and *)
(* BrokerIncarnations have their gates.                                     *)
(***************************************************************************)
EXTENDS Integers, Sequences, FiniteSets, FiniteSetsExt

CONSTANTS N,        \* ordinals are 0..N-1
          Scripts,  \* sequences of specs the owner may go through
          MaxFaults \* bound on evictions, lost writes and aborted passes

Idx == 0 .. N - 1
NoTmpl == <<0, 0>>
(* A template: its config checksum and the rest of the pod spec.             *)
Templates == {NoTmpl} \cup UNION {{s[k].tmpl : k \in DOMAIN s} : s \in Scripts}
Checksum(t) == t[1]
PodSpec(t) == t[2]

ASSUME MigrationAssumption ==
    /\ N \in Nat \ {0} /\ MaxFaults \in Nat
    /\ \A s \in Scripts :
        /\ Len(s) > 0
        /\ \A k \in DOMAIN s : /\ s[k].broker \in BOOLEAN /\ s[k].n \in 1 .. N
                               /\ s[k].tmpl \in (Nat \ {0}) \X (Nat \ {0})
                               /\ s[k].gen \in Nat /\ s[k].after \in {"any", "Complete", "RolledBack"}

VARIABLES
    script, edit, \* the owner's specs, and the current one
    sts,     \* the StatefulSet
    latest,  \* template of the newest ControllerRevision
    backup,  \* the pool's entry in the migration backup ConfigMap
    cr,      \* Broker CRs by network index
    pod,     \* pods
    pend,    \* Broker passes that have read and not yet written
    pc, snap, \* the owner's pass: the step it is at and what it has read
    cond,    \* reason of the BrokerMigration condition
    member,  \* external: which brokers are in the cluster, out of it, or never were in
    faults

owner == <<script, edit>>
objects == <<sts, latest, backup, cr>>
pass == <<pc, snap>>
vars == <<owner, objects, pod, pend, pass, cond, member, faults>>

-----------------------------------------------------------------------------
None == 0           \* a pod's owner: nobody, the StatefulSet, or a Broker's uid
Set == -1
NoPod == [st |-> "none", del |-> FALSE, owner |-> None, runs |-> NoTmpl, hash |-> 0,
          rev |-> NoTmpl]
NoSet == [st |-> "none", n |-> 0, tmpl |-> NoTmpl, gen |-> 0, synced |-> FALSE,
          rev |-> NoTmpl, replicas |-> 0, ready |-> 0]
NoBackup == [n |-> 0, tmpl |-> NoTmpl, gen |-> 0]
NoSnap == [edit |-> 0]
Idle == [op |-> "none", uid |-> 0, tmpl |-> NoTmpl]

Wanted == script[edit]
HasPod(i) == pod[i].st # "none"
Up(i) == pod[i].st = "up" /\ ~pod[i].del
Exists(i) == cr[i].st # "none"
Live(i) == cr[i].st = "live"
Owned(i) == Exists(i) /\ pod[i].owner = cr[i].uid
(* External: Redpanda's health overview.                                     *)
Healthy == \A i \in Idx : member[i] = "in" => Up(i)

(* The pods become f; a Broker's pass that read a pod before loses its       *)
(* resourceVersion, and its write is refused.                                *)
PodsBecome(f) ==
    /\ pod' = f
    /\ pend' = [i \in Idx |-> IF f[i] # pod[i] /\ pend[i].op = "adopt" THEN Idle ELSE pend[i]]

TypeOK ==
    /\ script \in Scripts /\ edit \in DOMAIN script
    /\ sts \in [st: {"none", "live", "deleting"}, n: 0 .. N, tmpl: Templates, gen: Nat,
                synced: BOOLEAN, rev: Templates, replicas: 0 .. N, ready: 0 .. N]
    /\ latest \in Templates
    /\ backup \in [n: 0 .. N, tmpl: Templates, gen: Nat]
    /\ cr \in [Idx -> [st: {"none", "live", "deleting"}, uid: Nat, tmpl: Templates,
                       decom: {"no", "asked", "done"}, grant: BOOLEAN, id: BOOLEAN]]
    /\ pod \in [Idx -> [st: {"none", "starting", "up"}, del: BOOLEAN, owner: Nat \cup {Set},
                        runs: Templates, hash: Nat, rev: Templates]]
    /\ pend \in [Idx -> [op: {"none", "adopt", "create"}, uid: Nat, tmpl: Templates]]
    /\ pc \in {"idle", "pools", "ensure", "handover", "release", "delete", "restore",
               "finish", "mutate", "roll"}
    /\ (pc = "idle") = (snap = NoSnap)
    /\ cond \in {"none", "Blocked", "InProgress", "Complete", "RolledBack"}
    /\ member \in [Idx -> {"never", "in", "out"}]
    /\ faults \in 0 .. MaxFaults

NoBroker(uid) ==
    [st |-> "none", uid |-> uid, tmpl |-> NoTmpl, decom |-> "no", grant |-> FALSE, id |-> FALSE]
NewBroker(i, t) == [NoBroker(cr[i].uid + 1) EXCEPT !.st = "live", !.tmpl = t]

Init ==
    /\ script \in Scripts /\ edit = 1
    /\ LET s == script[1]
           born == [st |-> "up", del |-> FALSE, owner |-> IF s.broker THEN 1 ELSE Set,
                    runs |-> s.tmpl, hash |-> IF s.broker THEN PodSpec(s.tmpl) ELSE 0,
                    rev |-> IF s.broker THEN NoTmpl ELSE s.tmpl]
       IN  /\ pod = [i \in Idx |-> IF i < s.n THEN born ELSE NoPod]
           /\ sts = IF s.broker THEN NoSet
                    ELSE [st |-> "live", n |-> s.n, tmpl |-> s.tmpl, gen |-> s.gen,
                          synced |-> TRUE, rev |-> s.tmpl, replicas |-> s.n, ready |-> s.n]
           /\ latest = sts.rev
           /\ cr = [i \in Idx |->
                      IF s.broker /\ i < s.n
                      THEN [NoBroker(1) EXCEPT !.st = "live", !.tmpl = s.tmpl, !.id = TRUE]
                      ELSE NoBroker(0)]
           /\ member = [i \in Idx |-> IF i < s.n THEN "in" ELSE "never"]
    /\ backup = NoBackup
    /\ pend = [i \in Idx |-> Idle]
    /\ pc = "idle" /\ snap = NoSnap
    /\ cond = "none"
    /\ faults = 0

-----------------------------------------------------------------------------
(* The owner's pass: what it lists first (see PoolRoll), and what it reports *)
(* until the status is written at its end.                                   *)
Desired == script[snap.edit]
Goto(step) == pc' = step /\ UNCHANGED snap
GotoReporting(step, reason) == pc' = step /\ snap' = [snap EXCEPT !.report = reason]

Listed == {i \in Idx : HasPod(i)}
CheckScale ==
    sts.st # "none" => sts.n = sts.replicas /\ sts.n = Cardinality(Listed)
PodsToRoll ==
    {i \in Listed : sts.st # "none" /\ pod[i].rev # NoTmpl /\ pod[i].rev # latest}

HasRecentlyReplacedPods ==
    \E i \in Listed : sts.st # "none" /\ (pod[i].del \/ (pod[i].rev = latest /\ ~Up(i)))

Begin ==
    /\ pc = "idle"
    /\ pc' = "pools"
    /\ snap' = [edit |-> edit, sts |-> sts, settled |-> CheckScale, roll |-> PodsToRoll,
                replaced |-> HasRecentlyReplacedPods,
                crs |-> [i \in Idx |-> [st |-> cr[i].st, uid |-> cr[i].uid]],
                acted |-> FALSE, report |-> "none"]
    /\ UNCHANGED <<owner, objects, pod, pend, cond, member, faults>>

(* PatchPoolSet is a server-side apply: it creates what is not there.        *)
Rendered ==
    [(IF sts.st = "none" THEN [NoSet EXCEPT !.st = "live"] ELSE sts)
        EXCEPT !.n = Desired.n, !.tmpl = Desired.tmpl, !.gen = Desired.gen,
               !.synced = sts.n = Desired.n /\ sts.tmpl = Desired.tmpl /\ sts.synced]
RequiresPatch ==
    /\ snap.settled /\ snap.sts.st # "none"
    /\ \/ snap.sts.n < Desired.n
       \/ snap.sts.n = Desired.n /\ snap.sts.gen # Desired.gen

PatchStillLiveNever ==
    /\ pc = "pools" /\ Desired.broker
    /\ Goto("ensure")
    /\ UNCHANGED <<owner, objects, pod, pend, cond, member, faults>>
(* Broker mode: a StatefulSet that is still there keeps converging.          *)
PatchStillLive ==
    /\ pc = "pools" /\ Desired.broker
    /\ sts' = IF RequiresPatch THEN Rendered ELSE sts
    /\ Goto("ensure")
    /\ UNCHANGED <<owner, latest, backup, cr, pod, pend, cond, member, faults>>

-----------------------------------------------------------------------------
(* ensureMigration.  The StatefulSet comes from the cache, which may not     *)
(* show this pass's patch yet.                                               *)
Cached == {snap.sts, sts}

Quiescent(set) ==
    /\ snap.settled /\ snap.roll = {}
    /\ set.synced /\ set.replicas = set.n /\ set.ready = set.n
    /\ Checksum(set.tmpl) = Checksum(Desired.tmpl)
    /\ \A i \in Listed : Checksum(pod[i].runs) = Checksum(Desired.tmpl)
VerifyMigrationPreconditions(set) == Quiescent(set) /\ Healthy

(* An unhealthy cluster is waited for without a report.                      *)
MigrationBlocked ==
    /\ pc = "ensure"
    /\ \E set \in Cached :
        /\ set.st # "none" /\ ~VerifyMigrationPreconditions(set)
        /\ IF Quiescent(set) THEN Goto("roll") ELSE GotoReporting("roll", "Blocked")
    /\ UNCHANGED <<owner, objects, pod, pend, cond, member, faults>>

Stale(set) == {i \in Idx : i >= set.n /\ Live(i)}
Missing(set) == {i \in Idx : i < set.n /\ ~Exists(i)}

(* Shadows are pruned and created one by one; existing ones are left as they *)
(* are.  A call that fails ends the pass with some of them written.          *)
Shadowed(set, W) ==
    [i \in Idx |-> IF i \in W \cap Stale(set) THEN [cr[i] EXCEPT !.st = "deleting"]
                  ELSE IF i \in W \cap Missing(set) THEN NewBroker(i, Desired.tmpl)
                  ELSE cr[i]]
CreateShadows ==
    /\ pc = "ensure"
    /\ \E set \in Cached :
        /\ set.st # "none" /\ VerifyMigrationPreconditions(set)
        /\ Stale(set) \cup Missing(set) # {}
        /\ \/ /\ cr' = Shadowed(set, Idx)
              /\ GotoReporting("roll", "InProgress")
              /\ UNCHANGED faults
           \/ /\ faults < MaxFaults /\ faults' = faults + 1
              /\ \E W \in SUBSET Idx : cr' = Shadowed(set, W) /\ cr' # cr
              /\ pc' = "idle" /\ snap' = NoSnap
    /\ UNCHANGED <<owner, sts, latest, backup, pod, pend, cond, member>>

BackUp(set) == [n |-> set.n, tmpl |-> set.tmpl, gen |-> set.gen]
EnsureBackup ==
    /\ pc = "ensure"
    /\ \E set \in Cached :
        /\ set.st # "none" /\ VerifyMigrationPreconditions(set)
        /\ Stale(set) \cup Missing(set) = {}
        /\ backup' = BackUp(set)
        /\ IF \A i \in Idx : i < set.n => Live(i)
           THEN Goto("handover") ELSE GotoReporting("roll", "InProgress")
    /\ UNCHANGED <<owner, sts, latest, cr, pod, pend, cond, member, faults>>

OrphanDeleteCascading ==
    /\ pc = "handover"
    /\ sts' = IF sts.st = "live" THEN [sts EXCEPT !.st = "deleting"] ELSE sts
    /\ PodsBecome([i \in Idx |-> [pod[i] EXCEPT !.del = pod[i].owner = Set]])
    /\ GotoReporting("roll", "InProgress")
    /\ UNCHANGED <<owner, latest, backup, cr, cond, member, faults>>

OrphanDelete ==
    /\ pc = "handover"
    /\ sts' = IF sts.st = "live" THEN [sts EXCEPT !.st = "deleting"] ELSE sts
    /\ GotoReporting("roll", "InProgress")
    /\ UNCHANGED <<owner, latest, backup, cr, pod, pend, cond, member, faults>>

-----------------------------------------------------------------------------
(* ensureBrokers, its arbitration reduced to one disruption at a time.       *)
OutdatedByHash(i, c) == HasPod(i) /\ pod[i].hash # PodSpec(c.tmpl)
Outdated(i, c) ==
    /\ HasPod(i)
    /\ \/ Checksum(pod[i].runs) # Checksum(c.tmpl)
       \/ pod[i].hash # PodSpec(c.tmpl)

(* Brokers at wanted indices follow the render, or go once decommissioned;   *)
(* excess ones go once decommissioned.                                       *)
Reconciled(i) ==
    CASE i < Desired.n /\ ~Exists(i) -> NewBroker(i, Desired.tmpl)
      [] i < Desired.n /\ Exists(i) /\ cr[i].decom = "no" -> [cr[i] EXCEPT !.tmpl = Desired.tmpl]
      [] Exists(i) /\ cr[i].decom = "done" -> [cr[i] EXCEPT !.st = "deleting"]
      [] OTHER -> cr[i]
Draining == \E i \in Idx : Exists(i) /\ cr[i].decom = "asked"
Held == {i \in Idx : Exists(i) /\ cr[i].grant}
Excess == {i \in Idx : i >= Desired.n /\ Exists(i) /\ cr[i].decom = "no"}

EnsureBrokers ==
    /\ pc = "ensure"
    /\ \E set \in Cached : set.st = "none"
    /\ LET c == [i \in Idx |-> Reconciled(i)]
           outdated == {i \in Idx : /\ c[i].st # "none" /\ c[i].decom = "no"
                                    /\ Outdated(i, c[i])}
           rolled == {i \in Held : Up(i) /\ i \notin outdated}
       IN  \/ /\ ~Draining /\ Held = {} /\ Excess # {}
              /\ cr' = [c EXCEPT ![Max(Excess)].decom = "asked"]
           \/ /\ Draining \/ Held # {} \/ Excess = {}
              /\ cr' = IF ~Draining /\ Held = {} /\ outdated # {} /\ Healthy
                       THEN [c EXCEPT ![Min(outdated)].grant = TRUE]
                       ELSE [i \in Idx |-> [c[i] EXCEPT !.grant = c[i].grant /\ i \notin rolled]]
    /\ IF cond \notin {"none", "Complete"} THEN GotoReporting("roll", "Complete") ELSE Goto("roll")
    /\ UNCHANGED <<owner, sts, latest, backup, pod, pend, cond, member, faults>>

-----------------------------------------------------------------------------
(* Rollback: the annotation is gone.                                         *)
Brokers == {i \in Idx : Exists(i)}
VerifyRollbackPreconditions ==
    \A i \in Brokers : cr[i].decom # "asked" /\ ~(cr[i].decom = "no" /\ cr[i].grant)

RollbackBlocked ==
    /\ pc = "pools" /\ ~Desired.broker /\ Brokers # {} /\ ~VerifyRollbackPreconditions
    /\ GotoReporting("roll", "Blocked")
    /\ UNCHANGED <<owner, objects, pod, pend, cond, member, faults>>

(* A cluster born with Broker CRs has no backup: the render stands in.       *)
SynthesizeBackup == [n |-> Desired.n, tmpl |-> Desired.tmpl, gen |-> 0]
StartRollback ==
    /\ pc = "pools" /\ ~Desired.broker /\ Brokers # {} /\ VerifyRollbackPreconditions
    /\ backup' = IF backup = NoBackup THEN SynthesizeBackup ELSE backup
    /\ pc' = "release"
    /\ snap' = [snap EXCEPT !.acted = TRUE,
                            !.crs = [i \in Idx |-> [st |-> cr[i].st, uid |-> cr[i].uid]]]
    /\ UNCHANGED <<owner, sts, latest, cr, pod, pend, cond, member, faults>>

Released(i, uid) == IF pod[i].owner = uid THEN [pod[i] EXCEPT !.owner = None] ELSE pod[i]
ReleasePods ==
    /\ pc = "release"
    /\ PodsBecome([i \in Idx |-> IF snap.crs[i].st # "none" THEN Released(i, snap.crs[i].uid)
                                 ELSE pod[i]])
    /\ Goto("delete")
    /\ UNCHANGED <<owner, objects, cond, member, faults>>

(* Brokers are deleted; those found terminating lose their finalizer.        *)
DeleteBrokers ==
    /\ pc = "delete"
    /\ cr' = [i \in Idx |->
                IF ~Exists(i) \/ cr[i].uid # snap.crs[i].uid THEN cr[i]
                ELSE IF snap.crs[i].st = "live" THEN [cr[i] EXCEPT !.st = "deleting"]
                ELSE NoBroker(cr[i].uid)]
    /\ Goto("restore")
    /\ UNCHANGED <<owner, sts, latest, backup, pod, pend, cond, member, faults>>

NothingToRollBack ==
    /\ pc = "pools" /\ ~Desired.broker /\ Brokers = {}
    /\ Goto("restore")
    /\ UNCHANGED <<owner, objects, pod, pend, cond, member, faults>>

(* finalizeRollback.                                                         *)
Restored == [NoSet EXCEPT !.st = "live", !.n = backup.n, !.tmpl = backup.tmpl, !.gen = backup.gen]
RestoreSet ==
    /\ pc = "restore" /\ backup # NoBackup
    /\ sts' = IF sts.st = "none" THEN Restored ELSE sts
    /\ Goto("finish")
    /\ UNCHANGED <<owner, latest, backup, cr, pod, pend, cond, member, faults>>

NothingToRestore ==
    /\ pc = "restore" /\ backup = NoBackup
    /\ IF cond \notin {"none", "RolledBack"} \/ snap.acted
       THEN GotoReporting(IF snap.acted THEN "roll" ELSE "mutate", "RolledBack")
       ELSE Goto("mutate")
    /\ UNCHANGED <<owner, objects, pod, pend, cond, member, faults>>

(* Pods are looked at in order, up to the first that has to be waited for.   *)
Expected == {i \in Idx : i < backup.n /\ HasPod(i)}
AwaitsAdoption(i) == pod[i].owner # Set
AwaitsRevision(i) == pod[i].rev = NoTmpl /\ sts.rev = NoTmpl
Awaited == {i \in Expected : AwaitsAdoption(i) \/ AwaitsRevision(i)}
Done == {i \in Expected : \A j \in Awaited : i < j}
FinishRollback ==
    /\ pc = "finish"
    /\ PodsBecome([i \in Idx |->
            IF i \in Done /\ pod[i].rev = NoTmpl THEN [pod[i] EXCEPT !.rev = sts.rev]
            ELSE IF Awaited # {} /\ i = Min(Awaited) /\ pod[i].owner > 0
            THEN [pod[i] EXCEPT !.owner = None]
            ELSE pod[i]])
    /\ IF Awaited = {}
       THEN /\ backup' = NoBackup
            /\ GotoReporting(IF snap.acted THEN "roll" ELSE "mutate", "RolledBack")
       ELSE GotoReporting("roll", "InProgress") /\ UNCHANGED backup
    /\ UNCHANGED <<owner, sts, latest, cr, cond, member, faults>>

(* StatefulSet mode proper: see PoolRoll.                                    *)
ToCreate == snap.sts.st = "none" /\ \A i \in Idx : snap.crs[i].st = "none"
PatchPools ==
    /\ pc = "mutate"
    /\ sts' = IF ToCreate \/ RequiresPatch THEN Rendered ELSE sts
    /\ Goto("roll")
    /\ UNCHANGED <<owner, latest, backup, cr, pod, pend, cond, member, faults>>

-----------------------------------------------------------------------------
(* reconcileDecommission, reduced: a StatefulSet shrinks by one drained      *)
(* broker, or one of the pods listed as outdated goes while all are up.      *)
(* Then the status is written, if nothing else wrote it meanwhile.           *)
Report ==
    \/ cond' = (IF snap.report = "none" THEN cond ELSE snap.report) /\ UNCHANGED faults
    \/ snap.report # "none" /\ faults < MaxFaults /\ faults' = faults + 1 /\ UNCHANGED cond
End == pc' = "idle" /\ snap' = NoSnap /\ Report

Shrinks == snap.sts.st # "none" /\ snap.sts.n > Desired.n
ScaleDown ==
    /\ pc = "roll" /\ Shrinks /\ snap.settled /\ sts.st # "none"
    /\ sts' = [sts EXCEPT !.n = snap.sts.n - 1, !.gen = Desired.gen, !.synced = FALSE]
    /\ member' = [member EXCEPT ![snap.sts.n - 1] = "out"]
    /\ End
    /\ UNCHANGED <<owner, latest, backup, cr, pod, pend>>

MayRoll == ~Shrinks /\ snap.roll # {} /\ ~snap.replaced /\ Healthy
Roll ==
    /\ pc = "roll" /\ MayRoll
    /\ PodsBecome([pod EXCEPT ![Min(snap.roll)].del = HasPod(Min(snap.roll))])
    /\ End
    /\ UNCHANGED <<owner, objects, member>>

NothingRolled ==
    /\ pc = "roll" /\ ~MayRoll /\ ~(Shrinks /\ snap.settled /\ sts.st # "none")
    /\ End
    /\ UNCHANGED <<owner, objects, pod, pend, member>>

(* An error, or a restart of the operator.                                   *)
Abort ==
    /\ pc # "idle" /\ faults < MaxFaults
    /\ pc' = "idle" /\ snap' = NoSnap
    /\ faults' = faults + 1
    /\ UNCHANGED <<owner, objects, pod, pend, cond, member>>

Pass ==
    \/ Begin \/ PatchStillLive \/ MigrationBlocked \/ CreateShadows \/ EnsureBackup
    \/ OrphanDelete \/ EnsureBrokers \/ RollbackBlocked \/ StartRollback \/ ReleasePods
    \/ DeleteBrokers \/ NothingToRollBack \/ RestoreSet \/ NothingToRestore
    \/ FinishRollback \/ PatchPools \/ ScaleDown \/ Roll \/ NothingRolled

-----------------------------------------------------------------------------
(* The Broker controller: reconcilePod reads, and later writes.              *)
AdoptionBarredByRollback == ~Wanted.broker
(* A decommission cannot start before the node_id is known.                  *)
Unidentified(i) == cr[i].decom = "asked" /\ ~cr[i].id
BrokerReads(i) ==
    /\ Live(i) /\ pend[i] = Idle /\ ~AdoptionBarredByRollback
    /\ \/ ~HasPod(i) /\ (cr[i].decom = "no" \/ Unidentified(i))
       \/ HasPod(i) /\ pod[i].owner = None
    /\ pend' = [pend EXCEPT ![i] = [op |-> IF HasPod(i) THEN "adopt" ELSE "create",
                                    uid |-> cr[i].uid, tmpl |-> cr[i].tmpl]]
    /\ UNCHANGED <<owner, objects, pod, pass, cond, member, faults>>

BrokerCreates(i) ==
    /\ pend[i].op = "create"
    /\ pod' = IF HasPod(i) THEN pod
              ELSE [pod EXCEPT ![i] = [NoPod EXCEPT !.st = "starting", !.owner = pend[i].uid,
                                                    !.runs = pend[i].tmpl,
                                                    !.hash = PodSpec(pend[i].tmpl)]]
    /\ pend' = [pend EXCEPT ![i] = Idle]
    /\ UNCHANGED <<owner, objects, pass, cond, member, faults>>

BackfillRotationKeys(p, t) == IF p.hash = 0 THEN PodSpec(t) ELSE p.hash
BrokerAdopts(i) ==
    /\ pend[i].op = "adopt"
    /\ pod' = [pod EXCEPT ![i].owner = pend[i].uid,
                          ![i].hash = BackfillRotationKeys(pod[i], pend[i].tmpl)]
    /\ pend' = [pend EXCEPT ![i] = Idle]
    /\ UNCHANGED <<owner, objects, pass, cond, member, faults>>

BrokerRotates(i) ==
    /\ Live(i) /\ Owned(i) /\ cr[i].decom = "no" /\ cr[i].grant /\ ~pod[i].del
    /\ Outdated(i, cr[i])
    /\ PodsBecome([pod EXCEPT ![i].del = TRUE])
    /\ UNCHANGED <<owner, objects, pass, cond, member, faults>>

(* reconcileBrokerRegistration.                                              *)
BrokerRegisters(i) ==
    /\ Live(i) /\ Owned(i) /\ pod[i].st = "up" /\ member[i] = "in"
    /\ cr[i].decom = "no" /\ ~cr[i].id
    /\ cr' = [cr EXCEPT ![i].id = TRUE]
    /\ UNCHANGED <<owner, sts, latest, backup, pod, pend, pass, cond, member, faults>>

(* A decommission that has no node_id yet finds it among the members.        *)
BrokerDecommissions(i) ==
    /\ Live(i) /\ cr[i].decom = "asked"
    /\ IF HasPod(i) THEN Owned(i) ELSE ~Unidentified(i)
    /\ Unidentified(i) => member[i] = "in"
    /\ cr' = [cr EXCEPT ![i].decom = "done", ![i].id = FALSE]
    /\ member' = [member EXCEPT ![i] = "out"]
    /\ UNCHANGED <<owner, sts, latest, backup, pod, pend, pass, cond, faults>>

(* reconcileDelete: a decommissioned broker's pod goes with it, any other is *)
(* released.                                                                 *)
BrokerFinalizes(i) ==
    /\ cr[i].st = "deleting" /\ pend[i].uid # cr[i].uid
    /\ PodsBecome([pod EXCEPT ![i] =
            IF cr[i].decom = "no" THEN Released(i, cr[i].uid)
            ELSE [pod[i] EXCEPT !.del = pod[i].del \/ Owned(i)]])
    /\ cr' = [cr EXCEPT ![i] = NoBroker(cr[i].uid)]
    /\ member' = IF cr[i].decom = "no" THEN member ELSE [member EXCEPT ![i] = "never"]
    /\ UNCHANGED <<owner, sts, latest, backup, pass, cond, faults>>

(* A grant lasts ten minutes, enough for a rotation that nothing delays.     *)
GrantExpires(i) ==
    /\ Exists(i) /\ cr[i].grant
    /\ IF Live(i) /\ Owned(i) /\ ~pod[i].del /\ Outdated(i, cr[i])
       THEN faults < MaxFaults /\ faults' = faults + 1
       ELSE UNCHANGED faults
    /\ cr' = [cr EXCEPT ![i].grant = FALSE]
    /\ UNCHANGED <<owner, sts, latest, backup, pod, pend, pass, cond, member>>

-----------------------------------------------------------------------------
(* External: the owner, the StatefulSet controller, the garbage collector    *)
(* and kubelet.                                                              *)
Edit ==
    /\ edit < Len(script)
    /\ script[edit + 1].after \in {"any", cond}
    /\ edit' = edit + 1
    /\ UNCHANGED <<script, objects, pod, pend, pass, cond, member, faults>>

(* A sync publishes the revision, adopts every orphan of the set, creates    *)
(* and deletes pods, and counts its own.                                     *)
Synced(i) ==
    LET p == IF HasPod(i) /\ pod[i].owner = None /\ ~pod[i].del
             THEN [pod[i] EXCEPT !.owner = Set] ELSE pod[i]
    IN  IF i < sts.n /\ ~HasPod(i)
        THEN [NoPod EXCEPT !.st = "starting", !.owner = Set, !.runs = sts.tmpl, !.rev = sts.tmpl]
        ELSE [p EXCEPT !.del = p.del \/ (i >= sts.n /\ p.owner = Set)]
StatefulSetSyncs ==
    /\ sts.st = "live"
    /\ LET f == [i \in Idx |-> Synced(i)]
       IN  /\ PodsBecome(f)
           /\ sts' = [sts EXCEPT !.synced = TRUE, !.rev = sts.tmpl,
                        !.replicas = Cardinality({i \in Idx : f[i].owner = Set}),
                        !.ready = Cardinality({i \in Idx : f[i].owner = Set /\ f[i].st = "up" /\ ~f[i].del})]
    /\ latest' = sts.tmpl
    /\ UNCHANGED <<owner, backup, cr, pass, cond, member, faults>>

OrphanedByGC(i) ==
    /\ sts.st = "deleting" /\ pod[i].owner = Set
    /\ PodsBecome([pod EXCEPT ![i].owner = None])
    /\ UNCHANGED <<owner, objects, pass, cond, member, faults>>

SetRemovedByGC ==
    /\ sts.st = "deleting" /\ \A i \in Idx : pod[i].owner # Set
    /\ sts' = NoSet
    /\ UNCHANGED <<owner, latest, backup, cr, pod, pend, pass, cond, member, faults>>

(* A pod whose Broker is gone goes too.                                      *)
CollectedByGC(i) ==
    /\ pod[i].owner > 0 /\ ~Owned(i) /\ ~pod[i].del
    /\ PodsBecome([pod EXCEPT ![i].del = TRUE])
    /\ UNCHANGED <<owner, objects, pass, cond, member, faults>>

(* A broker that was decommissioned is not let in again with its old disk.   *)
Starts(i) ==
    /\ pod[i].st = "starting" /\ ~pod[i].del
    /\ PodsBecome([pod EXCEPT ![i].st = "up"])
    /\ member' = [member EXCEPT ![i] = IF member[i] = "out" THEN "out" ELSE "in"]
    /\ UNCHANGED <<owner, objects, pass, cond, faults>>

Terminated(i) ==
    /\ pod[i].del
    /\ PodsBecome([pod EXCEPT ![i] = NoPod])
    /\ UNCHANGED <<owner, objects, pass, cond, member, faults>>

Evicted(i) ==
    /\ HasPod(i) /\ ~pod[i].del /\ faults < MaxFaults
    /\ PodsBecome([pod EXCEPT ![i].del = TRUE])
    /\ faults' = faults + 1
    /\ UNCHANGED <<owner, objects, pass, cond, member>>

External ==
    \/ Edit \/ StatefulSetSyncs \/ SetRemovedByGC
    \/ \E i \in Idx :
        \/ BrokerReads(i) \/ BrokerCreates(i) \/ BrokerAdopts(i) \/ BrokerRotates(i)
        \/ BrokerRegisters(i) \/ BrokerDecommissions(i) \/ BrokerFinalizes(i) \/ GrantExpires(i)
        \/ OrphanedByGC(i) \/ CollectedByGC(i) \/ Starts(i) \/ Terminated(i) \/ Evicted(i)

Next == Pass \/ Abort \/ External
Spec == Init /\ [][Next]_vars

Fairness ==
    /\ WF_vars(Pass)
    /\ WF_vars(StatefulSetSyncs) /\ WF_vars(SetRemovedByGC)
    /\ \A i \in Idx :
        /\ WF_vars(BrokerReads(i)) /\ WF_vars(BrokerCreates(i)) /\ WF_vars(BrokerAdopts(i))
        /\ WF_vars(BrokerRotates(i)) /\ WF_vars(BrokerRegisters(i)) /\ WF_vars(BrokerDecommissions(i))
        /\ WF_vars(BrokerFinalizes(i)) /\ WF_vars(GrantExpires(i))
        /\ WF_vars(OrphanedByGC(i)) /\ WF_vars(CollectedByGC(i))
        /\ WF_vars(Starts(i)) /\ WF_vars(Terminated(i))
FairSpec == Spec /\ Fairness

-----------------------------------------------------------------------------
(* No pod is lost to the hand-over: a pod the owner still asks for is deleted *)
(* only if it does not run the owner's template, its label names an old       *)
(* revision, it was listed so, or its Broker is gone.                         *)
Due(i) ==
    \/ i >= Wanted.n \/ pod[i].runs # Wanted.tmpl
    \/ pod[i].rev # NoTmpl /\ pod[i].rev # latest
    \/ pc = "roll" /\ i \in snap.roll
    \/ pod[i].owner > 0 /\ ~Owned(i)
HandoverKeepsPods ==
    [][\A i \in Idx : ~pod[i].del /\ pod'[i].del => Due(i) \/ Evicted(i)]_vars

(* Whoever the annotation selects last ends up managing every pod, with the   *)
(* other one, its backup included, gone and the condition saying so.  The     *)
(* exception: a shadow Broker created the pod a live StatefulSet was missing, *)
(* which the StatefulSet then never counts.                                   *)
ByBrokers ==
    /\ sts.st = "none"
    /\ \A i \in Idx : IF i < Wanted.n THEN Live(i) /\ Owned(i) /\ Up(i) ELSE ~Exists(i) /\ ~HasPod(i)
    /\ cond \in {"none", "Complete"}
BySet ==
    /\ sts.st = "live" /\ sts.n = Wanted.n /\ backup = NoBackup
    /\ \A i \in Idx : ~Exists(i) /\ IF i < Wanted.n THEN pod[i].owner = Set /\ Up(i) ELSE ~HasPod(i)
    /\ cond \in {"none", "RolledBack"}
HandedOver == IF Wanted.broker THEN ByBrokers ELSE BySet
Wedged == Wanted.broker /\ sts.st = "live" /\ \E i \in Idx : pod[i].owner > 0
HandoverFinishes == <>[]HandedOver \/ <>[]Wedged

(* A change the owner made before or during the hand-over reaches every pod:  *)
(* adoption does not mark a pod current that still runs the old template.     *)
RolloutReachesPods == <>[](\A i \in Idx : i < Wanted.n => pod[i].runs = Wanted.tmpl)
=============================================================================
