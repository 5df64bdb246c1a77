----------------------- MODULE ClusterEngagementProofs -----------------------
(***************************************************************************)
(* The broadcaster's promise, for every set of runnables and peers: once a  *)
(* runnable holds a channel no announcement of a reachable cluster is lost  *)
(* on it.                                                                   *)
(***************************************************************************)
EXTENDS ClusterEngagement, TLAPS

(* TypeOK, grouped by who writes it.                                         *)
PeersOK == registered \subseteq Cluster /\ peer \in [Cluster -> {"fetch", "added", "done"}]
TrackerOK ==
    /\ reachable \in [Cluster -> {"unknown", "up", "down"}]
    /\ round \subseteq Cluster
    /\ probe \in [Cluster -> {"none", "probing", "up", "down", "notify"}]
ConsumersOK ==
    /\ pc \in [Runnable -> PC]
    /\ todo \in [Runnable -> SUBSET Cluster]
    /\ engaging \in [Runnable -> SUBSET Cluster]
    /\ retry \in [Runnable -> SUBSET Cluster]
    /\ engaged \in [Runnable -> SUBSET Cluster]
ChannelsOK == stale \in [Runnable -> BOOLEAN] /\ missed \in [Runnable -> SUBSET Cluster]
BoundsOK == faults \in 0 .. MaxFaults /\ returns \in 0 .. MaxReturns
Parts == alive \subseteq Cluster /\ PeersOK /\ TrackerOK /\ ConsumersOK /\ ChannelsOK /\ BoundsOK

LEMMA TypeOKParts == (TypeOK <=> Parts) /\ (TypeOK' <=> Parts')
  BY DEF TypeOK, Parts, PeersOK, TrackerOK, ConsumersOK, ChannelsOK, BoundsOK

-----------------------------------------------------------------------------
(* Types, by the group an action writes.                                     *)
LEMMA NotifyTypes ==
    ASSUME ChannelsOK, NEW c \in Cluster, NEW R, Notify, Unheard(R, c) \/ UNCHANGED missed
    PROVE  ChannelsOK'
<1>1. stale' \in [Runnable -> BOOLEAN]
  BY Zenon DEF Notify, ChannelsOK, Subscribed
<1>2. missed' \in [Runnable -> SUBSET Cluster]
  BY DEF Unheard, ChannelsOK
<1> QED
  BY <1>1, <1>2 DEF ChannelsOK

LEMMA PeerTypes ==
    ASSUME TypeOK, NEW c \in Cluster, AddOrReplace(c) \/ NotifyAdded(c)
    PROVE  TypeOK'
<1> USE TypeOKParts DEF Parts
<1>1. PeersOK'
  BY DEF AddOrReplace, NotifyAdded, PeersOK
<1>2. ChannelsOK'
  BY NotifyTypes DEF AddOrReplace, NotifyAdded, Silent, ChannelsOK
<1> QED
  BY <1>1, <1>2 DEF AddOrReplace, NotifyAdded, tracker, consumer, TrackerOK, ConsumersOK, BoundsOK

LEMMA TrackerTypes ==
    ASSUME TypeOK, ProbeAll \/ Prune \/ \E c \in Cluster : Tracker(c)
    PROVE  TypeOK'
<1> USE TypeOKParts DEF Parts
<1>1. TrackerOK'
  BY DEF ProbeAll, Prune, Tracker, ProbeReturns, RecordResult, OnReachable, TrackerOK, PeersOK
<1>2. ChannelsOK'
  BY NotifyTypes DEF ProbeAll, Prune, Tracker, ProbeReturns, RecordResult, OnReachable,
     Silent, ChannelsOK
<1> QED
  BY <1>1, <1>2 DEF ProbeAll, Prune, Tracker, ProbeReturns, RecordResult, OnReachable,
     consumer, PeersOK, ConsumersOK, BoundsOK

LEMMA ConsumerTypes ==
    ASSUME TypeOK, NEW r \in Runnable, Consumer(r)
    PROVE  TypeOK'
<1> USE TypeOKParts DEF Parts
<1>1. ConsumersOK'
  BY DEF Consumer, GetClusters, DoEngageReturns, Subscribe, Wake, StartReturns, Restart,
     Goto, ConsumersOK, PeersOK, PC
<1>2. ChannelsOK'
  BY DEF Consumer, GetClusters, DoEngageReturns, Subscribe, Wake, StartReturns, Restart,
     Silent, ChannelsOK
<1>3. BoundsOK'
  BY EngageBoundAssumption DEF Consumer, GetClusters, DoEngageReturns, Subscribe, Wake,
     StartReturns, Restart, BoundsOK
<1> QED
  BY <1>1, <1>2, <1>3 DEF Consumer, GetClusters, DoEngageReturns, Subscribe, Wake,
     StartReturns, Restart, tracker, PeersOK, TrackerOK

LEMMA EngageTypes ==
    ASSUME TypeOK, NEW r \in Runnable, NEW c \in Cluster, EngageStep(r, c)
    PROVE  TypeOK'
<1> USE TypeOKParts DEF Parts
<1>1. ConsumersOK'
  BY DEF EngageStep, EngageOne, EngageSucceeds, EngageFails, RetryFires, ConsumersOK
<1>2. ChannelsOK'
  BY NotifyTypes DEF EngageStep, EngageOne, EngageSucceeds, EngageFails, RetryFires,
     Silent, ChannelsOK
<1>3. BoundsOK'
  BY EngageBoundAssumption DEF EngageStep, EngageOne, EngageSucceeds, EngageFails,
     RetryFires, BoundsOK
<1> QED
  BY <1>1, <1>2, <1>3 DEF EngageStep, EngageOne, EngageSucceeds, EngageFails, RetryFires,
     tracker, PeersOK, TrackerOK

LEMMA PartitionTypes ==
    ASSUME TypeOK, NEW c \in Cluster, Partition(c)
    PROVE  TypeOK'
<1> USE TypeOKParts DEF Parts
<1> QED
  BY DEF Partition, Silent, tracker, consumer, PeersOK, TrackerOK, ConsumersOK, ChannelsOK,
     BoundsOK

LEMMA StepTypes ==
    ASSUME TypeOK, [Next]_vars
    PROVE  TypeOK'
<1>1. CASE UNCHANGED vars
  BY <1>1 DEF vars, tracker, consumer, TypeOK
<1> QED
  BY <1>1, PeerTypes, TrackerTypes, ConsumerTypes, EngageTypes, PartitionTypes DEF Next

LEMMA InitTypes == Init => TypeOK
  BY PresetAssumption, EngageBoundAssumption DEF Init, TypeOK, PC

-----------------------------------------------------------------------------
(* The tracker's rounds take registered clusters, and none is unregistered.  *)
LEMMA StepKnown ==
    ASSUME TypeOK, KnownAreRegistered, [Next]_vars
    PROVE  KnownAreRegistered'
<1>1. CASE UNCHANGED <<registered, reachable, round, probe>>
  BY <1>1 DEF KnownAreRegistered
<1>2. ASSUME NEW c \in Cluster, AddOrReplace(c) PROVE KnownAreRegistered'
  BY <1>2 DEF AddOrReplace, tracker, KnownAreRegistered
<1>3. CASE ProbeAll
  BY <1>3 DEF ProbeAll, KnownAreRegistered
<1>4. CASE Prune
  BY <1>4 DEF Prune, KnownAreRegistered
<1>5. ASSUME NEW c \in Cluster, Tracker(c) PROVE KnownAreRegistered'
  BY <1>5 DEF Tracker, ProbeReturns, RecordResult, OnReachable, KnownAreRegistered, TypeOK
<1>6. ASSUME NEW c \in Cluster, NotifyAdded(c) \/ Partition(c)
      PROVE  UNCHANGED <<registered, reachable, round, probe>>
  BY <1>6 DEF NotifyAdded, Partition, tracker
<1>7. ASSUME NEW r \in Runnable, Consumer(r)
      PROVE  UNCHANGED <<registered, reachable, round, probe>>
  BY <1>7 DEF Consumer, GetClusters, DoEngageReturns, Subscribe, Wake, StartReturns, Restart,
     tracker
<1>8. ASSUME NEW r \in Runnable, NEW c \in Cluster, EngageStep(r, c)
      PROVE  UNCHANGED <<registered, reachable, round, probe>>
  BY <1>8 DEF EngageStep, EngageOne, EngageSucceeds, EngageFails, RetryFires, tracker
<1> QED
  BY <1>1, <1>2, <1>3, <1>4, <1>5, <1>6, <1>7, <1>8 DEF Next, vars, tracker

-----------------------------------------------------------------------------
(* What NoMissedNotification says of one runnable and one cluster.           *)
Heeds(r, c) ==
    pc[r] \in {"first", "spawned", "idle", "running"} /\ Announced(c) /\ c \notin missed[r]
        => Underway(r, c)

(* A notification about c reaches r: through its channel, or as missed.      *)
LEMMA NotifyHeeded ==
    ASSUME TypeOK, NEW c \in Cluster, NEW R, Notify, Unheard(R, c), UNCHANGED pc,
           NEW r \in Runnable, r \in R
    PROVE  Heeds(r, c)'
<1>1. CASE Subscribed(r)
  <2>1. stale'[r]
    BY <1>1 DEF Notify
  <2> QED
    BY <2>1 DEF Heeds, Underway
<1>2. CASE ~Subscribed(r) /\ pc[r] \in {"first", "spawned"}
  <2>1. c \in missed'[r]
    BY <1>2 DEF Unheard
  <2> QED
    BY <2>1 DEF Heeds
<1>3. CASE ~Subscribed(r) /\ pc[r] \notin {"first", "spawned"}
  BY <1>3 DEF Subscribed, Heeds
<1> QED
  BY <1>1, <1>2, <1>3

LEMMA TrackerHeeded ==
    ASSUME TypeOK, KnownAreRegistered, NoMissedNotification,
           ProbeAll \/ Prune \/ \E x \in Cluster : Tracker(x),
           NEW r \in Runnable, NEW c \in Cluster
    PROVE  Heeds(r, c)'
<1>1. Heeds(r, c)
  BY DEF NoMissedNotification, Heeds
<1>2. ASSUME UNCHANGED consumer, Silent, Announced(c)' => Announced(c) PROVE Heeds(r, c)'
  BY <1>1, <1>2 DEF consumer, Silent, Heeds, Underway
<1>3. CASE ProbeAll
  <2>1. Announced(c)' => Announced(c)
    BY <1>3 DEF ProbeAll, Announced, KnownAreRegistered, TypeOK
  <2> QED
    BY <1>2, <1>3, <2>1 DEF ProbeAll
<1>4. CASE Prune
  <2>1. Announced(c)' => Announced(c)
    BY <1>4 DEF Prune, Announced
  <2> QED
    BY <1>2, <1>4, <2>1 DEF Prune
<1>5. ASSUME NEW x \in Cluster, ProbeReturns(x) \/ RecordResult(x) PROVE Heeds(r, c)'
  <2>1. Announced(c)' => Announced(c)
    BY <1>5 DEF ProbeReturns, RecordResult, TransitionedUp, Announced, TypeOK
  <2> QED
    BY <1>2, <1>5, <2>1 DEF ProbeReturns, RecordResult
<1>6. ASSUME NEW x \in Cluster, OnReachable(x) PROVE Heeds(r, c)'
  <2>1. Notify /\ Unheard(Runnable, x) /\ UNCHANGED <<pc, todo, engaging, engaged, retry, reachable>>
    BY <1>6 DEF OnReachable, consumer
  <2>2. CASE c = x
    BY <2>1, <2>2, NotifyHeeded
  <2>3. CASE c # x
    <3>1. missed[r] \subseteq missed'[r] /\ (stale[r] => stale'[r])
      BY <2>1 DEF Notify, Unheard, TypeOK
    <3>2. Announced(c)' => Announced(c)
      BY <1>6, <2>3 DEF OnReachable, Announced, TypeOK
    <3> QED
      BY <1>1, <2>1, <3>1, <3>2 DEF Heeds, Underway
  <2> QED
    BY <2>2, <2>3
<1> QED
  BY <1>3, <1>4, <1>5, <1>6 DEF Tracker

LEMMA ConsumerHeeded ==
    ASSUME TypeOK, KnownAreRegistered, ClosedAreHeld, NoMissedNotification,
           NEW x \in Runnable, Consumer(x), NEW r \in Runnable, NEW c \in Cluster
    PROVE  Heeds(r, c)'
<1>1. Heeds(r, c)
  BY DEF NoMissedNotification, Heeds
<1>2. UNCHANGED <<reachable, probe>>
  BY DEF Consumer, GetClusters, DoEngageReturns, Subscribe, Wake, StartReturns, Restart, tracker
<1>3. Announced(c)' <=> Announced(c)
  BY <1>2 DEF Announced
<1>4. CASE r # x
  <2>1. /\ pc'[r] = pc[r] /\ todo'[r] = todo[r] /\ stale'[r] = stale[r]
        /\ engaging'[r] = engaging[r] /\ retry'[r] = retry[r] /\ engaged'[r] = engaged[r]
        /\ missed'[r] = missed[r]
    BY <1>4 DEF Consumer, GetClusters, DoEngageReturns, Subscribe, Wake, StartReturns, Restart,
       Goto, Silent, TypeOK
  <2> QED
    BY <1>1, <1>3, <2>1 DEF Heeds, Underway
<1>5. CASE r = x
  <2>1. CASE GetClusters(r)
    <3>1. todo'[r] = registered
      BY <2>1 DEF GetClusters, TypeOK
    <3>2. Announced(c) => c \in registered
      BY DEF Announced, KnownAreRegistered
    <3> QED
      BY <1>3, <3>1, <3>2 DEF Heeds, Underway
  <2>2. CASE DoEngageReturns(r)
    <3>1. pc[r] \in {"first", "running"}
      BY <2>2 DEF DoEngageReturns, Goto
    <3> QED
      BY <1>1, <1>3, <2>2, <3>1 DEF DoEngageReturns, Silent, Heeds, Underway
  <2>3. CASE Subscribe(r)
    <3>1. pc[r] = "spawned"
      BY <2>3 DEF Subscribe, Goto
    <3>2. ~stale[r]
      BY <3>1 DEF ClosedAreHeld, Subscribed
    <3> QED
      BY <1>1, <1>3, <2>3, <3>1, <3>2 DEF Subscribe, Heeds, Underway
  <2>4. CASE Wake(r) \/ StartReturns(r) \/ Restart(r)
    <3>1. pc'[r] \in {"woken", "off", "start"}
      BY <2>4 DEF Wake, StartReturns, Restart, Goto, TypeOK
    <3> QED
      BY <3>1 DEF Heeds
  <2> QED
    BY <1>5, <2>1, <2>2, <2>3, <2>4 DEF Consumer
<1> QED
  BY <1>4, <1>5

LEMMA EngageHeeded ==
    ASSUME TypeOK, NoMissedNotification,
           NEW x \in Runnable, NEW y \in Cluster, EngageStep(x, y),
           NEW r \in Runnable, NEW c \in Cluster
    PROVE  Heeds(r, c)'
<1>1. Heeds(r, c)
  BY DEF NoMissedNotification, Heeds
<1>2. UNCHANGED <<reachable, probe, pc>>
  BY DEF EngageStep, EngageOne, EngageSucceeds, EngageFails, RetryFires, tracker
<1>3. Announced(c)' <=> Announced(c)
  BY <1>2 DEF Announced
<1>4. CASE EngageOne(x, y)
  <2>1. CASE r = x /\ c = y
    <3>1. CASE IsReachable(y)
      <4>1. c \in engaging'[r]
        BY <1>4, <2>1, <3>1 DEF EngageOne, TypeOK
      <4> QED
        BY <4>1 DEF Heeds, Underway
    <3>2. CASE ~IsReachable(y)
      <4>1. ~Announced(c)
        BY <2>1, <3>2 DEF IsReachable, Announced
      <4> QED
        BY <1>3, <4>1 DEF Heeds
    <3> QED
      BY <3>1, <3>2
  <2>2. CASE ~(r = x /\ c = y)
    <3>1. /\ c \in todo[r] => c \in todo'[r]
          /\ engaging[r] \subseteq engaging'[r]
          /\ c \in missed[r] => c \in missed'[r]
      BY <1>4, <2>2 DEF EngageOne, TypeOK
    <3> QED
      BY <1>1, <1>2, <1>3, <1>4, <3>1 DEF EngageOne, Heeds, Underway
  <2> QED
    BY <2>1, <2>2
<1>5. CASE EngageSucceeds(x, y) \/ EngageFails(x, y)
  <2>1. engaged[r] \cup engaging[r] \cup retry[r] \subseteq engaged'[r] \cup engaging'[r] \cup retry'[r]
    BY <1>5 DEF EngageSucceeds, EngageFails, TypeOK
  <2>2. UNCHANGED <<todo, stale, missed>>
    BY <1>5 DEF EngageSucceeds, EngageFails, Silent
  <2> QED
    BY <1>1, <1>2, <1>3, <2>1, <2>2 DEF Heeds, Underway
<1>6. CASE RetryFires(x, y)
  <2>1. Notify /\ Unheard({x}, y) /\ UNCHANGED <<pc, todo, engaging, engaged>>
    BY <1>6 DEF RetryFires
  <2>2. CASE r = x /\ c = y
    BY <2>1, <2>2, NotifyHeeded
  <2>3. CASE ~(r = x /\ c = y)
    <3>1. missed[r] \subseteq missed'[r] /\ (stale[r] => stale'[r])
      BY <2>1 DEF Notify, Unheard, TypeOK
    <3>2. c \in retry[r] => c \in retry'[r]
      BY <1>6, <2>3 DEF RetryFires, TypeOK
    <3> QED
      BY <1>1, <1>2, <1>3, <2>1, <3>1, <3>2 DEF Heeds, Underway
  <2> QED
    BY <2>2, <2>3
<1> QED
  BY <1>4, <1>5, <1>6 DEF EngageStep

LEMMA StepHeeded ==
    ASSUME EngageInv, [Next]_vars
    PROVE  NoMissedNotification'
<1> USE DEF EngageInv
<1> SUFFICES ASSUME NEW r \in Runnable, NEW c \in Cluster PROVE Heeds(r, c)'
  BY DEF NoMissedNotification, Heeds
<1>1. Heeds(r, c)
  BY DEF NoMissedNotification, Heeds
<1>2. ASSUME NEW x \in Cluster, AddOrReplace(x) \/ NotifyAdded(x) \/ Partition(x)
      PROVE  Heeds(r, c)'
  <2>1. UNCHANGED <<tracker, consumer, missed>>
    BY <1>2 DEF AddOrReplace, NotifyAdded, Partition, Silent
  <2>2. stale[r] => stale'[r]
    BY <1>2 DEF AddOrReplace, NotifyAdded, Partition, Silent, Notify
  <2> QED
    BY <1>1, <2>1, <2>2 DEF tracker, consumer, Heeds, Underway, Announced
<1>3. CASE UNCHANGED vars
  BY <1>1, <1>3 DEF vars, tracker, consumer, Heeds, Underway, Announced
<1> QED
  BY <1>2, <1>3, TrackerHeeded, ConsumerHeeded, EngageHeeded DEF Next

(* Channels are closed in the hands of those who hold one, and given up when *)
(* Start returns.                                                            *)
LEMMA StepClosed ==
    ASSUME EngageInv, [Next]_vars
    PROVE  ClosedAreHeld'
<1> USE DEF EngageInv
<1>1. ASSUME UNCHANGED pc, Notify \/ UNCHANGED stale PROVE ClosedAreHeld'
  BY <1>1 DEF Notify, ClosedAreHeld, Subscribed
<1>2. ASSUME NEW x \in Cluster,
             AddOrReplace(x) \/ NotifyAdded(x) \/ Partition(x) \/ Tracker(x)
      PROVE  ClosedAreHeld'
  BY <1>1, <1>2 DEF AddOrReplace, NotifyAdded, Partition, Tracker, ProbeReturns, RecordResult,
     OnReachable, consumer, Silent
<1>3. CASE ProbeAll \/ Prune
  BY <1>1, <1>3 DEF ProbeAll, Prune, consumer, Silent
<1>4. ASSUME NEW r \in Runnable, NEW c \in Cluster, EngageStep(r, c) PROVE ClosedAreHeld'
  BY <1>1, <1>4 DEF EngageStep, EngageOne, EngageSucceeds, EngageFails, RetryFires, Silent
<1>5. ASSUME NEW r \in Runnable, Consumer(r) PROVE ClosedAreHeld'
  BY <1>5 DEF Consumer, GetClusters, DoEngageReturns, Subscribe, Wake, StartReturns, Restart,
     Goto, Silent, ClosedAreHeld, Subscribed, TypeOK
<1>6. CASE UNCHANGED vars
  BY <1>1, <1>6 DEF vars, consumer
<1> QED
  BY <1>2, <1>3, <1>4, <1>5, <1>6 DEF Next

(* No interleaving of probes, registrations, failed calls, timers and        *)
(* restarts makes a runnable forget a cluster the tracker announced, for any *)
(* number of runnables and peers: doEngage has it in hand, or runs again.    *)
(* (drainNotifications takes the channel before it runs doEngage.)           *)
THEOREM NotificationsAreNotMissed == Spec => []NoMissedNotification
<1>1. Init => EngageInv
  <2>1. Init => KnownAreRegistered /\ ClosedAreHeld
    BY DEF Init, KnownAreRegistered, ClosedAreHeld
  <2>2. Init => NoMissedNotification
    BY DEF Init, NoMissedNotification, Announced
  <2> QED
    BY <2>1, <2>2, InitTypes DEF EngageInv
<1>2. EngageInv /\ [Next]_vars => EngageInv'
  BY StepTypes, StepKnown, StepClosed, StepHeeded DEF EngageInv
<1>3. EngageInv => NoMissedNotification
  BY DEF EngageInv
<1> QED
  BY <1>1, <1>2, <1>3, PTL DEF Spec

=============================================================================
