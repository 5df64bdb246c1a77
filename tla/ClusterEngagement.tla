-------------------------- MODULE ClusterEngagement --------------------------
(***************************************************************************)
(* How the controllers of the raft leader get hold of the peer clusters     *)
(* (pkg/multicluster): bootstrap routines register peers, the health        *)
(* tracker probes them, and each runnable engages the registered clusters   *)
(* the tracker believes reachable, once when it starts and again on every   *)
(* notification of the restartBroadcaster.                                  *)
(*                                                                          *)
(* One term of leadership: all of these are goroutines started together.    *)
(* A channel of the broadcaster is known by whether it has been closed      *)
(* since a consumer took it (`stale`).                                      *)
(***************************************************************************)
EXTENDS Naturals

CONSTANTS Runnable,   \* runnables added to the leaderRunnable
          Cluster,    \* remote peers
          Preset,     \* peers registered before the term starts
          MaxFaults,  \* bound on Engage calls that fail on a reachable cluster
          MaxReturns  \* bound on runnables whose Start returns and is restarted

ASSUME PresetAssumption == Preset \subseteq Cluster
ASSUME EngageBoundAssumption == MaxFaults \in Nat /\ MaxReturns \in Nat

VARIABLES
    alive,      \* external: the peer's API server answers
    registered, \* the clusterProvider's clusters
    peer,       \* peer[c]: c's bootstrap routine
    reachable,  \* the tracker's map, "unknown" where it has no entry
    round,      \* the clusters of the probeAll under way
    probe,      \* probe[c]: c's goroutine in that round
    pc,         \* pc[r]: where r's wrapStart and drainNotifications are
    todo,       \* todo[r]: clusters the doEngage under way has yet to look at
    stale,      \* stale[r]: the channel r holds is closed
    engaging,   \* engaging[r]: clusters with a call of r.Engage in progress
    retry,      \* retry[r]: clusters with a ten second timer
    engaged,    \* engaged[r]: clusters r.Engage succeeded on
    missed,     \* history: notified about before r held a channel
    faults, returns \* how much of MaxFaults and MaxReturns is used

tracker == <<reachable, round, probe>>
consumer == <<pc, todo, engaging, retry, engaged>>
vars == <<alive, registered, peer, tracker, consumer, stale, missed, faults, returns>>

-----------------------------------------------------------------------------
(* start: about to run the first doEngage; first: in it; spawned: the        *)
(* drainNotifications goroutine is created; idle, woken, running: in its     *)
(* loop, with a channel in hand; off: Start returned.                        *)
PC == {"start", "first", "spawned", "idle", "woken", "running", "off"}
Subscribed(r) == pc[r] \in {"idle", "woken", "running"}

TypeOK ==
    /\ alive \subseteq Cluster
    /\ registered \subseteq Cluster
    /\ peer \in [Cluster -> {"fetch", "added", "done"}]
    /\ reachable \in [Cluster -> {"unknown", "up", "down"}]
    /\ round \subseteq Cluster
    /\ probe \in [Cluster -> {"none", "probing", "up", "down", "notify"}]
    /\ pc \in [Runnable -> PC]
    /\ todo \in [Runnable -> SUBSET Cluster]
    /\ stale \in [Runnable -> BOOLEAN]
    /\ engaging \in [Runnable -> SUBSET Cluster]
    /\ retry \in [Runnable -> SUBSET Cluster]
    /\ engaged \in [Runnable -> SUBSET Cluster]
    /\ missed \in [Runnable -> SUBSET Cluster]
    /\ faults \in 0 .. MaxFaults
    /\ returns \in 0 .. MaxReturns

Init ==
    /\ alive \in SUBSET Cluster
    /\ registered = Preset
    /\ peer = [c \in Cluster |-> IF c \in Preset THEN "done" ELSE "fetch"]
    /\ reachable = [c \in Cluster |-> "unknown"]
    /\ round = {}
    /\ probe = [c \in Cluster |-> "none"]
    /\ pc = [r \in Runnable |-> "start"]
    /\ todo = [r \in Runnable |-> {}]
    /\ stale = [r \in Runnable |-> FALSE]
    /\ engaging = [r \in Runnable |-> {}]
    /\ retry = [r \in Runnable |-> {}]
    /\ engaged = [r \in Runnable |-> {}]
    /\ missed = [r \in Runnable |-> {}]
    /\ faults = 0
    /\ returns = 0

-----------------------------------------------------------------------------
(* notify(): whoever holds the current channel sees it closed.  A runnable   *)
(* that has begun its first doEngage and holds no channel yet sees nothing;  *)
(* R are the runnables that c's notification matters to.                     *)
Notify == stale' = [r \in Runnable |-> stale[r] \/ Subscribed(r)]
Unheard(R, c) ==
    missed' = [r \in Runnable |->
                  IF r \in R /\ pc[r] \in {"first", "spawned"}
                  THEN missed[r] \cup {c} ELSE missed[r]]

Silent == UNCHANGED <<stale, missed>>

-----------------------------------------------------------------------------
(* A bootstrap routine: AddOrReplace, then notify.  A failure to fetch the   *)
(* peer's kubeconfig is retried by the LeaderManager.                        *)
AddOrReplace(c) ==
    /\ peer[c] = "fetch"
    /\ registered' = registered \cup {c}
    /\ peer' = [peer EXCEPT ![c] = "added"]
    /\ Silent
    /\ UNCHANGED <<alive, tracker, consumer, faults, returns>>

NotifyAdded(c) ==
    /\ peer[c] = "added"
    /\ peer' = [peer EXCEPT ![c] = "done"]
    /\ Notify
    /\ UNCHANGED <<alive, registered, tracker, consumer, missed, faults, returns>>

-----------------------------------------------------------------------------
(* The tracker's rounds.                                                     *)
ProbeAll ==
    /\ round = {} /\ registered # {}
    /\ round' = registered
    /\ probe' = [c \in Cluster |-> IF c \in registered THEN "probing" ELSE "none"]
    /\ Silent
    /\ UNCHANGED <<alive, registered, peer, reachable, consumer, faults, returns>>

ProbeReturns(c) ==
    /\ probe[c] = "probing"
    /\ probe' = [probe EXCEPT ![c] = IF c \in alive THEN "up" ELSE "down"]
    /\ Silent
    /\ UNCHANGED <<alive, registered, peer, reachable, round, consumer, faults, returns>>

(* Mutant: a cluster first observed reachable is no transition.              *)
TransitionedUpFromDown(c) == probe[c] = "up" /\ reachable[c] = "down"
TransitionedUp(c) == probe[c] = "up" /\ reachable[c] # "up"

(* recordResult under the lock; the callback runs after the unlock.          *)
RecordResult(c) ==
    /\ probe[c] \in {"up", "down"}
    /\ reachable' = [reachable EXCEPT ![c] = probe[c]]
    /\ probe' = [probe EXCEPT ![c] = IF TransitionedUp(c) THEN "notify" ELSE "none"]
    /\ Silent
    /\ UNCHANGED <<alive, registered, peer, round, consumer, faults, returns>>

OnReachable(c) ==
    /\ probe[c] = "notify"
    /\ probe' = [probe EXCEPT ![c] = "none"]
    /\ Notify /\ Unheard(Runnable, c)
    /\ UNCHANGED <<alive, registered, peer, reachable, round, consumer, faults, returns>>

(* wg.Wait, then the entries of clusters outside the round are pruned.       *)
Prune ==
    /\ round # {} /\ \A c \in Cluster : probe[c] = "none"
    /\ round' = {}
    /\ reachable' = [c \in Cluster |-> IF c \in round THEN reachable[c] ELSE "unknown"]
    /\ Silent
    /\ UNCHANGED <<alive, registered, peer, probe, consumer, faults, returns>>

-----------------------------------------------------------------------------
(* doEngage takes the registered clusters and looks at one after the other.  *)
Goto(r, from, to) == pc[r] = from /\ pc' = [pc EXCEPT ![r] = to]

GetClusters(r) ==
    /\ Goto(r, "start", "first") \/ Goto(r, "woken", "running")
    /\ todo' = [todo EXCEPT ![r] = registered]
    /\ Silent
    /\ UNCHANGED <<alive, registered, peer, tracker, engaging, retry, engaged, faults, returns>>

(* Mutant: a cluster is engaged whatever the tracker says.                   *)
IsReachableAlways(c) == TRUE
(* A cluster the tracker has no entry for is unreachable.                    *)
IsReachable(c) == reachable[c] = "up"

EngageOne(r, c) ==
    /\ c \in todo[r]
    /\ todo' = [todo EXCEPT ![r] = @ \ {c}]
    /\ IF IsReachable(c)
       THEN /\ engaging' = [engaging EXCEPT ![r] = @ \cup {c}]
            /\ missed' = [missed EXCEPT ![r] = @ \ {c}]
       ELSE UNCHANGED <<engaging, missed>>
    /\ UNCHANGED <<alive, registered, peer, tracker, pc, stale, retry, engaged, faults, returns>>

(* Mutant: the loop takes the channel again after doEngage has run.          *)
DoEngageReturnsResubscribed(r) ==
    /\ todo[r] = {}
    /\ Goto(r, "first", "spawned") \/ Goto(r, "running", "idle")
    /\ stale' = [stale EXCEPT ![r] = FALSE]
    /\ UNCHANGED <<alive, registered, peer, tracker, todo, engaging, retry, engaged, missed,
                   faults, returns>>

(* doEngage returns: to wrapStart, which spawns drainNotifications, or to    *)
(* its loop.                                                                 *)
DoEngageReturns(r) ==
    /\ todo[r] = {}
    /\ Goto(r, "first", "spawned") \/ Goto(r, "running", "idle")
    /\ Silent
    /\ UNCHANGED <<alive, registered, peer, tracker, todo, engaging, retry, engaged, faults, returns>>

(* The goroutine's first b.channel().                                        *)
Subscribe(r) ==
    /\ Goto(r, "spawned", "idle")
    /\ stale' = [stale EXCEPT ![r] = FALSE]
    /\ UNCHANGED <<alive, registered, peer, tracker, todo, engaging, retry, engaged, missed,
                   faults, returns>>

(* The channel in hand is closed: take the new one, then run doEngage.       *)
Wake(r) ==
    /\ stale[r] /\ Goto(r, "idle", "woken")
    /\ stale' = [stale EXCEPT ![r] = FALSE]
    /\ UNCHANGED <<alive, registered, peer, tracker, todo, engaging, retry, engaged, missed,
                   faults, returns>>

(* External: r.Engage.                                                       *)
EngageSucceeds(r, c) ==
    /\ c \in engaging[r] /\ c \in alive
    /\ engaging' = [engaging EXCEPT ![r] = @ \ {c}]
    /\ engaged' = [engaged EXCEPT ![r] = @ \cup {c}]
    /\ Silent
    /\ UNCHANGED <<alive, registered, peer, tracker, pc, todo, retry, faults, returns>>

EngageFails(r, c) ==
    /\ c \in engaging[r]
    /\ IF c \in alive THEN faults < MaxFaults /\ faults' = faults + 1 ELSE UNCHANGED faults
    /\ engaging' = [engaging EXCEPT ![r] = @ \ {c}]
    /\ retry' = [retry EXCEPT ![r] = @ \cup {c}]
    /\ Silent
    /\ UNCHANGED <<alive, registered, peer, tracker, pc, todo, engaged, returns>>

RetryFires(r, c) ==
    /\ c \in retry[r]
    /\ retry' = [retry EXCEPT ![r] = @ \ {c}]
    /\ Notify /\ Unheard({r}, c)
    /\ UNCHANGED <<alive, registered, peer, tracker, pc, todo, engaging, engaged, faults, returns>>

(* Start returns: cancelCtx ends r's engagements, calls and timers, and the  *)
(* LeaderManager runs the routine again.                                     *)
StartReturns(r) ==
    /\ pc[r] \in {"spawned", "idle", "woken", "running"} /\ returns < MaxReturns
    /\ returns' = returns + 1
    /\ pc' = [pc EXCEPT ![r] = "off"]
    /\ todo' = [todo EXCEPT ![r] = {}]
    /\ engaging' = [engaging EXCEPT ![r] = {}]
    /\ retry' = [retry EXCEPT ![r] = {}]
    /\ engaged' = [engaged EXCEPT ![r] = {}]
    /\ missed' = [missed EXCEPT ![r] = {}]
    /\ stale' = [stale EXCEPT ![r] = FALSE]
    /\ UNCHANGED <<alive, registered, peer, tracker, faults>>

Restart(r) ==
    /\ Goto(r, "off", "start")
    /\ Silent
    /\ UNCHANGED <<alive, registered, peer, tracker, todo, engaging, retry, engaged, faults, returns>>

-----------------------------------------------------------------------------
(* External: a peer is partitioned away, or comes back.                      *)
Partition(c) ==
    /\ alive' = IF c \in alive THEN alive \ {c} ELSE alive \cup {c}
    /\ Silent
    /\ UNCHANGED <<registered, peer, tracker, consumer, faults, returns>>

Tracker(c) == ProbeReturns(c) \/ RecordResult(c) \/ OnReachable(c)
Consumer(r) ==
    \/ GetClusters(r) \/ DoEngageReturns(r) \/ Subscribe(r) \/ Wake(r)
    \/ StartReturns(r) \/ Restart(r)
EngageStep(r, c) ==
    \/ EngageOne(r, c)
    \/ EngageSucceeds(r, c)
    \/ EngageFails(r, c)
    \/ RetryFires(r, c)

Next ==
    \/ ProbeAll \/ Prune
    \/ \E c \in Cluster : AddOrReplace(c) \/ NotifyAdded(c) \/ Tracker(c) \/ Partition(c)
    \/ \E r \in Runnable : Consumer(r)
    \/ \E r \in Runnable, c \in Cluster : EngageStep(r, c)

Spec == Init /\ [][Next]_vars

(* Goroutines run, timers and tickers fire, calls return.  Start need not,   *)
(* and a kubeconfig need not be found while its peer is away.                *)
Fairness ==
    /\ WF_vars(ProbeAll) /\ WF_vars(Prune)
    /\ \A c \in Cluster :
        /\ WF_vars(c \in alive /\ AddOrReplace(c)) /\ WF_vars(NotifyAdded(c))
        /\ WF_vars(Tracker(c))
    /\ \A r \in Runnable :
        /\ WF_vars(GetClusters(r)) /\ WF_vars(DoEngageReturns(r)) /\ WF_vars(Subscribe(r))
        /\ WF_vars(Wake(r)) /\ WF_vars(Restart(r))
    /\ \A r \in Runnable, c \in Cluster :
        /\ WF_vars(EngageOne(r, c)) /\ WF_vars(RetryFires(r, c))
        /\ WF_vars(EngageSucceeds(r, c) \/ EngageFails(r, c))

FairSpec == Spec /\ Fairness

-----------------------------------------------------------------------------
(* What a runnable is left to do about a cluster the tracker found reachable *)
(* and has announced: it is engaged or being engaged, a timer will ask       *)
(* again, the doEngage under way has still to look at it, or the channel in  *)
(* hand is closed and doEngage runs again.                                   *)
Underway(r, c) ==
    \/ c \in engaged[r] \cup engaging[r] \cup retry[r] \cup todo[r]
    \/ stale[r]
Announced(c) == reachable[c] = "up" /\ probe[c] # "notify"

(* "No missed notifications" (broadcaster.go): no runnable that has begun    *)
(* forgets an announced cluster, except one announced between its first      *)
(* doEngage and its first channel.                                           *)
NoMissedNotification ==
    \A r \in Runnable, c \in Cluster :
        pc[r] \in {"first", "spawned", "idle", "running"} /\ Announced(c) /\ c \notin missed[r]
            => Underway(r, c)

(* NoMissedNotification and what makes it inductive: the tracker only knows  *)
(* registered clusters, a round ends when every callback has run, and only a *)
(* channel in hand is ever closed.                                           *)
KnownAreRegistered ==
    \A c \in Cluster :
        /\ probe[c] # "none" => c \in round
        /\ c \in round \/ reachable[c] # "unknown" => c \in registered
ClosedAreHeld == \A r \in Runnable : stale[r] => Subscribed(r)
EngageInv == TypeOK /\ KnownAreRegistered /\ ClosedAreHeld /\ NoMissedNotification

(* A cluster that stays reachable, and whose recovery was not announced too  *)
(* early, is engaged in the end, failed calls and restarts notwithstanding.  *)
HealedIsEngaged ==
    \A r \in Runnable, c \in Cluster :
        <>[](c \in alive /\ c \notin missed[r]) => <>[](c \in engaged[r])

(* Once the probe has found a peer down, the skip in doEngage stops the      *)
(* retries: no Engage calls or timers are left.                              *)
RetriesStop ==
    \A r \in Runnable, c \in Cluster :
        <>[](c \notin alive) => <>[](c \notin engaging[r] \cup retry[r])

(* "The unreachable->reachable transition callback re-engages each cluster   *)
(* the moment its first probe succeeds" (health.go): a cluster that stays    *)
(* reachable is engaged.  The code falls short of it, as the README tells.   *)
ReachableIsEngaged ==
    \A r \in Runnable, c \in Cluster : <>[](c \in alive) => <>[](c \in engaged[r])
=============================================================================
