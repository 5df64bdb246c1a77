------------------------ MODULE DecommissionerProofs ------------------------
(***************************************************************************)
(* What the StatefulSet decommissioner promises, for every set of pools,    *)
(* every number of scalings and every number of lost pods, lost answers and *)
(* restarts.                                                                *)
(***************************************************************************)
EXTENDS Decommissioner, FiniteSetTheorems, FunctionTheorems, WellFoundedInduction, TLAPS

Views == [sets: [Pool -> Nat], pods: SUBSET Pod, claims: SUBSET Pod,
          health: [all: SUBSET Id, down: SUBSET Id]]

-----------------------------------------------------------------------------
(* Min of two numbers, and of a nonempty set of node_ids.                    *)
LEMMA MinOfTwo ==
    ASSUME NEW a \in Nat, NEW b \in Nat
    PROVE  Min({a, b}) = IF a =< b THEN a ELSE b
<1>1. CASE a =< b
  <2>1. \A x \in {a, b} : (\A y \in {a, b} : x =< y) <=> x = a
    BY <1>1
  <2> QED
    BY <1>1, <2>1 DEF Min
<1>2. CASE ~(a =< b)
  <2>1. \A x \in {a, b} : (\A y \in {a, b} : x =< y) <=> x = b
    BY <1>2
  <2> QED
    BY <1>2, <2>1 DEF Min
<1> QED
  BY <1>1, <1>2

LEMMA MinIsMember ==
    ASSUME NEW B \in SUBSET Nat, B # {}
    PROVE  Min(B) \in B
<1>1. PICK x \in B : \A y \in B : ~(<<y, x>> \in OpToRel(<, Nat))
  BY NatLessThanWellFounded, WFMin
<1>2. ASSUME NEW y \in B PROVE x =< y
  <2>1. ~(<<y, x>> \in OpToRel(<, Nat))
    BY <1>1
  <2>2. OpToRel(<, Nat) = {ss \in Nat \X Nat : ss[1] < ss[2]}
    BY DEF OpToRel
  <2>3. ~(y < x)
    BY <2>1, <2>2
  <2> QED
    BY <2>3
<1> QED
  BY <1>2 DEF Min

(* The delayed cache: a pass leaves only what it found, and what it found is *)
(* due only if it was due already or has been marked for an interval.        *)
LEMMA MarkTypes ==
    ASSUME NEW m \in CacheMarks
    PROVE  /\ Mark(m) \in CacheMarks
           /\ Mark(m).count >= DelayedMaxCacheCount
              => m.count >= DelayedMaxCacheCount \/ (m.count >= 1 /\ m.age = Interval)
           /\ Mark(m) # NoMark
           /\ m \in {NoMark, NewMark} => Mark(m) = NewMark
           /\ Mark(m).age =< m.age
<1>1. m.count \in Nat
  BY DEF CacheMarks, NoMark, DelayedMaxCacheCount
<1>2. Min({m.count + 1, DelayedMaxCacheCount})
        = IF m.count + 1 =< DelayedMaxCacheCount THEN m.count + 1 ELSE DelayedMaxCacheCount
  BY <1>1, MinOfTwo DEF DelayedMaxCacheCount
<1> QED
  BY <1>1, <1>2 DEF Mark, Counted, NoMark, NewMark, CacheMarks, Interval, DelayedMaxCacheCount

LEMMA NoMarkTypes == NoMark \in CacheMarks /\ NoMark.count = 0 /\ NoMark.age = 0
  BY DEF NoMark, CacheMarks, Interval, DelayedMaxCacheCount

LEMMA FilterAndMarkTypes ==
    ASSUME NEW E, NEW cache \in [E -> CacheMarks], NEW found
    PROVE  FilterAndMark(cache, found) \in [E -> CacheMarks]
  BY MarkTypes, NoMarkTypes DEF FilterAndMark

LEMMA OlderTypes ==
    ASSUME NEW E, NEW cache \in [E -> CacheMarks]
    PROVE  Older(cache) \in [E -> CacheMarks]
  BY DEF Older, CacheMarks, NoMark, Interval

LEMMA LiveTypes ==
    ASSUME TypeOK
    PROVE  Live \in Views
  BY DEF TypeOK, Live, Views, Members

LEMMA MarkedTypes ==
    ASSUME TypeOK, NEW q \in Pool
    PROVE  MarkedVolumes(q) \in [Pod -> CacheMarks] /\ MarkedIds(q) \in [Id -> CacheMarks]
<1>1. vol \in [Pod -> CacheMarks] /\ ids[q] \in [Id -> CacheMarks]
  BY DEF TypeOK, CacheMarks
<1>2. FilterAndMark(vol, FindUnboundVolumeClaims(q)) \in [Pod -> CacheMarks]
  BY <1>1, FilterAndMarkTypes
<1>3. MarkedIds(q) \in [Id -> CacheMarks]
  BY <1>1, FilterAndMarkTypes DEF MarkedIds
<1> QED
  BY <1>1, <1>2, <1>3 DEF MarkedVolumes

-----------------------------------------------------------------------------
(* The cluster starts with one broker per wanted pod, numbered from 1.       *)
LEMMA InitialNumbering ==
    ASSUME Init
    PROVE  \E n \in 0 .. MaxId : \E at \in [1 .. n -> Pod] :
             /\ pod \in [Pod -> {"none", "starting", "up"}]
             /\ claim \in [Pod -> [disk: -1 .. MaxId, del: BOOLEAN]]
             /\ member = [i \in Id |-> IF i =< n THEN [pod |-> at[i], st |-> "active"] ELSE NoMember]
             /\ since = 1 .. n /\ back = {}
             /\ \A i \in 1 .. n : Wanted(at[i])
<1> DEFINE wanted == {p \in Pod : Wanted(p)}
           n      == Cardinality(wanted)
           Onto   == {f \in [1 .. n -> wanted] : \A p \in wanted : \E i \in 1 .. n : f[i] = p}
           at     == CHOOSE f \in [1 .. n -> wanted] : \A p \in wanted : \E i \in 1 .. n : f[i] = p
<1>1. IsFiniteSet(wanted) /\ n \in Nat
  BY DecommissionerAssumption, FS_Subset, FS_CardinalityType
<1>2. n =< MaxId
  <2>1. wanted = {p \in Pod : p[2] < replicas[p[1]]}
    BY DEF Wanted
  <2> QED
    BY <2>1, DecommissionerAssumption DEF Init
<1>3. \E f \in [1 .. n -> wanted] : \A p \in wanted : \E i \in 1 .. n : f[i] = p
  BY <1>1, FS_CardinalityType, ZenonT(60) DEF ExistsBijection, Bijection, Injection, Surjection
<1> HIDE DEF n
<1>4. at \in [1 .. n -> wanted] /\ \A p \in wanted : \E i \in 1 .. n : at[i] = p
  BY <1>3
<1>5. /\ pod = [p \in Pod |-> IF p \in wanted THEN "up" ELSE "none"]
      /\ claim = [p \in Pod |-> IF p \in wanted
                                THEN [disk |-> CHOOSE i \in 1 .. n : at[i] = p, del |-> FALSE]
                                ELSE NoClaim]
      /\ member = [i \in Id |-> IF i <= n THEN [pod |-> at[i], st |-> "active"] ELSE NoMember]
      /\ since = 1 .. n /\ back = {}
  BY DEF Init, n
<1> HIDE DEF at
<1>6. \A p \in wanted : (CHOOSE i \in 1 .. n : at[i] = p) \in -1 .. MaxId
  <2> SUFFICES ASSUME NEW p \in wanted
               PROVE  (CHOOSE i \in 1 .. n : at[i] = p) \in -1 .. MaxId
    OBVIOUS
  <2>1. (CHOOSE i \in 1 .. n : at[i] = p) \in 1 .. n
    BY <1>4
  <2> QED
    BY <2>1, <1>1, <1>2, DecommissionerAssumption
<1>7. claim \in [Pod -> [disk: -1 .. MaxId, del: BOOLEAN]]
  BY <1>5, <1>6, DecommissionerAssumption DEF NoClaim
<1>8. pod \in [Pod -> {"none", "starting", "up"}]
  BY <1>5
<1>9. n \in 0 .. MaxId /\ at \in [1 .. n -> Pod] /\ \A i \in 1 .. n : Wanted(at[i])
  BY <1>1, <1>2, <1>4, DecommissionerAssumption
<1> QED
  BY <1>5, <1>7, <1>8, <1>9

LEMMA InitTypes ==
    ASSUME Init
    PROVE  TypeOK
<1>1a. PICK n \in 0 .. MaxId : \E at \in [1 .. n -> Pod] :
             /\ pod \in [Pod -> {"none", "starting", "up"}]
             /\ claim \in [Pod -> [disk: -1 .. MaxId, del: BOOLEAN]]
             /\ member = [i \in Id |-> IF i =< n THEN [pod |-> at[i], st |-> "active"] ELSE NoMember]
             /\ since = 1 .. n /\ back = {}
  BY InitialNumbering
<1>1. PICK at \in [1 .. n -> Pod] :
             /\ pod \in [Pod -> {"none", "starting", "up"}]
             /\ claim \in [Pod -> [disk: -1 .. MaxId, del: BOOLEAN]]
             /\ member = [i \in Id |-> IF i =< n THEN [pod |-> at[i], st |-> "active"] ELSE NoMember]
             /\ since = 1 .. n /\ back = {}
  BY <1>1a
<1>2. NoMember \in [pod: Pod, st: {"none", "active", "draining", "gone"}]
  BY DecommissionerAssumption DEF NoMember
<1>3. member \in [Id -> [pod: Pod, st: {"none", "active", "draining", "gone"}]]
  BY <1>1, <1>2, DecommissionerAssumption DEF Id
<1>4. mode \in Modes /\ replicas \in Sizes
  BY DEF Init
<1>4a. replicas \in [Pool -> Nat] /\ since \subseteq Id /\ back \subseteq Id
  BY <1>1, <1>4, DecommissionerAssumption DEF Id
<1>5. seen \in Views
  BY <1>1, <1>3, <1>4a DEF Init, Views, Live, Members
<1>6. vol \in [Pod -> CacheMarks] /\ ids \in [Pool -> [Id -> CacheMarks]]
  BY DEF Init, CacheMarks
<1>7. held \subseteq Pod /\ bare \subseteq Pod /\ idle \in [Pod -> 0 .. Interval]
  BY <1>5 DEF Init, Views, Interval
<1>8. ran \subseteq Pool /\ scales \in 0 .. MaxScales /\ faults \in 0 .. MaxFaults
  BY DecommissionerAssumption DEF Init
<1> QED
  BY <1>1, <1>3, <1>4, <1>4a, <1>5, <1>6, <1>7, <1>8 DEF TypeOK, Views

-----------------------------------------------------------------------------
(* Types are kept by what happens around the decommissioner,                 *)
LEMMA ClusterTypes ==
    ASSUME TypeOK, Cluster
    PROVE  TypeOK'
<1>1. ASSUME NEW p \in Pod, StsCreates(p) PROVE TypeOK'
  BY <1>1, DecommissionerAssumption DEF TypeOK, StsCreates, marks, bounds
<1>2. ASSUME NEW p \in Pod, StsDeletes(p) PROVE TypeOK'
  BY <1>2 DEF TypeOK, StsDeletes, marks, bounds
<1>3. ASSUME NEW p \in Pod, Joins(p) PROVE TypeOK'
  <2>1. NextId \in Id /\ NextId \in -1 .. MaxId
    BY <1>3 DEF Joins, Id
  <2>2. claim' \in [Pod -> [disk: -1 .. MaxId, del: BOOLEAN]]
    BY <1>3, <2>1, ZenonT(60) DEF TypeOK, Joins
  <2>3. member' \in [Id -> [pod: Pod, st: {"none", "active", "draining", "gone"}]]
    BY <1>3, <2>1 DEF TypeOK, Joins
  <2>4. since' \subseteq Id
    BY <1>3, <2>1 DEF TypeOK, Joins
  <2> QED
    BY <1>3, <2>2, <2>3, <2>4 DEF TypeOK, Joins, marks, usage, bounds
<1>4. ASSUME NEW p \in Pod, Starts(p) PROVE TypeOK'
  BY <1>4 DEF TypeOK, Starts, marks, usage, bounds
<1>5. ASSUME NEW p \in Pod, ClaimGone(p) PROVE TypeOK'
  BY <1>5, DecommissionerAssumption DEF TypeOK, ClaimGone, NoClaim, marks, history, usage, bounds
<1>6. ASSUME NEW i \in Id, Drained(i) PROVE TypeOK'
  BY <1>6, ZenonT(60) DEF TypeOK, Drained, kube, marks, history, usage, bounds
<1> QED
  BY <1>1, <1>2, <1>3, <1>4, <1>5, <1>6 DEF Cluster

LEMMA ScaleTypes ==
    ASSUME TypeOK, NEW q \in Pool, Scale(q)
    PROVE  TypeOK'
<1>1. Cardinality(PodsOf(q)) \in Nat
  BY DecommissionerAssumption, FS_Subset, FS_CardinalityType DEF PodsOf
<1>2. PICK n \in 1 .. Cardinality(PodsOf(q)) : replicas' = [replicas EXCEPT ![q] = n]
  BY DEF Scale
<1>3. replicas' \in [Pool -> Nat]
  BY <1>1, <1>2 DEF TypeOK
<1>4. scales' \in 0 .. MaxScales
  BY DecommissionerAssumption DEF Scale, TypeOK
<1> QED
  BY <1>3, <1>4 DEF TypeOK, Scale, marks, usage

LEMMA PodLostTypes ==
    ASSUME TypeOK, NEW p \in Pod, PodLost(p)
    PROVE  TypeOK'
<1>1. faults' \in 0 .. MaxFaults
  BY DecommissionerAssumption DEF PodLost, TypeOK
<1>2. claim' \in [Pod -> [disk: -1 .. MaxId, del: BOOLEAN]]
  <2>1. NoClaim \in [disk: -1 .. MaxId, del: BOOLEAN]
    BY DecommissionerAssumption DEF NoClaim
  <2>2. claim \in [Pod -> [disk: -1 .. MaxId, del: BOOLEAN]]
    BY DEF TypeOK
  <2>3. PICK lost \in {NoClaim, claim[p]} : claim' = [claim EXCEPT ![p] = lost]
    BY DEF PodLost
  <2> QED
    BY <2>1, <2>2, <2>3
<1> QED
  BY <1>1, <1>2 DEF TypeOK, PodLost, marks

LEMMA SyncTypes ==
    ASSUME TypeOK, NEW s \in Sources, Sync(s)
    PROVE  TypeOK'
<1>1. Live \in Views /\ seen \in Views
  BY LiveTypes DEF TypeOK, Views
<1>2. seen' \in Views
  BY <1>1 DEF Sync, Sources, Views
<1> QED
  BY <1>2 DEF TypeOK, Sync, Views, kube, marks, history, usage, bounds

LEMMA TickTypes ==
    ASSUME TypeOK, Tick
    PROVE  TypeOK'
<1>1. vol' \in [Pod -> CacheMarks] /\ ids' \in [Pool -> [Id -> CacheMarks]]
  BY OlderTypes DEF TypeOK, Tick
<1>2. ASSUME NEW p \in Pod PROVE Min({idle[p] + 1, Interval}) \in 0 .. Interval
  <2>1. idle[p] \in 0 .. Interval
    BY DEF TypeOK
  <2>2. idle[p] + 1 \in Nat /\ Interval \in Nat
    BY <2>1 DEF Interval
  <2> QED
    BY <2>1, <2>2, MinOfTwo
<1>3. idle' \in [Pod -> 0 .. Interval]
  BY <1>2 DEF Tick, Interval
<1> QED
  BY <1>1, <1>3 DEF TypeOK, Tick, kube, bounds

(* by the passes,                                                            *)
LEMMA RipeIsMember ==
    ASSUME TypeOK, NEW q \in Pool, Ripe(MarkedIds(q)) # {}
    PROVE  /\ Min(Ripe(MarkedIds(q))) \in Ripe(MarkedIds(q))
           /\ Min(Ripe(MarkedIds(q))) \in Id
<1>1. Ripe(MarkedIds(q)) \subseteq Id
  BY MarkedTypes DEF Ripe
<1>2. Ripe(MarkedIds(q)) \in SUBSET Nat
  BY <1>1, DecommissionerAssumption DEF Id
<1> QED
  BY <1>1, <1>2, MinIsMember

LEMMA ReconcileTypes ==
    ASSUME TypeOK, NEW q \in Pool, Reconcile(q)
    PROVE  TypeOK'
<1>1. MarkedVolumes(q) \in [Pod -> CacheMarks] /\ MarkedIds(q) \in [Id -> CacheMarks]
  BY MarkedTypes
<1>2. NoMark \in CacheMarks
  BY NoMarkTypes
<1>3. CASE DeleteClaim(q)
  <2>1. PICK p \in RipeVolumes(q) :
            IF claim[p] = NoClaim
            THEN vol' = MarkedVolumes(q) /\ UNCHANGED claim
            ELSE /\ claim' = [claim EXCEPT ![p].del = TRUE]
                 /\ vol' = [MarkedVolumes(q) EXCEPT ![p] = NoMark]
    BY <1>3 DEF DeleteClaim
  <2>2. vol' \in [Pod -> CacheMarks]
    BY <1>1, <1>2, <2>1
  <2>3. claim' \in [Pod -> [disk: -1 .. MaxId, del: BOOLEAN]]
    <3>1. claim \in [Pod -> [disk: -1 .. MaxId, del: BOOLEAN]]
      BY DEF TypeOK
    <3>2. p \in Pod
      BY <1>1 DEF RipeVolumes, Ripe
    <3> QED
      BY <2>1, <3>1, <3>2, ZenonT(60)
  <2> QED
    BY <1>3, <2>2, <2>3 DEF DeleteClaim, Pass, TypeOK, usage
<1>4. CASE DeleteOrAdminFails(q)
  <2>1. faults' \in 0 .. MaxFaults
    BY <1>4, DecommissionerAssumption DEF DeleteOrAdminFails, TypeOK
  <2> QED
    BY <1>1, <1>4, <2>1 DEF DeleteOrAdminFails, Pass, TypeOK, usage
<1>5. CASE BrokerLookupFails(q)
  BY <1>1, <1>5 DEF BrokerLookupFails, UpToBrokers, Pass, TypeOK, usage
<1>6. CASE CleanBrokerCache(q)
  BY <1>1, <1>2, <1>6 DEF CleanBrokerCache, UpToBrokers, Pass, TypeOK, usage
<1>7. CASE MarkBrokers(q)
  BY <1>1, <1>7 DEF MarkBrokers, UpToBrokers, Pass, TypeOK, usage
<1>8. CASE DecommissionBroker(q)
  <2> DEFINE i == Min(Ripe(MarkedIds(q)))
  <2>1. i \in Id
    BY <1>8, RipeIsMember DEF DecommissionBroker
  <2>2. Leaves(i) \/ UNCHANGED <<member, back>>
    BY <1>8 DEF DecommissionBroker
  <2>3. \/ ids' = [ids EXCEPT ![q] = MarkedIds(q)]
        \/ ids' = [ids EXCEPT ![q] = [MarkedIds(q) EXCEPT ![i] = NoMark]]
    BY <1>8 DEF DecommissionBroker
  <2>4. faults' = faults \/ (faults < MaxFaults /\ faults' = faults + 1)
    BY <1>8 DEF DecommissionBroker
  <2> HIDE DEF i
  <2>5. member' \in [Id -> [pod: Pod, st: {"none", "active", "draining", "gone"}]] /\ back' \subseteq Id
    <3>1. member \in [Id -> [pod: Pod, st: {"none", "active", "draining", "gone"}]] /\ back \subseteq Id
      BY DEF TypeOK
    <3> QED
      BY <2>1, <2>2, <3>1 DEF Leaves
  <2>6. ids' \in [Pool -> [Id -> CacheMarks]]
    <3>1. ids \in [Pool -> [Id -> CacheMarks]]
      BY DEF TypeOK
    <3>2. [MarkedIds(q) EXCEPT ![i] = NoMark] \in [Id -> CacheMarks]
      BY <1>1, <1>2, <2>1
    <3> QED
      BY <1>1, <2>3, <3>1, <3>2
  <2>7. faults' \in 0 .. MaxFaults
    BY <2>4, DecommissionerAssumption DEF TypeOK
  <2> QED
    BY <1>1, <1>8, <2>5, <2>6, <2>7 DEF DecommissionBroker, UpToBrokers, Pass, TypeOK, usage
<1> QED
  BY <1>3, <1>4, <1>5, <1>6, <1>7, <1>8 DEF Reconcile

LEMMA RestartTypes ==
    ASSUME TypeOK, Restart
    PROVE  TypeOK'
<1>1. faults' \in 0 .. MaxFaults
  BY DecommissionerAssumption DEF Restart, TypeOK
<1> QED
  BY <1>1, NoMarkTypes DEF Restart, TypeOK, kube, history, usage

(* and so by every step.                                                     *)
LEMMA NextTypes ==
    ASSUME TypeOK, [Next]_vars
    PROVE  TypeOK'
<1>1. CASE UNCHANGED vars
  BY <1>1 DEF TypeOK, vars, kube, marks, history, usage, bounds
<1> QED
  BY <1>1, ClusterTypes, ScaleTypes, ReconcileTypes, PodLostTypes, SyncTypes, TickTypes, RestartTypes
  DEF Next

(* Types, for every cluster: the delayed caches never hold more than a count *)
(* of DelayedMaxCacheCount and never an age without a mark.                  *)
THEOREM TypeCorrect == Spec => []TypeOK
<1>1. Init => TypeOK
  BY InitTypes
<1>2. TypeOK /\ [Next]_vars => TypeOK'
  BY NextTypes
<1> QED
  BY <1>1, <1>2, PTL DEF Spec

-----------------------------------------------------------------------------
(* One decommission at a time.  A broker that was asked to leave and has not *)
(* run since is down in every health report taken since, and so was it in    *)
(* the report on which it was chosen.                                        *)
LeavingIsDown ==
    \A i \in Id : member[i].st = "draining" /\ i \notin back => ~Runs(i) /\ i \in seen.health.down

(* A wanted broker.  Node_ids are given out in order and never again, so a   *)
(* report or a mark is never about a broker that is yet to join.             *)
Known == {i \in Id : member[i].st # "none"}
Numbered == Known = 1 .. Cardinality(Known)
ReportKnown == seen.health.all \subseteq Known /\ seen.health.down \subseteq seen.health.all
MarksKnown == \A q \in Pool : \A i \in Id : ids[q][i] # NoMark => i \in Known
SinceWanted == \A i \in since : i \in Known /\ Wanted(member[i].pod)

(* No view says that the broker is superfluous.  That is so after the first  *)
(* tick that follows its joining; before it, a pass may have marked it, but  *)
(* no mark is older than the broker.                                         *)
Cleared(i) ==
    /\ member[i].pod[2] < seen.sets[member[i].pod[1]]
    /\ \A j \in seen.health.all \ seen.health.down : j # i => member[j].pod # member[i].pod
WantedIsCleared ==
    \A i \in since : Current(i) => Cleared(i) \/ \A q \in Pool : ids[q][i] \in {NoMark, NewMark}

WantedInv ==
    /\ Numbered /\ ReportKnown /\ MarksKnown /\ SinceWanted
    /\ WantedIsCleared

(* A claim in use.  What a pass reads was so at some moment of this tick,    *)
(* and a mark that survives a tick was renewed in it.                        *)
ViewsAreRecent ==
    /\ seen.claims \subseteq held /\ \A p \in Pod : HasClaim(p) => p \in held
    /\ Pod \ seen.pods \subseteq bare /\ \A p \in Pod : pod[p] = "none" => p \in bare
MarkedIsIdle ==
    \A p \in Pod : vol[p] # NoMark
        => /\ mode.cleanup
           /\ p[1] \in ran => p \in held \cap bare
           /\ vol[p].age =< idle[p]
           /\ vol[p].count >= DelayedMaxCacheCount => idle[p] = Interval
UsedInv == ViewsAreRecent /\ MarkedIsIdle

-----------------------------------------------------------------------------
(* The broker that a pass asks to leave was found down in its report.        *)
LEMMA RipeIsFound ==
    ASSUME TypeOK, NEW q \in Pool, NEW i \in Ripe(MarkedIds(q))
    PROVE  /\ i \in BrokersToDecommission(q)
           /\ Mark(ids[q][i]).count >= DelayedMaxCacheCount
<1>1. ids[q] \in [Id -> CacheMarks]
  BY DEF TypeOK
<1> QED
  BY <1>1, NoMarkTypes DEF Ripe, MarkedIds, FilterAndMark, DelayedMaxCacheCount

(* What a pass may do to brokers.                                            *)
LEMMA PassLeaves ==
    ASSUME TypeOK, NEW q \in Pool, Reconcile(q)
    PROVE  \/ UNCHANGED <<member, back>>
           \/ \E i \in Ripe(MarkedIds(q)) :
                /\ i \in Id /\ Leaves(i) /\ CurrentlyDecommissioning = {} /\ ~UnknownBroker
<1>1. CASE DecommissionBroker(q)
  BY <1>1, RipeIsMember DEF DecommissionBroker
<1>2. CASE ~DecommissionBroker(q)
  BY <1>2 DEF Reconcile, DeleteClaim, DeleteOrAdminFails, BrokerLookupFails, CleanBrokerCache, MarkBrokers
<1> QED
  BY <1>1, <1>2

(* A pass leaves pods as they are, and takes disks from nobody.              *)
LEMMA PassKeeps ==
    ASSUME TypeOK, NEW q \in Pool, Reconcile(q)
    PROVE  /\ UNCHANGED <<mode, replicas, pod, seen, since, held, bare, idle, scales>>
           /\ \A p \in Pod : claim'[p].disk = claim[p].disk /\ (claim[p].del => claim'[p].del)
           /\ ran' = ran \cup {q}
<1>1. UNCHANGED <<mode, replicas, pod, seen, since, held, bare, idle, scales>> /\ ran' = ran \cup {q}
  BY DEF Reconcile, DeleteClaim, DeleteOrAdminFails, BrokerLookupFails, CleanBrokerCache, MarkBrokers,
         DecommissionBroker, UpToBrokers, Pass, usage
<1>2. \/ claim' = claim
      \/ \E p \in RipeVolumes(q) : claim' = [claim EXCEPT ![p].del = TRUE]
  BY DEF Reconcile, DeleteClaim, DeleteOrAdminFails, BrokerLookupFails, CleanBrokerCache, MarkBrokers,
         DecommissionBroker, UpToBrokers
<1>3. RipeVolumes(q) \subseteq Pod
  BY MarkedTypes DEF RipeVolumes, Ripe
<1>4. claim \in [Pod -> [disk: -1 .. MaxId, del: BOOLEAN]]
  BY DEF TypeOK
<1>5. \A p \in Pod : claim'[p].disk = claim[p].disk /\ (claim[p].del => claim'[p].del)
  BY <1>2, <1>3, <1>4
<1> QED
  BY <1>1, <1>5

-----------------------------------------------------------------------------
LEMMA LeavingInit ==
    ASSUME Init
    PROVE  LeavingIsDown /\ OneDecommissionAtATime
<1>1. PICK n \in 0 .. MaxId : \E at \in [1 .. n -> Pod] :
         member = [i \in Id |-> IF i =< n THEN [pod |-> at[i], st |-> "active"] ELSE NoMember]
  BY InitialNumbering
<1>2. \A i \in Id : member[i].st # "draining"
  BY <1>1 DEF NoMember
<1> QED
  BY <1>2 DEF LeavingIsDown, OneDecommissionAtATime

LEMMA LeavingStep ==
    ASSUME TypeOK, LeavingIsDown, OneDecommissionAtATime, [Next]_vars
    PROVE  LeavingIsDown' /\ OneDecommissionAtATime'
<1> USE DEF LeavingIsDown, OneDecommissionAtATime
<1>t. /\ member \in [Id -> [pod: Pod, st: {"none", "active", "draining", "gone"}]]
      /\ claim \in [Pod -> [disk: -1 .. MaxId, del: BOOLEAN]]
      /\ pod \in [Pod -> {"none", "starting", "up"}]
      /\ back \subseteq Id
  BY DEF TypeOK
<1>1. ASSUME NEW p \in Pod, StsCreates(p) \/ StsDeletes(p) \/ PodLost(p) \/ ClaimGone(p)
      PROVE  LeavingIsDown' /\ OneDecommissionAtATime'
  <2>1. UNCHANGED <<member, seen, back>>
    BY <1>1 DEF StsCreates, StsDeletes, PodLost, ClaimGone, history
  <2>2. \A i \in Id : Runs(i)' => Runs(i)
    BY <1>1, <1>t DEF StsCreates, StsDeletes, PodLost, ClaimGone, Runs
  <2> QED
    BY <2>1, <2>2
<1>2. ASSUME NEW p \in Pod, Joins(p)
      PROVE  LeavingIsDown' /\ OneDecommissionAtATime'
  <2>1. ASSUME NEW i \in Id, member'[i].st = "draining"
        PROVE  member'[i] = member[i] /\ (Runs(i)' => Runs(i))
    BY <1>2, <1>t, <2>1 DEF Joins, Runs
  <2> QED
    BY <1>2, <2>1 DEF Joins
<1>3. ASSUME NEW p \in Pod, Starts(p)
      PROVE  LeavingIsDown' /\ OneDecommissionAtATime'
  <2>1. ASSUME NEW i \in Id, member[i].st = "draining", i \notin back'
        PROVE  Runs(i)' => Runs(i)
    BY <1>3, <1>t, <2>1 DEF Starts, Runs
  <2>2. UNCHANGED <<member, seen>> /\ back \subseteq back'
    BY <1>3 DEF Starts
  <2> QED
    BY <2>1, <2>2
<1>4. ASSUME NEW j \in Id, Drained(j)
      PROVE  LeavingIsDown' /\ OneDecommissionAtATime'
  <2>1. ASSUME NEW i \in Id, member'[i].st = "draining"
        PROVE  member'[i] = member[i] /\ (Runs(i)' => Runs(i))
    BY <1>4, <1>t, <2>1 DEF Drained, Runs, kube
  <2> QED
    BY <1>4, <2>1 DEF Drained, history
<1>5. ASSUME NEW s \in Sources, Sync(s)
      PROVE  LeavingIsDown' /\ OneDecommissionAtATime'
  <2>1. UNCHANGED <<member, pod, claim, back>> /\ \A i \in Id : Runs(i)' = Runs(i)
    BY <1>5 DEF Sync, kube, history, Runs
  <2>2. seen'.health = seen.health \/ seen'.health = Live.health
    BY <1>5, LiveTypes DEF Sync, Sources, TypeOK, Views
  <2>3. \A i \in Id : member[i].st = "draining" /\ ~Runs(i) => i \in Live.health.down
    BY DEF Live, Members
  <2> QED
    BY <2>1, <2>2, <2>3
<1>6. ASSUME NEW q \in Pool, Reconcile(q)
      PROVE  LeavingIsDown' /\ OneDecommissionAtATime'
  <2>1. seen' = seen /\ pod' = pod /\ \A p \in Pod : claim'[p].disk = claim[p].disk
    BY <1>6, PassKeeps
  <2>2. CASE UNCHANGED <<member, back>>
    BY <1>t, <2>1, <2>2 DEF Runs
  <2>3. ASSUME NEW i \in Ripe(MarkedIds(q)), i \in Id, Leaves(i), CurrentlyDecommissioning = {}
        PROVE  LeavingIsDown' /\ OneDecommissionAtATime'
    <3>1. i \in seen.health.down
      BY RipeIsFound DEF BrokersToDecommission
    <3>2. \A j \in Id : member[j].st = "draining" => j \in back
      BY <2>3 DEF CurrentlyDecommissioning
    <3>3. \A j \in Id : member'[j].st = "draining" => j = i \/ member[j].st = "draining"
      BY <1>t, <2>3 DEF Leaves
    <3>4. back \subseteq back' /\ (i \notin back' => ~Runs(i))
      BY <2>3 DEF Leaves
    <3>5. Runs(i)' = Runs(i)
      BY <1>t, <2>1, <2>3 DEF Leaves, Runs
    <3> QED
      BY <2>1, <3>1, <3>2, <3>3, <3>4, <3>5
  <2> QED
    BY <1>6, <2>2, <2>3, PassLeaves
<1>7. ASSUME NEW q \in Pool, Scale(q)
      PROVE  LeavingIsDown' /\ OneDecommissionAtATime'
  BY <1>7 DEF Scale, Runs
<1>8. CASE Tick \/ Restart \/ UNCHANGED vars
  BY <1>8 DEF Tick, Restart, vars, kube, history, Runs
<1> QED
  BY <1>1, <1>2, <1>3, <1>4, <1>5, <1>6, <1>7, <1>8 DEF Next, Cluster

(* The decommissioner asks a second broker to leave only if the first, not   *)
(* gone yet, was running again after it had been asked: from the order of    *)
(* status query, mark and request, for any number of StatefulSets whose      *)
(* passes interleave and any number of lost answers.                         *)
THEOREM DecommissionsAreSequential == Spec => []OneDecommissionAtATime
<1> DEFINE Inv == TypeOK /\ LeavingIsDown /\ OneDecommissionAtATime
<1>1. Init => Inv
  BY InitTypes, LeavingInit
<1>2. Inv /\ [Next]_vars => Inv'
  BY NextTypes, LeavingStep
<1> QED
  BY <1>1, <1>2, PTL DEF Spec

-----------------------------------------------------------------------------
(* The next node_id is new, and giving it out keeps node_ids in order.       *)
LEMMA NextIdIsNew ==
    ASSUME TypeOK, Numbered
    PROVE  /\ NextId \notin Known /\ NextId = Cardinality(Known) + 1
           /\ Cardinality(Known) \in Nat /\ IsFiniteSet(Known)
<1>1. IsFiniteSet(Id)
  BY DecommissionerAssumption, FS_Interval DEF Id
<1>2. IsFiniteSet(Known) /\ Cardinality(Known) \in Nat
  BY <1>1, FS_Subset, FS_CardinalityType DEF Known
<1>3. NextId = Cardinality(Known) + 1
  BY DEF NextId, Known
<1> QED
  BY <1>2, <1>3 DEF Numbered

LEMMA JoiningIsNumbered ==
    ASSUME TypeOK, Numbered, NEW p \in Pod, Joins(p)
    PROVE  Known' = Known \cup {NextId} /\ Numbered'
<1>1. /\ NextId \notin Known /\ NextId = Cardinality(Known) + 1
      /\ Cardinality(Known) \in Nat /\ IsFiniteSet(Known)
  BY NextIdIsNew
<1>2. Known' = Known \cup {NextId}
  BY DEF Joins, Known, TypeOK
<1>4. Cardinality(Known') = Cardinality(Known) + 1
  BY <1>1, <1>2, FS_AddElement
<1>5. Known' = 1 .. Cardinality(Known) + 1
  BY <1>1, <1>2 DEF Numbered
<1> QED
  BY <1>2, <1>4, <1>5 DEF Numbered

(* A step that names no new broker, moves no broker to another pod, and      *)
(* gives no broker its disk back.                                            *)
SameBrokers ==
    /\ Known' = Known
    /\ \A i \in Known : member'[i].pod = member[i].pod
    /\ \A i \in Known : Current(i)' => Current(i)

LEMMA SameBrokersSteps ==
    ASSUME TypeOK
    PROVE  /\ \A p \in Pod : StsCreates(p) \/ StsDeletes(p) \/ PodLost(p) \/ ClaimGone(p) \/ Starts(p)
                             => SameBrokers /\ UNCHANGED <<replicas, seen, ids, since>>
           /\ \A i \in Id : Drained(i) => SameBrokers /\ UNCHANGED <<replicas, seen, ids, since>>
           /\ \A q \in Pool : Reconcile(q) => SameBrokers /\ UNCHANGED <<replicas, seen, since>>
<1>t. /\ member \in [Id -> [pod: Pod, st: {"none", "active", "draining", "gone"}]]
      /\ claim \in [Pod -> [disk: -1 .. MaxId, del: BOOLEAN]]
  BY DEF TypeOK
<1>n. \A i \in Id : i # 0 /\ i # -1
  BY DecommissionerAssumption DEF Id
<1>1. ASSUME NEW p \in Pod, StsCreates(p) \/ StsDeletes(p) \/ PodLost(p) \/ ClaimGone(p) \/ Starts(p)
      PROVE  SameBrokers /\ UNCHANGED <<replicas, seen, ids, since>>
  <2>1. UNCHANGED <<replicas, member, seen, ids, since>>
    BY <1>1 DEF StsCreates, StsDeletes, PodLost, ClaimGone, Starts, marks, history
  <2>2. claim' = claim \/ \E c \in {NoClaim, [disk |-> 0, del |-> FALSE]} : claim' = [claim EXCEPT ![p] = c]
    <3>1. CASE StsCreates(p)
      BY <1>t, <3>1 DEF StsCreates
    <3>2. CASE StsDeletes(p) \/ Starts(p)
      BY <3>2 DEF StsDeletes, Starts
    <3>3. CASE PodLost(p)
      BY <1>t, <3>3 DEF PodLost
    <3>4. CASE ClaimGone(p)
      BY <1>t, <3>4 DEF ClaimGone
    <3> QED
      BY <1>1, <3>1, <3>2, <3>3, <3>4
  <2>3. \A i \in Id : Current(i)' => Current(i)
    BY <1>t, <1>n, <2>1, <2>2 DEF Current, NoClaim
  <2> QED
    BY <2>1, <2>3 DEF SameBrokers, Known
<1>2. ASSUME NEW i \in Id, Drained(i)
      PROVE  SameBrokers /\ UNCHANGED <<replicas, seen, ids, since>>
  BY <1>2, <1>t DEF Drained, kube, marks, history, SameBrokers, Known, Current
<1>3. ASSUME NEW q \in Pool, Reconcile(q)
      PROVE  SameBrokers /\ UNCHANGED <<replicas, seen, since>>
  <2>1. /\ UNCHANGED <<replicas, seen, since>>
        /\ \A p \in Pod : claim'[p].disk = claim[p].disk /\ (claim[p].del => claim'[p].del)
    BY <1>3, PassKeeps
  <2>2. claim' \in [Pod -> [disk: -1 .. MaxId, del: BOOLEAN]]
    BY <1>3, ReconcileTypes DEF TypeOK
  <2>3. \A i \in Id : /\ member'[i].pod = member[i].pod
                      /\ member'[i].st # "none" <=> member[i].st # "none"
    <3>1. CASE UNCHANGED <<member, back>>
      BY <3>1
    <3>2. ASSUME NEW i \in Ripe(MarkedIds(q)), i \in Id, Leaves(i)
          PROVE  \A j \in Id : /\ member'[j].pod = member[j].pod
                               /\ member'[j].st # "none" <=> member[j].st # "none"
      <4>1. member[i].st = "active"
        BY RipeIsFound DEF BrokersToDecommission
      <4> QED
        BY <1>t, <3>2, <4>1 DEF Leaves
    <3> QED
      BY <1>3, <3>1, <3>2, PassLeaves
  <2>4. \A i \in Id : Current(i)' => Current(i)
    BY <1>t, <2>1, <2>2, <2>3 DEF Current
  <2> QED
    BY <2>1, <2>3, <2>4 DEF SameBrokers, Known
<1> QED
  BY <1>1, <1>2, <1>3

LEMMA SameBrokersKeep ==
    ASSUME TypeOK, WantedInv, SameBrokers, UNCHANGED <<replicas, seen, since>>
    PROVE  /\ Numbered' /\ ReportKnown' /\ SinceWanted'
           /\ \A i \in since : Cleared(i) => Cleared(i)'
<1>1. \A i \in Known : member'[i].pod = member[i].pod
  BY DEF SameBrokers
<1>2. Known' = Known
  BY DEF SameBrokers
<1>3. Numbered' /\ ReportKnown'
  BY <1>2 DEF WantedInv, Numbered, ReportKnown
<1>4. SinceWanted'
  BY <1>1, <1>2 DEF WantedInv, SinceWanted, Wanted
<1>5. ASSUME NEW i \in since, Cleared(i) PROVE Cleared(i)'
  <2>1. i \in Known /\ seen.health.all \subseteq Known
    BY DEF WantedInv, SinceWanted, ReportKnown
  <2> QED
    BY <1>1, <1>5, <2>1 DEF Cleared
<1> QED
  BY <1>3, <1>4, <1>5

(* What a pass may do to the marks of brokers.                               *)
LEMMA PassMarks ==
    ASSUME TypeOK, NEW q \in Pool, Reconcile(q), NEW r \in Pool, NEW i \in Id
    PROVE  \/ ids'[r][i] = ids[r][i]
           \/ ids'[r][i] = NoMark
           \/ i \in BrokersToDecommission(r) /\ ids'[r][i] = Mark(ids[r][i])
<1>1. ids \in [Pool -> [Id -> CacheMarks]] /\ MarkedIds(q) \in [Id -> CacheMarks]
  BY MarkedTypes DEF TypeOK
<1>2. MarkedIds(q)[i] = NoMark \/ (i \in BrokersToDecommission(q) /\ MarkedIds(q)[i] = Mark(ids[q][i]))
  BY <1>1 DEF MarkedIds, FilterAndMark
<1>3. \/ ids' = ids
      \/ ids' = [ids EXCEPT ![q] = [j \in Id |-> NoMark]]
      \/ ids' = [ids EXCEPT ![q] = MarkedIds(q)]
      \/ \E j \in Id : ids' = [ids EXCEPT ![q] = [MarkedIds(q) EXCEPT ![j] = NoMark]]
  <2>1. CASE DecommissionBroker(q)
    BY <2>1, RipeIsMember DEF DecommissionBroker
  <2>2. CASE ~DecommissionBroker(q)
    BY <2>2 DEF Reconcile, DeleteClaim, DeleteOrAdminFails, BrokerLookupFails, CleanBrokerCache, MarkBrokers
  <2> QED
    BY <2>1, <2>2
<1> QED
  BY <1>1, <1>2, <1>3

LEMMA WantedInit ==
    ASSUME Init
    PROVE  WantedInv
<1>1. PICK n \in 0 .. MaxId : \E at \in [1 .. n -> Pod] :
         /\ member = [i \in Id |-> IF i =< n THEN [pod |-> at[i], st |-> "active"] ELSE NoMember]
         /\ since = 1 .. n /\ \A i \in 1 .. n : Wanted(at[i])
  BY InitialNumbering
<1>2. PICK at \in [1 .. n -> Pod] :
         /\ member = [i \in Id |-> IF i =< n THEN [pod |-> at[i], st |-> "active"] ELSE NoMember]
         /\ since = 1 .. n /\ \A i \in 1 .. n : Wanted(at[i])
  BY <1>1
<1>3. Known = 1 .. n
  BY <1>2, DecommissionerAssumption DEF Known, Id, NoMember
<1>4. Cardinality(Known) = n
  BY <1>3, FS_Interval
<1>5. Members \subseteq Known /\ seen = Live
  BY DEF Members, Known, Init
<1>6. ReportKnown
  BY <1>5 DEF ReportKnown, Live
<1>7. \A q \in Pool : \A i \in Id : ids[q][i] = NoMark
  BY DEF Init
<1>8. SinceWanted
  BY <1>2, <1>3, DecommissionerAssumption DEF SinceWanted, Id
<1>9. since \subseteq Id
  BY InitTypes DEF TypeOK
<1> QED
  BY <1>3, <1>4, <1>6, <1>7, <1>8, <1>9 DEF WantedInv, Numbered, MarksKnown, WantedIsCleared

LEMMA WantedStep ==
    ASSUME TypeOK, WantedInv, [Next]_vars
    PROVE  WantedInv'
<1>t. /\ member \in [Id -> [pod: Pod, st: {"none", "active", "draining", "gone"}]]
      /\ claim \in [Pod -> [disk: -1 .. MaxId, del: BOOLEAN]]
      /\ replicas \in [Pool -> Nat] /\ since \subseteq Id
      /\ ids \in [Pool -> [Id -> CacheMarks]]
  BY DEF TypeOK
<1>i. Numbered /\ ReportKnown /\ MarksKnown /\ SinceWanted /\ WantedIsCleared
  BY DEF WantedInv
<1>s. since \subseteq Known
  BY <1>i DEF SinceWanted
<1>1. ASSUME SameBrokers, UNCHANGED <<replicas, seen, ids, since>> PROVE WantedInv'
  <2>1. /\ Numbered' /\ ReportKnown' /\ SinceWanted'
        /\ \A i \in since : Cleared(i) => Cleared(i)'
    BY <1>1, SameBrokersKeep
  <2>2. MarksKnown'
    BY <1>1, <1>i DEF MarksKnown, SameBrokers
  <2>3. WantedIsCleared'
    BY <1>1, <1>i, <1>s, <2>1 DEF WantedIsCleared, SameBrokers
  <2> QED
    BY <2>1, <2>2, <2>3 DEF WantedInv
<1>2. ASSUME NEW q \in Pool, Reconcile(q) PROVE WantedInv'
  <2>1. SameBrokers /\ UNCHANGED <<replicas, seen, since>>
    BY <1>2, SameBrokersSteps
  <2>2. /\ Numbered' /\ ReportKnown' /\ SinceWanted'
        /\ \A i \in since : Cleared(i) => Cleared(i)'
    BY <2>1, SameBrokersKeep
  <2>3. ASSUME NEW r \in Pool, NEW i \in Id, ids'[r][i] # NoMark PROVE i \in Known
    <3>1. CASE ids'[r][i] = ids[r][i]
      BY <1>i, <2>3, <3>1 DEF MarksKnown
    <3>2. CASE i \in BrokersToDecommission(r)
      BY <3>2 DEF BrokersToDecommission, Known
    <3> QED
      BY <1>2, <2>3, <3>1, <3>2, PassMarks
  <2>4. MarksKnown'
    BY <2>1, <2>3 DEF MarksKnown, SameBrokers
  <2>5. WantedIsCleared'
    <3> SUFFICES ASSUME NEW i \in since, Current(i)', ~Cleared(i)', NEW r \in Pool
                 PROVE  ids'[r][i] \in {NoMark, NewMark}
      BY <2>1 DEF WantedIsCleared
    <3>1. i \in Id /\ Current(i) /\ ~Cleared(i)
      BY <1>s, <2>1, <2>2 DEF SameBrokers, Known
    <3>2. ids[r][i] \in {NoMark, NewMark} /\ ids[r][i] \in CacheMarks
      BY <1>i, <1>t, <3>1 DEF WantedIsCleared
    <3>3. Mark(ids[r][i]) = NewMark
      BY <3>2, MarkTypes
    <3> QED
      BY <1>2, <3>1, <3>2, <3>3, PassMarks
  <2> QED
    BY <2>2, <2>4, <2>5 DEF WantedInv
<1>3. ASSUME NEW p \in Pod, Joins(p) PROVE WantedInv'
  <2>1. /\ NextId \notin Known /\ NextId \in Id
        /\ Known' = Known \cup {NextId} /\ Numbered'
    BY <1>3, <1>i, NextIdIsNew, JoiningIsNumbered DEF Joins
  <2>2. /\ UNCHANGED <<replicas, seen, ids>>
        /\ member' = [member EXCEPT ![NextId] = [pod |-> p, st |-> "active"]]
        /\ claim' = [claim EXCEPT ![p].disk = NextId]
        /\ since' = IF Wanted(p) THEN since \cup {NextId} ELSE since
    BY <1>3 DEF Joins, marks
  <2> HIDE DEF NextId
  <2>3. \A i \in Known : member'[i] = member[i]
    BY <1>t, <2>1, <2>2 DEF Known
  <2>4. member'[NextId].pod = p
    BY <1>t, <2>1, <2>2
  <2>5. ReportKnown' /\ MarksKnown'
    BY <1>i, <2>1, <2>2 DEF ReportKnown, MarksKnown
  <2>6. SinceWanted'
    BY <1>i, <2>1, <2>2, <2>3, <2>4 DEF SinceWanted, Wanted
  <2>7. ASSUME NEW i \in since, Current(i)'
        PROVE  Current(i) /\ (Cleared(i) => Cleared(i)')
    <3>1. i \in Known /\ i # NextId /\ member[i].pod \in Pod
      BY <1>s, <1>t, <2>1 DEF Known
    <3>2. Current(i)
      BY <1>t, <2>2, <2>3, <2>7, <3>1 DEF Current
    <3>3. Cleared(i) => Cleared(i)'
      BY <1>i, <2>2, <2>3, <3>1 DEF Cleared, ReportKnown
    <3> QED
      BY <3>2, <3>3
  <2>8. \A q \in Pool : ids'[q][NextId] = NoMark
    BY <1>i, <2>1, <2>2 DEF MarksKnown
  <2>9. WantedIsCleared'
    BY <1>i, <2>2, <2>7, <2>8 DEF WantedIsCleared
  <2> QED
    BY <2>1, <2>5, <2>6, <2>9 DEF WantedInv
<1>4. ASSUME NEW q \in Pool, Scale(q) PROVE WantedInv'
  <2>1. /\ UNCHANGED <<member, seen, ids, claim>> /\ since' \subseteq since
        /\ \A i \in since' : Wanted(member[i].pod)'
    BY <1>4 DEF Scale, marks, Wanted
  <2>2. Known' = Known
    BY <2>1 DEF Known
  <2> QED
    BY <1>i, <2>1, <2>2
    DEF WantedInv, Numbered, ReportKnown, MarksKnown, SinceWanted, WantedIsCleared, Cleared, Current
<1>5. ASSUME NEW s \in Sources, Sync(s) PROVE WantedInv'
  <2>1. UNCHANGED <<replicas, member, claim, ids, since>>
    BY <1>5 DEF Sync, kube, marks, history
  <2>2. /\ seen'.health = seen.health \/ seen'.health = Live.health
        /\ seen'.sets = seen.sets \/ seen'.sets = replicas
    <3>1. seen'.health = seen.health \/ seen'.health = Live.health
      BY <1>5, LiveTypes DEF Sync, Sources, TypeOK, Views
    <3>2. seen'.sets = seen.sets \/ seen'.sets = Live.sets
      BY <1>5, LiveTypes DEF Sync, Sources, TypeOK, Views
    <3>3. Live.sets = replicas
      BY DEF Live
    <3> QED
      BY <3>1, <3>2, <3>3
  <2>3. Live.health.all \subseteq Known /\ Live.health.down \subseteq Live.health.all
    BY DEF Live, Members, Known
  <2>4. Known' = Known
    BY <2>1 DEF Known
  <2>5. ReportKnown'
    BY <1>i, <2>2, <2>3, <2>4 DEF ReportKnown
  <2>6. ASSUME NEW i \in since, Current(i), Cleared(i) PROVE Cleared(i)'
    <3>1. member[i].pod[2] < replicas[member[i].pod[1]]
      BY <1>i DEF SinceWanted, Wanted
    <3>2. \A j \in Live.health.all \ Live.health.down : j # i => member[j].pod # member[i].pod
      BY <2>6 DEF Live, Runs, Current
    <3> QED
      BY <2>1, <2>2, <2>6, <3>1, <3>2 DEF Cleared
  <2> QED
    BY <1>i, <2>1, <2>4, <2>5, <2>6
    DEF WantedInv, Numbered, MarksKnown, SinceWanted, Wanted, WantedIsCleared, Current
<1>6. CASE Tick
  <2>1. UNCHANGED <<replicas, member, claim, seen, since>> /\ seen = Live
    BY <1>6 DEF Tick, kube
  <2>2. Known' = Known
    BY <2>1 DEF Known
  <2>3. \A q \in Pool : \A i \in Id : ids[q][i] = NoMark => ids'[q][i] = NoMark
    BY <1>6, <1>t, NoMarkTypes DEF Tick, Older
  <2>4. ASSUME NEW i \in since, Current(i) PROVE Cleared(i)
    <3>1. member[i].pod[2] < replicas[member[i].pod[1]]
      BY <1>i DEF SinceWanted, Wanted
    <3>2. \A j \in Live.health.all \ Live.health.down : j # i => member[j].pod # member[i].pod
      BY <2>4 DEF Live, Runs, Current
    <3> QED
      BY <2>1, <3>1, <3>2 DEF Cleared, Live
  <2>5. WantedIsCleared'
    BY <2>1, <2>4 DEF WantedIsCleared, Cleared, Current
  <2> QED
    BY <1>i, <2>1, <2>2, <2>3, <2>5 DEF WantedInv, Numbered, ReportKnown, MarksKnown, SinceWanted, Wanted
<1>7. CASE Restart
  <2>1. UNCHANGED <<replicas, member, claim, seen, since>> /\ \A q \in Pool : \A i \in Id : ids'[q][i] = NoMark
    BY <1>7 DEF Restart, kube, history
  <2>2. Known' = Known
    BY <2>1 DEF Known
  <2> QED
    BY <1>i, <1>t, <2>1, <2>2
    DEF WantedInv, Numbered, ReportKnown, MarksKnown, SinceWanted, Wanted, WantedIsCleared
<1>8. CASE UNCHANGED vars
  BY <1>1, <1>8 DEF vars, kube, history, marks, SameBrokers, Known, Current
<1> QED
  BY <1>1, <1>2, <1>3, <1>4, <1>5, <1>6, <1>7, <1>8, SameBrokersSteps DEF Next, Cluster

(* A broker with its disk and its place is never asked to leave.             *)
LEMMA WantedIsNotDue ==
    ASSUME TypeOK, WantedInv, NEW q \in Pool, NEW i \in since, Current(i)
    PROVE  i \notin Ripe(MarkedIds(q))
<1> SUFFICES ASSUME i \in Ripe(MarkedIds(q)) PROVE FALSE
  OBVIOUS
<1>1. i \in BrokersToDecommission(q) /\ Mark(ids[q][i]).count >= DelayedMaxCacheCount
  BY RipeIsFound
<1>2. CASE Cleared(i)
  <2>1. ~TooHighOrdinal(q, i)
    <3>1. i \in Id /\ member[i].pod \in Pod /\ seen.sets \in [Pool -> Nat]
      BY DEF TypeOK
    <3>2. member[i].pod[2] \in Nat
      BY <3>1, DecommissionerAssumption
    <3> QED
      BY <1>2, <3>1, <3>2 DEF Cleared, TooHighOrdinal
  <2>2. ~HasHealthyBroker(i)
    BY <1>2 DEF Cleared, HasHealthyBroker
  <2> QED
    BY <1>1, <2>1, <2>2 DEF BrokersToDecommission
<1>3. CASE ids[q][i] \in {NoMark, NewMark}
  <2>1. ids[q][i] \in CacheMarks
    BY DEF TypeOK
  <2>2. Mark(ids[q][i]) = NewMark
    BY <1>3, <2>1, MarkTypes
  <2> QED
    BY <1>1, <2>2 DEF NewMark, DelayedMaxCacheCount
<1> QED
  BY <1>2, <1>3 DEF WantedInv, WantedIsCleared

LEMMA WantedIsNotAsked ==
    ASSUME TypeOK, WantedInv, [Next]_vars,
           NEW i \in since, Current(i), member[i].st = "active"
    PROVE  member'[i].st # "draining"
<1>t. member \in [Id -> [pod: Pod, st: {"none", "active", "draining", "gone"}]] /\ i \in Id
  BY DEF TypeOK
<1>1. ASSUME NEW q \in Pool, Reconcile(q) PROVE member'[i].st # "draining"
  <2>1. ASSUME NEW j \in Ripe(MarkedIds(q)), Leaves(j) PROVE member'[i].st # "draining"
    BY <1>t, <2>1, WantedIsNotDue DEF Leaves
  <2> QED
    BY <1>1, <2>1, PassLeaves
<1>2. ASSUME NEW p \in Pod, Joins(p) PROVE member'[i].st # "draining"
  BY <1>t, <1>2 DEF Joins
<1>3. ASSUME NEW j \in Id, Drained(j) PROVE member'[i].st # "draining"
  BY <1>t, <1>3 DEF Drained
<1>4. CASE UNCHANGED member
  BY <1>4
<1> QED
  BY <1>1, <1>2, <1>3, <1>4
  DEF Next, Cluster, vars, StsCreates, StsDeletes, Starts, ClaimGone, Scale, PodLost, Sync, Tick, Restart

(* A broker that has its disk, and whose pod was wanted ever since it        *)
(* joined, is not decommissioned, whatever the informers and the health      *)
(* report showed meanwhile: a mark made while they were behind is never old  *)
(* enough, and once they have caught up no pass finds it superfluous.        *)
THEOREM WantedBrokersStay == Spec => WantedBrokerKept
<1> DEFINE Inv == TypeOK /\ WantedInv
           A   == \A i \in since : Current(i) => ~(member[i].st = "active" /\ member'[i].st = "draining")
<1>1. Init => Inv
  BY InitTypes, WantedInit
<1>2. Inv /\ [Next]_vars => Inv'
  BY NextTypes, WantedStep
<1>3. Inv /\ [Next]_vars => [A]_vars
  BY WantedIsNotAsked
<1> QED
  BY <1>1, <1>2, <1>3, PTL DEF Spec, WantedBrokerKept

-----------------------------------------------------------------------------
LEMMA UsedInit ==
    ASSUME Init
    PROVE  UsedInv
<1>1. seen = Live /\ held = seen.claims /\ bare = Pod \ seen.pods /\ vol = [p \in Pod |-> NoMark]
  BY DEF Init
<1>2. Live.claims = {p \in Pod : HasClaim(p)} /\ Live.pods = {p \in Pod : pod[p] # "none"}
  BY DEF Live
<1> QED
  BY <1>1, <1>2 DEF UsedInv, ViewsAreRecent, MarkedIsIdle

(* What a pass may do to the mark of a claim.                                *)
LEMMA PassVolumeMark ==
    ASSUME TypeOK, NEW q \in Pool, NEW p \in Pod
    PROVE  \/ /\ p[1] # q \/ ~mode.cleanup
              /\ MarkedVolumes(q)[p] = vol[p]
           \/ MarkedVolumes(q)[p] = NoMark
           \/ /\ mode.cleanup /\ p[1] = q /\ p \in seen.claims \ seen.pods
              /\ MarkedVolumes(q)[p] = Mark(vol[p])
<1>1. vol \in [Pod -> CacheMarks]
  BY DEF TypeOK
<1> QED
  BY <1>1 DEF MarkedVolumes, FilterAndMark, FindUnboundVolumeClaims

(* A claim that is due was without its pod for the interval.                 *)
LEMMA DueIsIdle ==
    ASSUME TypeOK, UsedInv, NEW q \in Pool, NEW p \in RipeVolumes(q)
    PROVE  p \in Pod /\ p \in held \cap bare /\ idle[p] = Interval
<1>1. p \in Pod /\ p[1] = q /\ MarkedVolumes(q)[p].count >= DelayedMaxCacheCount
  BY MarkedTypes DEF RipeVolumes, Ripe
<1>2. vol[p] \in CacheMarks /\ idle[p] \in 0 .. Interval
  BY <1>1 DEF TypeOK
<1>3. MarkedVolumes(q)[p] # NoMark
  BY <1>1, NoMarkTypes DEF DelayedMaxCacheCount
<1>4. CASE mode.cleanup /\ p \in seen.claims \ seen.pods /\ MarkedVolumes(q)[p] = Mark(vol[p])
  <2>1. p \in held \cap bare
    BY <1>1, <1>4 DEF UsedInv, ViewsAreRecent
  <2>2. vol[p].count >= DelayedMaxCacheCount \/ (vol[p].count >= 1 /\ vol[p].age = Interval)
    BY <1>1, <1>2, <1>4, MarkTypes
  <2>3. vol[p] # NoMark
    BY <2>2, NoMarkTypes DEF DelayedMaxCacheCount
  <2>4. vol[p].age =< idle[p] /\ (vol[p].count >= DelayedMaxCacheCount => idle[p] = Interval)
    BY <1>1, <2>3 DEF UsedInv, MarkedIsIdle
  <2>5. idle[p] = Interval
    BY <1>2, <2>2, <2>4 DEF Interval
  <2> QED
    BY <1>1, <2>1, <2>5
<1>5. CASE ~mode.cleanup /\ MarkedVolumes(q)[p] = vol[p]
  BY <1>1, <1>3, <1>5 DEF UsedInv, MarkedIsIdle
<1> QED
  BY <1>1, <1>3, <1>4, <1>5, PassVolumeMark

LEMMA UsedStep ==
    ASSUME TypeOK, UsedInv, [Next]_vars
    PROVE  UsedInv'
<1>t. /\ claim \in [Pod -> [disk: -1 .. MaxId, del: BOOLEAN]]
      /\ pod \in [Pod -> {"none", "starting", "up"}]
      /\ vol \in [Pod -> CacheMarks] /\ idle \in [Pod -> 0 .. Interval]
  BY DEF TypeOK
<1>i. ViewsAreRecent /\ MarkedIsIdle
  BY DEF UsedInv
<1>1. ASSUME NEW p \in Pod, StsCreates(p) \/ StsDeletes(p) \/ PodLost(p) \/ ClaimGone(p) \/ Joins(p) \/ Starts(p)
      PROVE  UsedInv'
  <2>1. /\ UNCHANGED <<mode, seen, vol, ran, idle>>
        /\ held \subseteq held' /\ bare \subseteq bare'
    BY <1>1 DEF StsCreates, StsDeletes, PodLost, ClaimGone, Joins, Starts, history, usage, marks
  <2>2. \A r \in Pod : HasClaim(r)' => r \in held'
    <3>1. CASE StsCreates(p)
      BY <1>i, <1>t, <3>1 DEF StsCreates, ViewsAreRecent, HasClaim
    <3>2. CASE StsDeletes(p) \/ Starts(p)
      BY <1>i, <2>1, <3>2 DEF StsDeletes, Starts, ViewsAreRecent, HasClaim
    <3>3. CASE PodLost(p)
      BY <1>i, <1>t, <3>3 DEF PodLost, ViewsAreRecent, HasClaim
    <3>4. CASE ClaimGone(p)
      BY <1>i, <1>t, <2>1, <3>4 DEF ClaimGone, ViewsAreRecent, HasClaim
    <3>5. CASE Joins(p)
      <4>1. claim[p] # NoClaim
        BY <3>5 DEF Joins, NoClaim
      <4>2. \A r \in Pod : claim'[r].del = claim[r].del /\ (r # p => claim'[r] = claim[r])
        BY <1>t, <3>5 DEF Joins
      <4> QED
        BY <1>i, <2>1, <4>1, <4>2 DEF ViewsAreRecent, HasClaim
    <3> QED
      BY <1>1, <3>1, <3>2, <3>3, <3>4, <3>5
  <2>3. \A r \in Pod : pod'[r] = "none" => r \in bare'
    BY <1>1, <1>i, <1>t, <2>1
    DEF StsCreates, StsDeletes, PodLost, ClaimGone, Joins, Starts, ViewsAreRecent
  <2> QED
    BY <1>i, <2>1, <2>2, <2>3 DEF UsedInv, ViewsAreRecent, MarkedIsIdle
<1>2. ASSUME NEW q \in Pool, Reconcile(q) PROVE UsedInv'
  <2>1. /\ UNCHANGED <<mode, pod, seen, held, bare, idle>> /\ ran' = ran \cup {q}
        /\ \A p \in Pod : claim'[p].disk = claim[p].disk /\ (claim[p].del => claim'[p].del)
    BY <1>2, PassKeeps
  <2>2. claim' \in [Pod -> [disk: -1 .. MaxId, del: BOOLEAN]]
    BY <1>2, ReconcileTypes DEF TypeOK
  <2>3. \A p \in Pod : HasClaim(p)' => HasClaim(p)
    BY <1>t, <2>1, <2>2 DEF HasClaim, NoClaim
  <2>4. ViewsAreRecent'
    BY <1>i, <2>1, <2>3 DEF ViewsAreRecent
  <2>5. ASSUME NEW p \in Pod PROVE vol'[p] = NoMark \/ vol'[p] = MarkedVolumes(q)[p]
    <3>1. vol' = MarkedVolumes(q) \/ \E r \in Pod : vol' = [MarkedVolumes(q) EXCEPT ![r] = NoMark]
      <4>1. RipeVolumes(q) \subseteq Pod
        BY MarkedTypes DEF RipeVolumes, Ripe
      <4> QED
        BY <1>2, <4>1 DEF Reconcile, DeleteClaim, DeleteOrAdminFails, BrokerLookupFails, CleanBrokerCache,
                          MarkBrokers, DecommissionBroker, UpToBrokers
    <3> QED
      BY <3>1, MarkedTypes
  <2>6. ASSUME NEW p \in Pod, vol'[p] # NoMark
        PROVE  /\ mode'.cleanup
               /\ p[1] \in ran' => p \in held' \cap bare'
               /\ vol'[p].age =< idle'[p]
               /\ vol'[p].count >= DelayedMaxCacheCount => idle'[p] = Interval
    <3>1. vol'[p] = MarkedVolumes(q)[p]
      BY <2>5, <2>6
    <3>2. vol[p] \in CacheMarks /\ idle[p] \in 0 .. Interval
      BY <1>t
    <3>3. CASE (p[1] # q \/ ~mode.cleanup) /\ MarkedVolumes(q)[p] = vol[p]
      BY <1>i, <2>1, <2>6, <3>1, <3>3 DEF MarkedIsIdle
    <3>4. CASE /\ mode.cleanup /\ p[1] = q /\ p \in seen.claims \ seen.pods
               /\ MarkedVolumes(q)[p] = Mark(vol[p])
      <4>1. p \in held \cap bare
        BY <1>i, <3>4 DEF ViewsAreRecent
      <4>2. CASE vol[p] = NoMark
        <5>1. vol'[p] = NewMark
          BY <3>1, <3>2, <3>4, <4>2, MarkTypes
        <5> QED
          BY <2>1, <3>2, <3>4, <4>1, <5>1 DEF NewMark, DelayedMaxCacheCount, Interval
      <4>3. CASE vol[p] # NoMark
        <5>1. /\ vol'[p] \in CacheMarks /\ vol'[p].age =< vol[p].age
              /\ vol'[p].count >= DelayedMaxCacheCount
                 => vol[p].count >= DelayedMaxCacheCount \/ (vol[p].count >= 1 /\ vol[p].age = Interval)
          BY <3>1, <3>2, <3>4, MarkTypes
        <5>2. /\ vol[p].age =< idle[p]
              /\ vol[p].count >= DelayedMaxCacheCount => idle[p] = Interval
          BY <1>i, <4>3 DEF MarkedIsIdle
        <5>3. vol'[p].age \in Int /\ vol[p].age \in Int
          BY <3>2, <5>1 DEF CacheMarks, NoMark
        <5>4. vol'[p].age =< idle[p]
          BY <3>2, <5>1, <5>2, <5>3 DEF Interval
        <5>5. vol'[p].count >= DelayedMaxCacheCount => idle[p] = Interval
          BY <3>2, <5>1, <5>2, <5>3 DEF Interval
        <5> QED
          BY <2>1, <3>4, <4>1, <5>4, <5>5
      <4> QED
        BY <4>2, <4>3
    <3> QED
      BY <2>6, <3>1, <3>3, <3>4, PassVolumeMark
  <2> QED
    BY <2>4, <2>6 DEF UsedInv, MarkedIsIdle
<1>3. ASSUME NEW s \in Sources, Sync(s) PROVE UsedInv'
  <2>1. UNCHANGED <<mode, pod, claim, vol, ran, held, bare, idle>>
    BY <1>3 DEF Sync, kube, marks, history, usage
  <2>2. /\ seen'.claims = seen.claims \/ seen'.claims = {p \in Pod : HasClaim(p)}
        /\ seen'.pods = seen.pods \/ seen'.pods = {p \in Pod : pod[p] # "none"}
    <3>1. seen'.claims = seen.claims \/ seen'.claims = Live.claims
      BY <1>3, LiveTypes DEF Sync, Sources, TypeOK, Views
    <3>2. seen'.pods = seen.pods \/ seen'.pods = Live.pods
      BY <1>3, LiveTypes DEF Sync, Sources, TypeOK, Views
    <3> QED
      BY <3>1, <3>2 DEF Live
  <2> QED
    BY <1>i, <2>1, <2>2 DEF UsedInv, ViewsAreRecent, MarkedIsIdle, HasClaim
<1>4. CASE Tick
  <2>1. /\ UNCHANGED <<mode, pod, claim, seen>> /\ seen = Live
        /\ held' = seen.claims /\ bare' = Pod \ seen.pods /\ ran' = {}
        /\ vol' = Older(vol)
        /\ idle' = [p \in Pod |-> IF p \in held \cap bare THEN Min({idle[p] + 1, Interval}) ELSE 0]
    BY <1>4 DEF Tick, kube
  <2>2. ViewsAreRecent'
    BY <2>1 DEF ViewsAreRecent, Live, HasClaim
  <2>3. ASSUME NEW p \in Pod, vol'[p] # NoMark
        PROVE  /\ mode'.cleanup
               /\ vol'[p].age =< idle'[p]
               /\ vol'[p].count >= DelayedMaxCacheCount => idle'[p] = Interval
    <3>1. vol[p] \in CacheMarks /\ idle[p] \in 0 .. Interval
      BY <1>t
    <3>2. vol[p] # NoMark
      BY <1>t, <2>1, <2>3 DEF Older, NoMark
    <3>3. p[1] \in ran
      <4>1. p[1] \in Pool /\ p \in PodsOf(p[1])
        BY DEF Pool, PodsOf
      <4> QED
        BY <1>4, <3>2, <4>1 DEF Tick, Pending
    <3>4. /\ mode.cleanup /\ p \in held \cap bare /\ vol[p].age =< idle[p]
          /\ vol[p].count >= DelayedMaxCacheCount => idle[p] = Interval
      BY <1>i, <3>2, <3>3 DEF MarkedIsIdle
    <3>5. idle'[p] = IF idle[p] + 1 =< Interval THEN idle[p] + 1 ELSE Interval
      <4>1. idle'[p] = Min({idle[p] + 1, Interval})
        BY <2>1, <3>4
      <4>2. idle[p] + 1 \in Nat /\ Interval \in Nat
        BY <3>1 DEF Interval
      <4> QED
        BY <4>1, <4>2, MinOfTwo
    <3>6. vol'[p].count = vol[p].count /\ (vol'[p].age = vol[p].age \/ (vol[p].age < Interval /\ vol'[p].age = vol[p].age + 1))
      BY <2>1, <3>1, <1>t DEF Older, CacheMarks, NoMark
    <3>7. vol[p].age \in Int
      BY <3>1 DEF CacheMarks, NoMark
    <3> QED
      BY <2>1, <3>1, <3>4, <3>5, <3>6, <3>7 DEF Interval
  <2> QED
    BY <2>1, <2>2, <2>3 DEF UsedInv, MarkedIsIdle
<1>5. CASE Restart
  BY <1>5, <1>i DEF Restart, kube, history, usage, UsedInv, ViewsAreRecent, MarkedIsIdle, HasClaim
<1>6. ASSUME UNCHANGED <<mode, pod, claim, seen, vol, ran, held, bare, idle>> PROVE UsedInv'
  BY <1>6, <1>i DEF UsedInv, ViewsAreRecent, MarkedIsIdle, HasClaim
<1>7. ASSUME NEW q \in Pool, Scale(q) PROVE UsedInv'
  BY <1>6, <1>7 DEF Scale, marks, usage
<1>8. ASSUME NEW i \in Id, Drained(i) PROVE UsedInv'
  BY <1>6, <1>8 DEF Drained, kube, marks, history, usage
<1>9. CASE UNCHANGED vars
  BY <1>6, <1>9 DEF vars, kube, marks, history, usage
<1> QED
  BY <1>1, <1>2, <1>3, <1>4, <1>5, <1>7, <1>8, <1>9 DEF Next, Cluster

LEMMA DeletedIsIdle ==
    ASSUME TypeOK, UsedInv, [Next]_vars, NEW p \in Pod, claim'[p].del, ~claim[p].del
    PROVE  p \in held \cap bare /\ idle[p] = Interval
<1>t. claim \in [Pod -> [disk: -1 .. MaxId, del: BOOLEAN]]
  BY DEF TypeOK
<1>1. ASSUME NEW q \in Pool, Reconcile(q) PROVE p \in held \cap bare /\ idle[p] = Interval
  <2>1. \/ claim' = claim
        \/ \E r \in RipeVolumes(q) : claim' = [claim EXCEPT ![r].del = TRUE]
    BY <1>1 DEF Reconcile, DeleteClaim, DeleteOrAdminFails, BrokerLookupFails, CleanBrokerCache, MarkBrokers,
                DecommissionBroker, UpToBrokers
  <2>2. p \in RipeVolumes(q)
    BY <1>t, <2>1
  <2> QED
    BY <2>2, DueIsIdle
<1>2. ASSUME NEW r \in Pod, StsCreates(r) \/ PodLost(r) \/ ClaimGone(r) \/ Joins(r) PROVE FALSE
  <2>1. CASE StsCreates(r)
    BY <1>t, <2>1 DEF StsCreates
  <2>2. CASE PodLost(r)
    BY <1>t, <2>2 DEF PodLost, NoClaim
  <2>3. CASE ClaimGone(r)
    BY <1>t, <2>3 DEF ClaimGone, NoClaim
  <2>4. CASE Joins(r)
    BY <1>t, <2>4 DEF Joins
  <2> QED
    BY <1>2, <2>1, <2>2, <2>3, <2>4
<1>3. CASE UNCHANGED claim
  BY <1>3
<1> QED
  BY <1>1, <1>2, <1>3
  DEF Next, Cluster, vars, kube, StsDeletes, Starts, Drained, Scale, Sync, Tick, Restart

(* A claim is deleted only after its pod was missing at some moment of each  *)
(* tick for a whole interval, so not because informers were read at a bad    *)
(* time and not because of one lost pod, however many passes that brings.    *)
THEOREM DataInUseStays == Spec => UsedDataKept
<1> DEFINE Inv == TypeOK /\ UsedInv
           A   == \A p \in Pod : claim'[p].del /\ ~claim[p].del => p \in held \cap bare /\ idle[p] = Interval
<1>1. Init => Inv
  BY InitTypes, UsedInit
<1>2. Inv /\ [Next]_vars => Inv'
  BY NextTypes, UsedStep
<1>3. Inv /\ [Next]_vars => [A]_vars
  BY DeletedIsIdle
<1> QED
  BY <1>1, <1>2, <1>3, PTL DEF Spec, UsedDataKept
=============================================================================
