---------------------- MODULE BrokerIncarnationsProofs ----------------------
(***************************************************************************)
(* What the succession of Broker CRs at one network index promises, for any *)
(* number of CRs, node_ids, faults and deletions by hand: types, and that   *)
(* no tombstone is pinned to the running broker, whatever the cache's lag   *)
(* and however long Redpanda reports a dead node alive.                     *)
(***************************************************************************)
EXTENDS BrokerIncarnations, SequenceTheorems, FiniteSetTheorems, TLAPS

CRs == [CR -> Record]

-----------------------------------------------------------------------------
(* The API server: whatever its cache, a write is its new state.             *)
LEMMA LiveTypes ==
    ASSUME TypeOK
    PROVE  Live \in CRs /\ Cache \in CRs
  BY DEF TypeOK, Live, Cache, CRs

LEMMA PutEffect ==
    ASSUME TypeOK, NEW s \in CRs, Put(s)
    PROVE  /\ crs' \in Seq(CRs) /\ Len(crs') \in 1 .. MaxLag + 1
           /\ Live' = s
<1>0. crs \in Seq(CRs) /\ Len(crs) \in 1 .. MaxLag + 1 /\ MaxLag \in Nat
  BY LimitAssumption DEF TypeOK, CRs
<1>1. CASE s = Live
  BY <1>0, <1>1 DEF Put, Live
<1>2. ASSUME NEW t \in Seq(CRs), crs' = Append(t, s), Len(t) \in 0 .. MaxLag
      PROVE  crs' \in Seq(CRs) /\ Len(crs') \in 1 .. MaxLag + 1 /\ Live' = s
  <2>1. crs' \in Seq(CRs) /\ Len(crs') = Len(t) + 1 /\ crs'[Len(t) + 1] = s
    BY <1>2, AppendProperties, SMTT(60)
  <2> QED
    BY <1>0, <1>2, <2>1 DEF Live
<1>3. CASE s # Live /\ Len(crs) > MaxLag
  <2>1. crs # << >>
    BY <1>0, EmptySeq
  <2>2. Tail(crs) \in Seq(CRs) /\ Len(Tail(crs)) = Len(crs) - 1
    BY <1>0, <2>1, HeadTailProperties
  <2>3. crs' = Append(Tail(crs), s)
    BY <1>3 DEF Put
  <2>4. Len(Tail(crs)) \in 0 .. MaxLag
    BY <1>0, <2>2
  <2> QED
    BY <1>2, <2>2, <2>3, <2>4, ZenonT(60)
<1>4. CASE s # Live /\ ~(Len(crs) > MaxLag)
  <2>1. crs' = Append(crs, s)
    BY <1>4 DEF Put
  <2>2. Len(crs) \in 0 .. MaxLag
    BY <1>0, <1>4
  <2> QED
    BY <1>0, <1>2, <2>1, <2>2
<1> QED
  BY <1>1, <1>3, <1>4

-----------------------------------------------------------------------------
(* Node_ids.                                                                 *)
LEMMA MembersFinite == Members \subseteq Id /\ IsFiniteSet(Members)
<1>1. Members \subseteq 1 .. MaxId
  BY DEF Members, Id
<1>2. IsFiniteSet(1 .. MaxId)
  BY SizeAssumption, FS_Interval
<1> QED
  BY <1>1, <1>2, FS_Subset DEF Id

LEMMA SingletonMax ==
    ASSUME NEW S \in SUBSET Id, IsFiniteSet(S), Cardinality(S) = 1
    PROVE  Max(S) \in S
<1>1. PICK x : S = {x}
  BY FS_Singleton
<1>2. x \in Nat
  BY <1>1 DEF Id
<1> QED
  BY <1>1, <1>2 DEF Max

(* An address resolves to a member, if at all; a tombstone to its own        *)
(* node_id only.                                                             *)
LEMMA ResolveIsMember ==
    ASSUME NEW c \in Record
    PROVE  /\ ByAddress \in Members \cup {0}
           /\ ResolveBroker(c) \in Members \cup {0}
           /\ c.lost => ResolveBroker(c) \in {c.id, 0}
           /\ Target(c) \in Members \cup {c.id, 0}
           /\ c.id # 0 => Target(c) = c.id
           /\ c.lost => Target(c) \in {c.id, 0}
<1> DEFINE A == {d \in Members : ActiveAndAlive(d)}
<1>1. A \in SUBSET Id /\ IsFiniteSet(A) /\ Members \in SUBSET Id
  BY MembersFinite, FS_Subset
<1>2. ByAddress \in Members \cup {0}
  <2>1. CASE Cardinality(Members) = 1
    BY <1>1, <2>1, MembersFinite, SingletonMax DEF ByAddress
  <2>2. CASE Cardinality(Members) # 1 /\ Cardinality(A) = 1
    BY <1>1, <2>2, SingletonMax DEF ByAddress
  <2>3. CASE Cardinality(Members) # 1 /\ Cardinality(A) # 1
    BY <2>3 DEF ByAddress
  <2> QED
    BY <2>1, <2>2, <2>3
<1>3. ResolveBroker(c) \in Members \cup {0} /\ (c.lost => ResolveBroker(c) \in {c.id, 0})
  BY <1>2 DEF ResolveBroker
<1> QED
  BY <1>2, <1>3 DEF Target

-----------------------------------------------------------------------------
(* A Broker pass ends in at most one write, of its own CR.                   *)
LEMMA EndPassEffect ==
    ASSUME TypeOK, NEW i \in CR, NEW c \in Record, EndPass(i, c)
    PROVE  /\ crs' \in Seq(CRs) /\ Len(crs') \in 1 .. MaxLag + 1
           /\ seen' = [seen EXCEPT ![i] = Absent]
           /\ seen' \in CRs
           /\ known' \in SUBSET Id
           /\ UNCHANGED <<desired, bounds>>
           /\ \A j \in CR : Live'[j] = IF j = i /\ Live[i] = seen[i] THEN c ELSE Live[j]
<1>0. Live \in CRs /\ seen \in CRs /\ known \subseteq Id
  BY LiveTypes DEF TypeOK, CRs
<1> DEFINE s == IF Live[i] = seen[i] THEN [Live EXCEPT ![i] = c] ELSE Live
<1>1. s \in CRs /\ \A j \in CR : s[j] = IF j = i /\ Live[i] = seen[i] THEN c ELSE Live[j]
  BY <1>0 DEF CRs
<1>2. Put(s)
  BY DEF EndPass
<1> HIDE DEF s
<1>3. /\ crs' \in Seq(CRs) /\ Len(crs') \in 1 .. MaxLag + 1 /\ Live' = s
  BY <1>1, <1>2, PutEffect
<1>4. Absent \in Record
  BY SizeAssumption DEF Absent, Record
<1>5. seen' = [seen EXCEPT ![i] = Absent] /\ seen' \in CRs
  BY <1>0, <1>4 DEF EndPass, CRs
<1>6. c.id # 0 => c.id \in Id
  BY DEF Record, Id
<1>7. known' \in SUBSET Id
  BY <1>0, <1>6 DEF EndPass
<1> QED
  BY <1>1, <1>3, <1>5, <1>7 DEF EndPass

-----------------------------------------------------------------------------
(* What a Broker pass may do to the record it writes, to the pod, to the     *)
(* claim and to the membership.                                              *)
RecordStep(i, c) ==
    /\ c.id \in {seen[i].id, 0} \/ (~seen[i].lost /\ c.id \in Members)
    /\ seen[i].lost => c.lost
    /\ c.lost /\ ~seen[i].lost => LostDisk(i) /\ c.id = seen[i].id
PodStep ==
    /\ pod' \in Pod
    /\ pod'.st = pod.st \/ (pod.st = "none" /\ pod'.st = "pending")
ClaimStep ==
    /\ pvc' \in Claim
    /\ \/ /\ pvc'.data = pvc.data /\ pvc'.node = pvc.node
          /\ pvc'.st = "none" <=> pvc.st = "none"
       \/ pvc.st = "none" /\ pvc' = Blank
MemberStep ==
    /\ member' \in [Id -> {"none", "active", "draining", "removed"}]
    /\ \A d \in Id : member'[d] = "none" <=> member[d] = "none"
    /\ believed' = believed
PassStep(i) ==
    /\ \E c \in Record : EndPass(i, c) /\ RecordStep(i, c)
    /\ PodStep /\ ClaimStep /\ MemberStep

LEMMA PodTypes ==
    ASSUME TypeOK, NEW i \in CR
    PROVE  /\ DeletePod \in Pod /\ DeletePod.st = pod.st
           /\ PodAfter(i) \in Pod /\ PodAfter(i).st = pod.st
           /\ StripPodOwnerRef(i) \in Pod /\ StripPodOwnerRef(i).st = pod.st
<1>1. pod \in Pod
  BY DEF TypeOK
<1>2. DeletePod \in Pod /\ DeletePod.st = pod.st
  BY <1>1 DEF DeletePod, Pod
<1>3. StripPodOwnerRef(i) \in Pod /\ StripPodOwnerRef(i).st = pod.st
  BY <1>1, SizeAssumption DEF StripPodOwnerRef, Pod, CR
<1> QED
  BY <1>1, <1>2, <1>3 DEF PodAfter

LEMMA ClaimTypes ==
    ASSUME TypeOK
    PROVE  /\ pvc \in Claim /\ DeletePVCs \in Claim /\ Blank \in Claim
           /\ DeletePVCs.data = pvc.data /\ DeletePVCs.node = pvc.node
           /\ DeletePVCs.st = "none" <=> pvc.st = "none"
           /\ \A c : ClaimsAfter(c) \in {pvc, DeletePVCs}
<1>1. pvc \in Claim
  BY DEF TypeOK
<1>2. /\ DeletePVCs \in Claim
      /\ DeletePVCs.data = pvc.data /\ DeletePVCs.node = pvc.node
      /\ DeletePVCs.st = "none" <=> pvc.st = "none"
  BY <1>1 DEF DeletePVCs, Claim
<1>3. Blank \in Claim
  <2>1. NoClaim \in Claim
    BY SizeAssumption DEF NoClaim, Claim
  <2> QED
    BY <2>1 DEF Blank, Claim
<1> QED
  BY <1>1, <1>2, <1>3 DEF ClaimsAfter

LEMMA DecommissionTypes ==
    ASSUME TypeOK, NEW c, NEW d, d \in Members \cup {0} \/ d \in 0 .. MaxId,
           DecommissionBroker(c, d), believed' = believed
    PROVE  MemberStep
<1>1. member \in [Id -> {"none", "active", "draining", "removed"}]
  BY DEF TypeOK
<1>2. member' = member \/ (d \in Members /\ member' = [member EXCEPT ![d] = "draining"])
  BY DEF DecommissionBroker, Verdict
<1>3. CASE member' = member
  BY <1>1, <1>3 DEF MemberStep
<1>4. CASE d \in Members /\ member' = [member EXCEPT ![d] = "draining"]
  <2>1. d \in Id /\ member[d] # "none"
    BY <1>4 DEF Members
  <2> QED
    BY <1>1, <1>4, <2>1 DEF MemberStep
<1> QED
  BY <1>2, <1>3, <1>4

LEMMA BrokerPassEffect ==
    ASSUME TypeOK, NEW i \in CR, BrokerPass(i)
    PROVE  PassStep(i)
<1>0. /\ seen[i] \in Record /\ pod \in Pod /\ pvc \in Claim
      /\ seen[i].id \in 0 .. MaxId /\ i \in 0 .. MaxCR
      /\ member \in [Id -> {"none", "active", "draining", "removed"}]
  BY SizeAssumption, SMTT(60) DEF TypeOK, Record, CR
<1>1. ASSUME UNCHANGED redpanda PROVE MemberStep
  BY <1>0, <1>1 DEF redpanda, MemberStep
<1>2. ASSUME UNCHANGED pod PROVE PodStep
  BY <1>0, <1>2 DEF PodStep
<1>3. ASSUME pvc' \in {pvc, DeletePVCs} PROVE ClaimStep
  BY <1>3, ClaimTypes DEF ClaimStep
<1>4. ASSUME PastClaim(i) PROVE ClaimStep
  <2>1. pvc' = pvc \/ (pvc.st = "none" /\ pvc' = Blank)
    BY <1>4 DEF PastClaim
  <2> QED
    BY <1>3, <2>1, ClaimTypes DEF ClaimStep
<1>5. RecordStep(i, seen[i])
  BY DEF RecordStep
<1>6. CASE DetectDiskLost(i)
  <2> DEFINE c == [seen[i] EXCEPT !.lost = TRUE]
  <2>1. c \in Record /\ c.id = seen[i].id /\ c.lost
    BY <1>0 DEF Record
  <2>2. EndPass(i, c) /\ LostDisk(i) /\ UNCHANGED <<pod, pvc, redpanda>>
    BY <1>6 DEF DetectDiskLost
  <2> HIDE DEF c
  <2>3. RecordStep(i, c)
    BY <2>1, <2>2 DEF RecordStep
  <2> QED
    BY <1>1, <1>2, <1>3, <2>1, <2>2, <2>3 DEF PassStep
<1>7. CASE DismantleDiskLost(i)
  <2>1. CASE seen[i].released
    <3>1. EndPass(i, seen[i]) /\ UNCHANGED <<pod, pvc, redpanda>>
      BY <1>7, <2>1 DEF DismantleDiskLost
    <3> QED
      BY <1>0, <1>1, <1>2, <1>3, <1>5, <3>1 DEF PassStep
  <2>2. CASE ~seen[i].released
    <3> DEFINE c == [seen[i] EXCEPT !.released = pod.st = "none" /\ pvc.st = "none"]
    <3>1. c \in Record /\ c.id = seen[i].id /\ c.lost = seen[i].lost
      BY <1>0 DEF Record
    <3>2. /\ EndPass(i, c) /\ pod' = (IF HasPod(i) THEN DeletePod ELSE pod)
          /\ pvc' = DeletePVCs /\ UNCHANGED redpanda
      BY <1>7, <2>2 DEF DismantleDiskLost
    <3> HIDE DEF c
    <3>3. RecordStep(i, c)
      BY <3>1 DEF RecordStep
    <3>4. PodStep
      BY <1>0, <3>2, PodTypes DEF PodStep
    <3> QED
      BY <1>1, <1>3, <3>1, <3>2, <3>3, <3>4 DEF PassStep
  <2> QED
    BY <2>1, <2>2
<1>8. CASE TombstoneWithoutId(i)
  <2> DEFINE c == [seen[i] EXCEPT !.done = TRUE]
  <2>1. c \in Record /\ c.id = seen[i].id /\ c.lost = seen[i].lost
    BY <1>0 DEF Record
  <2>2. EndPass(i, c) /\ UNCHANGED <<pod, pvc, redpanda>>
    BY <1>8 DEF TombstoneWithoutId
  <2> HIDE DEF c
  <2>3. RecordStep(i, c)
    BY <2>1 DEF RecordStep
  <2> QED
    BY <1>1, <1>2, <1>3, <2>1, <2>2, <2>3 DEF PassStep
<1>9. CASE AwaitClaim(i)
  BY <1>0, <1>1, <1>2, <1>3, <1>5, <1>9 DEF AwaitClaim, PassStep
<1>10. CASE CreatePod(i)
  <2>1. PodStep
    <3>1. [st |-> "pending", owner |-> i, stamp |-> seen[i].id, del |-> FALSE] \in Pod
      BY <1>0 DEF Pod
    <3> QED
      BY <1>0, <1>10, <3>1 DEF CreatePod, PodStep
  <2> QED
    BY <1>0, <1>1, <1>4, <1>5, <1>10, <2>1 DEF CreatePod, PassStep
<1>11. CASE AdoptPod(i)
  <2>1. PodStep
    BY <1>0, <1>11 DEF AdoptPod, PodStep, Pod
  <2> QED
    BY <1>0, <1>1, <1>4, <1>5, <1>11, <2>1 DEF AdoptPod, PassStep
<1>12. CASE Register(i)
  <2> DEFINE d == ResolveBroker(seen[i])
             c == [seen[i] EXCEPT !.id = d]
  <2>1. d \in Members \cup {0} /\ Members \subseteq Id
    BY <1>0, ResolveIsMember, MembersFinite
  <2>2. PodStep /\ UNCHANGED redpanda /\ PastClaim(i) /\ ~seen[i].lost
    BY <1>0, <1>12 DEF Register, PodStep, Pod, PastClaim, PastDiskLost
  <2>3. \/ EndPass(i, seen[i]) \/ (d # 0 /\ EndPass(i, c))
    BY <1>12, Zenon DEF Register, MayAdopt
  <2> HIDE DEF d
  <2>4. d # 0 => c \in Record /\ c.id = d /\ c.lost = seen[i].lost
    BY <1>0, <2>1 DEF Record, Id
  <2> HIDE DEF c
  <2>5. d # 0 => RecordStep(i, c)
    BY <2>1, <2>2, <2>4 DEF RecordStep
  <2> QED
    BY <1>0, <1>1, <1>4, <1>5, <2>2, <2>3, <2>4, <2>5 DEF PassStep
<1>13. CASE ReconcileDecommission(i) \/ ReconcileDelete(i)
  <2> DEFINE d == Target(seen[i])
             f == [seen[i] EXCEPT !.id = 0, !.done = TRUE]
             c == [seen[i] EXCEPT !.id = d]
             g == [seen[i] EXCEPT !.st = "gone"]
  <2>1. /\ d \in Members \cup {seen[i].id, 0} /\ Members \subseteq Id
        /\ seen[i].lost => d \in {seen[i].id, 0}
    BY <1>0, ResolveIsMember, MembersFinite
  <2>2. d \in 0 .. MaxId
    <3> HIDE DEF d
    <3>1. Members \subseteq 0 .. MaxId /\ 0 \in 0 .. MaxId
      BY <2>1, SizeAssumption DEF Id
    <3> QED
      BY <1>0, <2>1, <3>1
  <2>3. EndPass(i, seen[i]) \/ EndPass(i, f) \/ EndPass(i, c) \/ EndPass(i, g)
    BY <1>13, Zenon DEF ReconcileDecommission, ReconcileDelete
  <2>4. pod' \in {pod, PodAfter(i), StripPodOwnerRef(i)} /\ pvc' \in {pvc, ClaimsAfter(seen[i])}
    BY <1>13, Zenon DEF ReconcileDecommission, ReconcileDelete
  <2>5. (member' = member \/ DecommissionBroker(seen[i], d)) /\ believed' = believed
    BY <1>13, Zenon DEF ReconcileDecommission, ReconcileDelete
  <2>6. PodStep
    BY <1>0, <2>4, PodTypes DEF PodStep
  <2>7. ClaimStep
    <3>1. pvc' \in {pvc, DeletePVCs}
      BY <2>4, ClaimTypes
    <3> QED
      BY <1>3, <3>1
  <2> HIDE DEF d
  <2>8. MemberStep
    <3>1. CASE member' = member
      BY <1>1, <2>5, <3>1 DEF redpanda
    <3>2. CASE DecommissionBroker(seen[i], d)
      BY <2>2, <2>5, <3>2, DecommissionTypes
    <3> QED
      BY <2>5, <3>1, <3>2
  <2>9. /\ f \in Record /\ f.id = 0 /\ f.lost = seen[i].lost
        /\ c \in Record /\ c.id = d /\ c.lost = seen[i].lost
        /\ g \in Record /\ g.id = seen[i].id /\ g.lost = seen[i].lost
    <3>0. 0 \in 0 .. MaxId
      BY SizeAssumption
    <3>1. f \in Record /\ f.id = 0 /\ f.lost = seen[i].lost
      BY <1>0, <3>0 DEF Record
    <3>2. c \in Record /\ c.id = d /\ c.lost = seen[i].lost
      BY <1>0, <2>2 DEF Record
    <3>3. g \in Record /\ g.id = seen[i].id /\ g.lost = seen[i].lost
      BY <1>0 DEF Record
    <3> QED
      BY <3>1, <3>2, <3>3
  <2> HIDE DEF f, c, g
  <2>10. RecordStep(i, f) /\ RecordStep(i, c) /\ RecordStep(i, g)
    BY <2>1, <2>9 DEF RecordStep
  <2> QED
    BY <1>0, <1>5, <2>3, <2>6, <2>7, <2>8, <2>9, <2>10 DEF PassStep
<1> QED
  BY <1>6, <1>7, <1>8, <1>9, <1>10, <1>11, <1>12, <1>13 DEF BrokerPass

-----------------------------------------------------------------------------
(* The inductive invariant of the pin.  A recorded node_id has joined; a pod *)
(* that got past its init container has a claim, on a node that lives if it  *)
(* runs; and the disk with a tombstone's node_id, if it is still there, is   *)
(* on a node that is gone.                                                   *)
Recorded == \A i \in CR : Live[i].id # 0 => member[Live[i].id] # "none"
PodFitsDisk ==
    /\ pod.st \in {"running", "up"} => pvc.node = "alive"
    /\ pod.st = "unsched" => pvc.node = "gone"
    /\ pod.st = "refused" => pvc.data = 0
    /\ pod.st \notin {"none", "pending"} => pvc.st # "none"
PinnedDisk ==
    \A i \in CR : Live[i].lost /\ Live[i].id # 0 /\ pvc.data = Live[i].id => pvc.node = "gone"
PinInv == TypeOK /\ Recorded /\ PodFitsDisk /\ PinnedDisk

(* A write that creates CRs, marks them or deletes them keeps node_ids and   *)
(* tombstones as they are.                                                   *)
KeepsIds(M) ==
    \A j \in CR : \/ M[j].id = Live[j].id /\ M[j].lost = Live[j].lost
                  \/ M[j].id = 0 /\ ~M[j].lost

LEMMA DeletedKeeps ==
    ASSUME NEW s \in CRs, NEW B
    PROVE  /\ Deleted(s, B) \in CRs /\ Marked(s, B) \in CRs
           /\ \A j \in CR : /\ Deleted(s, B)[j].id = s[j].id /\ Deleted(s, B)[j].lost = s[j].lost
                            /\ Marked(s, B)[j].id = s[j].id /\ Marked(s, B)[j].lost = s[j].lost
<1>1. ASSUME NEW j \in CR
      PROVE  LET d == IF j \in B /\ s[j].st = "live" THEN [s[j] EXCEPT !.st = "deleting"] ELSE s[j]
                 m == IF j \in B THEN [s[j] EXCEPT !.decom = TRUE] ELSE s[j]
             IN  /\ d \in Record /\ d.id = s[j].id /\ d.lost = s[j].lost
                 /\ m \in Record /\ m.id = s[j].id /\ m.lost = s[j].lost
  <2>1. s[j] \in Record
    BY DEF CRs
  <2> QED
    BY <2>1 DEF Record
<1> QED
  BY <1>1 DEF Deleted, Marked, CRs

LEMMA AfterTombstonesKeeps ==
    ASSUME NEW s \in CRs
    PROVE  /\ AfterExcess(AfterTombstones(s)) \in CRs
           /\ \A j \in CR : /\ AfterExcess(AfterTombstones(s))[j].id = s[j].id
                            /\ AfterExcess(AfterTombstones(s))[j].lost = s[j].lost
<1>1. /\ AfterTombstones(s) \in CRs
      /\ \A j \in CR : AfterTombstones(s)[j].id = s[j].id /\ AfterTombstones(s)[j].lost = s[j].lost
  <2> DEFINE B == {t \in TombstonesToDelete :
                     \A v \in {x \in TombstonesToMark : ~Current(x)} : t < v}
             C == TombstonesToMark \ {x \in TombstonesToMark : ~Current(x)}
             r == Deleted(s, B)
  <2>1. AfterTombstones(s) = Marked(r, C)
    BY DEF AfterTombstones
  <2>2. r \in CRs /\ \A j \in CR : r[j].id = s[j].id /\ r[j].lost = s[j].lost
    BY DeletedKeeps
  <2> HIDE DEF r
  <2>3. Marked(r, C) \in CRs
        /\ \A j \in CR : Marked(r, C)[j].id = r[j].id /\ Marked(r, C)[j].lost = r[j].lost
    BY <2>2, DeletedKeeps
  <2> QED
    BY <2>1, <2>2, <2>3
<1> DEFINE t == AfterTombstones(s)
           C == {i \in ExcessToMark : Current(i)}
           r == Deleted(t, Finished)
<1>2. t \in CRs /\ \A j \in CR : t[j].id = s[j].id /\ t[j].lost = s[j].lost
  BY <1>1
<1> HIDE DEF t
<1>3. r \in CRs /\ \A j \in CR : r[j].id = t[j].id /\ r[j].lost = t[j].lost
  BY <1>2, DeletedKeeps
<1> HIDE DEF r
<1>4. Marked(r, C) \in CRs
      /\ \A j \in CR : Marked(r, C)[j].id = r[j].id /\ Marked(r, C)[j].lost = r[j].lost
  BY <1>3, DeletedKeeps
<1>5. AfterExcess(t) \in {t, Marked(r, C)}
  BY DEF AfterExcess, r
<1>6. AfterExcess(t) \in CRs
      /\ \A j \in CR : AfterExcess(t)[j].id = s[j].id /\ AfterExcess(t)[j].lost = s[j].lost
  BY <1>2, <1>3, <1>4, <1>5
<1> QED
  BY <1>6 DEF t

LEMMA FreshTypes == Fresh \in Record /\ Fresh.id = 0 /\ ~Fresh.lost
<1>1. Absent \in Record /\ Absent.id = 0 /\ ~Absent.lost
  BY SizeAssumption DEF Absent, Record
<1> QED
  BY <1>1 DEF Fresh, Record

LEMMA AfterDesiredKeeps ==
    ASSUME TypeOK, NEW s \in AfterDesired
    PROVE  s \in CRs /\ KeepsIds(s)
<1>0. Live \in CRs
  BY LiveTypes
<1> DEFINE B == {i \in Finished : Cache[i].decom /\ Cache[i].st = "live"}
<1>1. CASE s = Live
  BY <1>0, <1>1 DEF KeepsIds
<1>2. CASE s = Deleted(Live, B)
  <2> HIDE DEF B
  <2> QED BY <1>0, <1>2, DeletedKeeps DEF KeepsIds
<1>3. ASSUME NEW i \in Unused, s = [Live EXCEPT ![i] = Fresh] PROVE s \in CRs /\ KeepsIds(s)
  <2>1. i \in CR
    BY DEF Unused
  <2>2. s \in CRs /\ \A j \in CR : s[j] = IF j = i THEN Fresh ELSE Live[j]
    BY <1>0, <1>3, <2>1, FreshTypes DEF CRs
  <2> QED
    BY <2>2, FreshTypes DEF KeepsIds
<1>4. s = Live \/ s = Deleted(Live, B) \/ \E i \in Unused : s = [Live EXCEPT ![i] = Fresh]
  BY Zenon DEF AfterDesired
<1> QED
  BY <1>1, <1>2, <1>3, <1>4

(* The writes that are not a Broker pass's.                                  *)
LEMMA OtherWrites ==
    ASSUME TypeOK,
           \/ EnsureBrokers
           \/ \E i \in CR : DeleteByHand(i) \/ DecommissionByHand(i)
    PROVE  /\ crs' \in Seq(CRs) /\ Len(crs') \in 1 .. MaxLag + 1
           /\ Live' \in CRs /\ KeepsIds(Live')
           /\ UNCHANGED <<desired, seen, pod, pvc, redpanda, known>>
<1>0. Live \in CRs
  BY LiveTypes
<1>1. ASSUME NEW M \in CRs, KeepsIds(M), Put(M)
      PROVE  /\ crs' \in Seq(CRs) /\ Len(crs') \in 1 .. MaxLag + 1
             /\ Live' \in CRs /\ KeepsIds(Live')
  <2>1. crs' \in Seq(CRs) /\ Len(crs') \in 1 .. MaxLag + 1 /\ Live' = M
    BY <1>1, PutEffect
  <2> QED
    BY <1>1, <2>1
<1>2. CASE EnsureBrokers
  <2>1. PICK s \in AfterDesired : Put(AfterExcess(AfterTombstones(s)))
    BY <1>2 DEF EnsureBrokers
  <2> DEFINE M == AfterExcess(AfterTombstones(s))
  <2>2. s \in CRs /\ KeepsIds(s)
    BY AfterDesiredKeeps
  <2>3. M \in CRs /\ \A j \in CR : M[j].id = s[j].id /\ M[j].lost = s[j].lost
    BY <2>2, AfterTombstonesKeeps
  <2> HIDE DEF M
  <2>4. KeepsIds(M)
    BY <2>2, <2>3 DEF KeepsIds
  <2>5. Put(M)
    BY <2>1 DEF M
  <2> QED
    BY <1>1, <1>2, <2>3, <2>4, <2>5 DEF EnsureBrokers
<1>3. ASSUME NEW i \in CR, DeleteByHand(i) \/ DecommissionByHand(i)
      PROVE  /\ crs' \in Seq(CRs) /\ Len(crs') \in 1 .. MaxLag + 1
             /\ Live' \in CRs /\ KeepsIds(Live')
             /\ UNCHANGED <<desired, seen, pod, pvc, redpanda, known>>
  <2>1. PICK M \in {Deleted(Live, {i}), Marked(Live, {i})} : Put(M)
    BY <1>3 DEF DeleteByHand, DecommissionByHand
  <2>2. M \in CRs /\ KeepsIds(M)
    BY <1>0, DeletedKeeps DEF KeepsIds
  <2>3. UNCHANGED <<desired, seen, pod, pvc, redpanda, known>>
    BY <1>3 DEF DeleteByHand, DecommissionByHand
  <2> QED
    BY <1>1, <2>1, <2>2, <2>3
<1> QED
  BY <1>2, <1>3

-----------------------------------------------------------------------------
(* TypeOK, grouped by what the actions change.                               *)
HistoryOK == crs \in Seq(CRs) /\ Len(crs) \in 1 .. MaxLag + 1
ReadOK == desired \in BOOLEAN /\ seen \in CRs /\ known \subseteq Id
ObjectsOK == pod \in Pod /\ pvc \in Claim
RedpandaOK ==
    member \in [Id -> {"none", "active", "draining", "removed"}] /\ believed \subseteq Id
BoundsOK == faults \in 0 .. MaxFaults /\ raw \in 0 .. MaxRaw /\ manual \in 0 .. MaxManual
Parts == HistoryOK /\ ReadOK /\ ObjectsOK /\ RedpandaOK /\ BoundsOK

LEMMA TypeOKParts == (TypeOK <=> Parts) /\ (TypeOK' <=> Parts')
  BY DEF TypeOK, Parts, HistoryOK, ReadOK, ObjectsOK, RedpandaOK, BoundsOK, CRs

LEMMA PassTypes ==
    ASSUME TypeOK, NEW i \in CR, PassStep(i)
    PROVE  TypeOK'
<1> USE TypeOKParts DEF Parts
<1>1. PICK c \in Record : EndPass(i, c)
  BY DEF PassStep
<1>2. HistoryOK' /\ ReadOK' /\ BoundsOK'
  BY <1>1, EndPassEffect DEF HistoryOK, ReadOK, BoundsOK, bounds
<1>3. ObjectsOK' /\ RedpandaOK'
  BY DEF PassStep, PodStep, ClaimStep, MemberStep, ObjectsOK, RedpandaOK
<1> QED
  BY <1>2, <1>3

LEMMA NoObjectTypes == NoPod \in Pod /\ NoClaim \in Claim
  BY SizeAssumption DEF NoPod, NoClaim, Pod, Claim

LEMMA RunningIdTypes ==
    ASSUME TypeOK
    PROVE  RunningId \in 0 .. MaxId /\ (believed' = believed \/ BrokerStops => believed' \subseteq Id)
<1>1. pvc.data \in 0 .. MaxId /\ 0 \in 0 .. MaxId /\ believed \subseteq Id
  BY SizeAssumption DEF TypeOK, Claim
<1> QED
  BY <1>1 DEF RunningId, BrokerStops

LEMMA OtherTypes ==
    ASSUME TypeOK, Deliver \/ EnsureBrokers \/ (\E i \in CR : BeginPass(i)) \/ External
    PROVE  TypeOK'
<1> USE TypeOKParts DEF Parts
<1>0. MaxFaults \in Nat /\ MaxRaw \in Nat /\ MaxManual \in Nat /\ MaxLag \in Nat
  BY LimitAssumption
<1>1. CASE Deliver
  <2>1. HistoryOK'
    BY <1>0, <1>1 DEF Deliver, HistoryOK
  <2> QED
    BY <1>1, <2>1 DEF Deliver, redpanda, bounds, ReadOK, ObjectsOK, RedpandaOK, BoundsOK
<1>2. CASE EnsureBrokers \/ \E i \in CR : DeleteByHand(i) \/ DecommissionByHand(i)
  <2>1. HistoryOK' /\ UNCHANGED <<desired, seen, pod, pvc, redpanda, known>>
    BY <1>2, OtherWrites DEF HistoryOK
  <2>2. BoundsOK'
    <3>1. \/ UNCHANGED bounds
          \/ raw < MaxRaw /\ raw' = raw + 1 /\ UNCHANGED <<faults, manual>>
          \/ manual < MaxManual /\ manual' = manual + 1 /\ UNCHANGED <<faults, raw>>
      BY <1>2, Zenon DEF EnsureBrokers, DeleteByHand, DecommissionByHand
    <3> QED
      BY <1>0, <3>1 DEF BoundsOK, bounds
  <2> QED
    BY <2>1, <2>2 DEF redpanda, ReadOK, ObjectsOK, RedpandaOK
<1>3. ASSUME NEW i \in CR, BeginPass(i) PROVE TypeOK'
  <2>1. ReadOK'
    BY <1>3, LiveTypes DEF BeginPass, ReadOK, CRs
  <2> QED
    BY <1>3, <2>1 DEF BeginPass, redpanda, bounds, HistoryOK, ObjectsOK, RedpandaOK, BoundsOK
<1>4. CASE ScaleDown
  BY <1>4 DEF ScaleDown, redpanda, bounds, HistoryOK, ReadOK, ObjectsOK, RedpandaOK, BoundsOK
<1>5. CASE PodStarts
  <2>1. ObjectsOK'
    BY <1>5 DEF PodStarts, ObjectsOK, Pod
  <2> QED
    BY <1>5, <2>1 DEF PodStarts, redpanda, bounds, HistoryOK, ReadOK, RedpandaOK, BoundsOK
<1>6. CASE Joins
  <2>1. PICK d \in Id : /\ pvc' = [pvc EXCEPT !.data = d, !.lost = FALSE]
                        /\ member' \in {member, [member EXCEPT ![d] = "active"]}
                        /\ believed' = believed \cup {d}
    BY <1>6 DEF Joins
  <2>2. d \in 0 .. MaxId
    BY SizeAssumption DEF Id
  <2>3. ObjectsOK'
    BY <1>6, <2>1, <2>2 DEF Joins, ObjectsOK, Pod, Claim
  <2>4. RedpandaOK'
    BY <2>1 DEF RedpandaOK
  <2> QED
    BY <1>6, <2>3, <2>4 DEF Joins, bounds, HistoryOK, ReadOK, BoundsOK
<1>7. CASE PodGone \/ ClaimGone
  <2>1. ObjectsOK' /\ RedpandaOK'
    BY <1>7, NoObjectTypes, RunningIdTypes DEF PodGone, ClaimGone, ObjectsOK, RedpandaOK, redpanda
  <2> QED
    BY <1>7, <2>1 DEF PodGone, ClaimGone, bounds, HistoryOK, ReadOK, BoundsOK
<1>8. CASE PodLost \/ NodeDies \/ DiskWiped
  <2>1. pod' \in Pod
    BY <1>8, NoObjectTypes DEF PodLost, NodeDies, DiskWiped, ObjectsOK, Pod
  <2>2. pvc' \in Claim
    <3>1. \/ pvc' = pvc \/ pvc' = [pvc EXCEPT !.node = "gone", !.lost = TRUE]
          \/ pvc' = [pvc EXCEPT !.data = 0, !.lost = TRUE]
      BY <1>8, Zenon DEF PodLost, NodeDies, DiskWiped
    <3>2. 0 \in 0 .. MaxId
      BY SizeAssumption
    <3> QED
      BY <3>1, <3>2 DEF ObjectsOK, Claim
  <2>3. RedpandaOK'
    BY <1>8, RunningIdTypes DEF PodLost, NodeDies, DiskWiped, RedpandaOK
  <2>4. BoundsOK'
    BY <1>0, <1>8 DEF PodLost, NodeDies, DiskWiped, MayFail, BoundsOK
  <2> QED
    BY <1>8, <2>1, <2>2, <2>3, <2>4 DEF PodLost, NodeDies, DiskWiped, ObjectsOK, HistoryOK, ReadOK
<1>9. ASSUME NEW d \in Id, ReportedDead(d) \/ DrainFinishes(d) PROVE TypeOK'
  <2>1. RedpandaOK'
    BY <1>9 DEF ReportedDead, DrainFinishes, RedpandaOK
  <2> QED
    BY <1>9, <2>1 DEF ReportedDead, DrainFinishes, bounds, HistoryOK, ReadOK, ObjectsOK, BoundsOK
<1> QED
  BY <1>1, <1>2, <1>3, <1>4, <1>5, <1>6, <1>7, <1>8, <1>9 DEF External

LEMMA InitTypes == Init => TypeOK
<1> SUFFICES ASSUME Init PROVE TypeOK
  OBVIOUS
<1> USE TypeOKParts DEF Parts
<1>1. Absent \in Record
  BY SizeAssumption DEF Absent, Record
<1>2. HistoryOK /\ ReadOK
  BY <1>1, LimitAssumption DEF Init, HistoryOK, ReadOK, CRs
<1>3. ObjectsOK /\ RedpandaOK /\ BoundsOK
  BY NoObjectTypes, LimitAssumption DEF Init, ObjectsOK, RedpandaOK, BoundsOK
<1> QED
  BY <1>2, <1>3

LEMMA TypeStep ==
    ASSUME TypeOK, [Next]_vars
    PROVE  TypeOK'
<1>1. CASE UNCHANGED vars
  BY <1>1, TypeOKParts
     DEF vars, redpanda, bounds, Parts, HistoryOK, ReadOK, ObjectsOK, RedpandaOK, BoundsOK
<1>2. ASSUME NEW i \in CR, BrokerPass(i) PROVE TypeOK'
  BY <1>2, BrokerPassEffect, PassTypes
<1> QED
  BY <1>1, <1>2, OtherTypes DEF Next

(* Types are kept by every pass, of either controller, on whatever copy of   *)
(* the CR it read, and by every fault.                                       *)
THEOREM TypeCorrect == Spec => []TypeOK
<1> QED
  BY InitTypes, TypeStep, PTL DEF Spec

-----------------------------------------------------------------------------
(* Steps that leave the CRs alone: whatever happens to pod and disk, no disk *)
(* on a live node gets a node_id that some CR has recorded.                  *)
LEMMA DiskStep ==
    ASSUME PinInv, UNCHANGED crs,
           \A d \in Id : member[d] # "none" => member'[d] # "none",
           \/ pvc'.data \in {pvc.data, 0} /\ (pvc.node = "gone" => pvc'.node = "gone" \/ pvc'.data = 0)
           \/ pvc'.data \in Id /\ member[pvc'.data] = "none"
    PROVE  Recorded' /\ PinnedDisk'
<1>1. ASSUME NEW i \in CR PROVE Live[i].id # 0 => Live[i].id \in Id
  BY LiveTypes DEF PinInv, CRs, Record, Id
<1>2. Live' = Live
  BY DEF Live
<1>3. Recorded'
  BY <1>1, <1>2 DEF Recorded, PinInv
<1>4. PinnedDisk'
  BY <1>1, <1>2 DEF PinnedDisk, Recorded, PinInv
<1> QED
  BY <1>3, <1>4

LEMMA PassPinned ==
    ASSUME PinInv, NEW i \in CR, PassStep(i)
    PROVE  PinInv'
<1>1. TypeOK' /\ TypeOK
  BY PassTypes DEF PinInv
<1>2. PICK c \in Record : EndPass(i, c) /\ RecordStep(i, c)
  BY DEF PassStep
<1>3. ASSUME NEW j \in CR PROVE Live'[j] = IF j = i /\ Live[i] = seen[i] THEN c ELSE Live[j]
  BY <1>1, <1>2, EndPassEffect
<1>4. ASSUME NEW j \in CR PROVE Live[j].id # 0 => Live[j].id \in Id
  BY <1>1, LiveTypes DEF CRs, Record, Id
<1>5. \A d \in Id : member'[d] # "none" <=> member[d] # "none"
  BY DEF PassStep, MemberStep
<1>6. Recorded'
  <2> SUFFICES ASSUME NEW j \in CR, Live'[j].id # 0 PROVE member'[Live'[j].id] # "none"
    BY DEF Recorded
  <2>1. CASE Live'[j].id = Live[j].id
    BY <1>4, <1>5, <2>1 DEF PinInv, Recorded
  <2>2. CASE Live'[j].id \in Members
    BY <1>5, <2>2 DEF Members
  <2> QED
    BY <1>2, <1>3, <2>1, <2>2 DEF RecordStep
<1>7. PodFitsDisk'
  BY DEF PinInv, PodFitsDisk, PassStep, PodStep, ClaimStep, Blank, NoClaim
<1>8. PinnedDisk'
  <2> SUFFICES ASSUME NEW j \in CR, Live'[j].lost, Live'[j].id # 0, pvc'.data = Live'[j].id
               PROVE  pvc'.node = "gone"
    BY DEF PinnedDisk
  <2>1. pvc'.data = pvc.data /\ pvc'.node = pvc.node
    BY DEF PassStep, ClaimStep, Blank, NoClaim
  <2>2. CASE Live'[j].lost = Live[j].lost /\ Live'[j].id = Live[j].id
    BY <2>1, <2>2 DEF PinInv, PinnedDisk
  <2>3. CASE LostDisk(i)
    BY <2>1, <2>3 DEF LostDisk, PinInv, PodFitsDisk
  <2>4. CASE j = i /\ Live[i] = seen[i] /\ ~LostDisk(i)
    <3>1. Live'[j] = c /\ seen[i].lost
      BY <1>2, <1>3, <2>4 DEF RecordStep
    <3>2. Live'[j].id = Live[j].id /\ Live[j].lost
      BY <1>2, <2>4, <3>1 DEF RecordStep
    <3> QED
      BY <2>1, <3>2 DEF PinInv, PinnedDisk
  <2> QED
    BY <1>3, <2>2, <2>3, <2>4
<1> QED
  BY <1>1, <1>6, <1>7, <1>8 DEF PinInv

LEMMA OtherPinned ==
    ASSUME PinInv, Deliver \/ EnsureBrokers \/ (\E i \in CR : BeginPass(i)) \/ External
    PROVE  PinInv'
<1>0. TypeOK /\ TypeOK' /\ pod \in Pod /\ pvc \in Claim
      /\ member \in [Id -> {"none", "active", "draining", "removed"}]
  BY OtherTypes DEF PinInv, TypeOK
<1>1. CASE EnsureBrokers \/ \E i \in CR : DeleteByHand(i) \/ DecommissionByHand(i)
  <2>1. Live' \in CRs /\ KeepsIds(Live') /\ UNCHANGED <<pod, pvc, member>>
    BY <1>0, <1>1, OtherWrites DEF redpanda
  <2>2. Recorded'
    BY <2>1 DEF KeepsIds, Recorded, PinInv
  <2>3. PodFitsDisk'
    BY <2>1 DEF PodFitsDisk, PinInv
  <2>4. PinnedDisk'
    BY <2>1 DEF KeepsIds, PinnedDisk, PinInv
  <2> QED
    BY <1>0, <2>2, <2>3, <2>4 DEF PinInv
<1>2. CASE Deliver \/ (\E i \in CR : BeginPass(i)) \/ ScaleDown
           \/ \E d \in Id : ReportedDead(d) \/ DrainFinishes(d)
  <2>1. Live' = Live
    <3>1. CASE Deliver
      <4>1. crs \in Seq(CRs) /\ Len(crs) > 1 /\ crs' = Tail(crs)
        BY <1>0, <3>1 DEF Deliver, TypeOK, CRs
      <4> QED
        BY <4>1 DEF Live
    <3>2. CASE ~Deliver
      BY <1>2, <3>2 DEF BeginPass, ScaleDown, ReportedDead, DrainFinishes, Live
    <3> QED
      BY <3>1, <3>2
  <2>2. UNCHANGED <<pod, pvc>>
    BY <1>2, Zenon DEF Deliver, BeginPass, ScaleDown, ReportedDead, DrainFinishes
  <2>3. ASSUME NEW e \in Id, member[e] # "none" PROVE member'[e] # "none"
    BY <1>0, <1>2, <2>3 DEF Deliver, BeginPass, ScaleDown, ReportedDead, DrainFinishes, redpanda
  <2>4. ASSUME NEW i \in CR PROVE Live[i].id # 0 => Live[i].id \in Id
    BY <1>0, LiveTypes DEF CRs, Record, Id
  <2>5. Recorded'
    BY <2>1, <2>3, <2>4 DEF Recorded, PinInv
  <2>6. PodFitsDisk' /\ PinnedDisk'
    BY <2>1, <2>2 DEF PodFitsDisk, PinnedDisk, PinInv
  <2> QED
    BY <1>0, <2>5, <2>6 DEF PinInv
<1>3. CASE PodStarts
  <2>1. UNCHANGED <<crs, pvc, member>>
    BY <1>3 DEF PodStarts, redpanda
  <2>2. Recorded' /\ PinnedDisk'
    BY <2>1, DiskStep
  <2>3. PodFitsDisk'
    BY <1>0, <1>3 DEF PodStarts, PodFitsDisk, Pod, Claim
  <2> QED
    BY <1>0, <2>2, <2>3 DEF PinInv
<1>4. CASE Joins
  <2>1. PICK d \in Id :
             /\ IF pvc.data # 0 THEN d = pvc.data ELSE member[d] = "none"
             /\ pvc' = [pvc EXCEPT !.data = d, !.lost = FALSE]
             /\ member' = IF member[d] = "none" THEN [member EXCEPT ![d] = "active"] ELSE member
    BY <1>4 DEF Joins
  <2>2. pvc'.data = d /\ pvc'.node = pvc.node /\ pvc'.st = pvc.st
    BY <1>0, <2>1 DEF Claim
  <2>3. \A e \in Id : member[e] # "none" => member'[e] # "none"
    BY <1>0, <2>1
  <2>4. UNCHANGED crs
    BY <1>4 DEF Joins
  <2>5. pvc'.data \in {pvc.data, 0} \/ (pvc'.data \in Id /\ member[pvc'.data] = "none")
    BY <2>1, <2>2
  <2>6. Recorded' /\ PinnedDisk'
    BY <2>2, <2>3, <2>4, <2>5, DiskStep
  <2>7. pod.st = "running" /\ pod'.st = "up"
    BY <1>0, <1>4 DEF Joins, Pod
  <2>8. PodFitsDisk'
    BY <2>2, <2>7 DEF PodFitsDisk, PinInv
  <2> QED
    BY <1>0, <2>6, <2>8 DEF PinInv
<1>5. CASE PodGone \/ ClaimGone \/ PodLost \/ NodeDies \/ DiskWiped
  <2>1. UNCHANGED <<crs, member>>
    BY <1>5, Zenon DEF PodGone, ClaimGone, PodLost, NodeDies, DiskWiped, redpanda
  <2>2. /\ pvc'.data \in {pvc.data, 0}
        /\ pvc.node = "gone" => pvc'.node = "gone" \/ pvc'.data = 0
    <3>1. \/ pvc' = pvc \/ pvc' = NoClaim
          \/ pvc' = [pvc EXCEPT !.node = "gone", !.lost = TRUE]
          \/ pvc' = [pvc EXCEPT !.data = 0, !.lost = TRUE]
      BY <1>5, Zenon DEF PodGone, ClaimGone, PodLost, NodeDies, DiskWiped
    <3>2. CASE pvc' = NoClaim
      BY <3>2 DEF NoClaim
    <3>3. CASE pvc' = [pvc EXCEPT !.node = "gone", !.lost = TRUE]
      BY <1>0, <3>3 DEF Claim
    <3>4. CASE pvc' = [pvc EXCEPT !.data = 0, !.lost = TRUE]
      BY <1>0, <3>4 DEF Claim
    <3> QED
      BY <3>1, <3>2, <3>3, <3>4
  <2>3. Recorded' /\ PinnedDisk'
    BY <2>1, <2>2, DiskStep
  <2>4. pod'.st \in {"none", "pending"}
    <3>1. pod' = NoPod \/ pod'.st = "none" \/ pod'.st = "pending"
      <4>1. CASE ClaimGone \/ DiskWiped
        BY <1>0, <4>1 DEF ClaimGone, DiskWiped, Pod
      <4>2. CASE PodGone \/ PodLost \/ NodeDies
        BY <4>2 DEF PodGone, PodLost, NodeDies
      <4> QED
        BY <1>5, <4>1, <4>2
    <3> QED
      BY <3>1 DEF NoPod
  <2>5. PodFitsDisk'
    BY <2>4 DEF PodFitsDisk
  <2> QED
    BY <1>0, <2>3, <2>5 DEF PinInv
<1> QED
  BY <1>1, <1>2, <1>3, <1>4, <1>5 DEF External

(* The inductive invariant: a disk on a live node never carries a node_id a  *)
(* tombstone is pinned to, and a running pod fits the disk it runs on.       *)
THEOREM PinInvariant == Spec => []PinInv
<1>1. Init => PinInv
  <2> SUFFICES ASSUME Init PROVE PinInv
    OBVIOUS
  <2>1. \A i \in CR : Live[i] = Absent
    BY DEF Init, Live
  <2>2. pod.st = "none"
    BY DEF Init, NoPod
  <2> QED
    BY <2>1, <2>2, InitTypes DEF PinInv, Recorded, PodFitsDisk, PinnedDisk, Absent
<1>2. PinInv /\ [Next]_vars => PinInv'
  <2> SUFFICES ASSUME PinInv, [Next]_vars PROVE PinInv'
    OBVIOUS
  <2>1. CASE UNCHANGED vars
    <3>1. TypeOK'
      BY TypeStep DEF PinInv
    <3> QED
      BY <2>1, <3>1 DEF vars, redpanda, Live, PinInv, Recorded, PodFitsDisk, PinnedDisk
  <2>2. ASSUME NEW i \in CR, BrokerPass(i) PROVE PinInv'
    BY <2>2, BrokerPassEffect, PassPinned DEF PinInv
  <2> QED
    BY <2>1, <2>2, OtherPinned DEF Next
<1> QED
  BY <1>1, <1>2, PTL DEF Spec

(* What a tombstone has the operator drain is never the running broker: a    *)
(* CR becomes a tombstone only while its pod cannot run, and from then on no *)
(* disk of the index on a live node carries its node_id.  This needs neither *)
(* a fresh cache nor prompt health reports, and survives lost disks, lost    *)
(* nodes, deletions by hand and stale passes in any order.                   *)
THEOREM PinnedStaysDead == Spec => []PinnedIsDead
<1>1. PinInv => PinnedIsDead
  BY DEF PinInv, PinnedDisk, PodFitsDisk, PinnedIsDead, RunningId
<1> QED
  BY <1>1, PinInvariant, PTL
=============================================================================
