----------------------- MODULE BrokerSuccessionProofs -----------------------
(***************************************************************************)
(* What the Broker CRs of one network index do to the running broker, its   *)
(* pod and its disk while they succeed one another, for every value of the  *)
(* constants: any number of CRs, node_ids, faults, decommissions and        *)
(* deletions by hand, any lag of the informer cache, with or without        *)
(* Redpanda's grace window.  The theorems' hypotheses name the single steps *)
(* that can break them; everything else may happen in any order.            *)
(***************************************************************************)
EXTENDS BrokerIncarnationsProofs, WellFoundedInduction

-----------------------------------------------------------------------------
(* A CR holds the index when it is no tombstone, or a tombstone that has not *)
(* let go of pod and claim.                                                  *)
Holder(i) == Exists(Live[i]) /\ ~Live[i].released

(* A Broker is created from a list that shows every CR that holds the index; *)
(* the list may be old in everything else.                                   *)
CreateListsHolders ==
    EnsureBrokers /\ (\E j \in CR : Live[j].st = "none" /\ Live'[j].st # "none")
        => \A i \in CR : Holder(i) => i \in Listed
HoldersListed == [][CreateListsHolders]_vars

(* A pass reads what the Broker controller itself wrote to the CR last; marks *)
(* and deletions it may not see yet.                                          *)
ReadsOwnWrites(i) ==
    /\ Exists(Live[i])
    /\ Cache[i].id = Live[i].id /\ Cache[i].lost = Live[i].lost
    /\ Cache[i].released = Live[i].released /\ Cache[i].done = Live[i].done
PassReadsOwnWrites == \A i \in CR : BeginPass(i) => ReadsOwnWrites(i)
OwnWritesRead == [][PassReadsOwnWrites]_vars

(* No tombstone adopts the pod that a deleted Broker has let go of.          *)
AdoptedByLiveBroker == \A i \in CR : AdoptPod(i) => ~seen[i].lost
TombstonesAdoptNothing == [][AdoptedByLiveBroker]_vars

(* No Broker is being deleted and decommissioned at once, tombstones aside.  *)
DeletedOrDecommissioned ==
    \A i \in CR : Live[i].st = "deleting" /\ ~Live[i].lost /\ Live[i].decom => Live[i].done

Orderly ==
    /\ HoldersListed /\ OwnWritesRead /\ TombstonesAdoptNothing
    /\ []DeletedOrDecommissioned

-----------------------------------------------------------------------------
(* The inductive invariant.                                                  *)
OneHolder == \A i, j \in CR : Holder(i) /\ Holder(j) => i = j

(* The copy a pass has read lags behind its CR by marks and deletions only.  *)
Copies ==
    \A i \in CR : Exists(seen[i]) =>
        /\ Exists(Live[i])
        /\ seen[i].id = Live[i].id /\ seen[i].lost = Live[i].lost
        /\ seen[i].released = Live[i].released /\ seen[i].done = Live[i].done
        /\ seen[i].decom => Live[i].decom
        /\ seen[i].st = "deleting" => Live[i].st = "deleting"
        /\ seen[i].done => seen[i].decom

(* What the cache shows of a CR is never taken back.                         *)
NotTakenBack(c, l) ==
    /\ l.st # "none"
    /\ c.st = "deleting" => l.st \in {"deleting", "gone"}
    /\ c.decom => l.decom
    /\ c.released => l.released
    /\ c.done => c.decom
Forward == \A k \in DOMAIN crs : \A i \in CR : Exists(crs[k][i]) => NotTakenBack(crs[k][i], Live[i])

(* The stages of a CR: a tombstone is asked to leave once it has let go, and *)
(* is done when its node_id is forgotten.                                    *)
Ordered(c) ==
    /\ c.released => c.lost
    /\ c.lost /\ c.decom => c.released
    /\ c.done => c.decom
    /\ c.lost /\ c.done => c.id = 0
Stages == \A i \in CR : Exists(Live[i]) => Ordered(Live[i])

(* A pod with an owner belongs to the holder, or is what a decommissioned CR *)
(* left terminating.                                                         *)
PodOwned ==
    pod.st # "none" /\ pod.owner # 0 =>
        \/ Holder(pod.owner)
        \/ /\ Live[pod.owner].st = "gone" /\ Live[pod.owner].decom
           /\ ~Live[pod.owner].lost /\ pod.del

(* A holder that lost its disk has no pod that could run and no claim worth  *)
(* keeping; one that is done has deleted both.  Neither meets a pod without  *)
(* an owner.                                                                 *)
LostHolder ==
    \A i \in CR : Holder(i) /\ Live[i].lost =>
        /\ pod.st \in {"none", "unsched", "refused"}
        /\ pod.st # "none" => pod.owner # 0
        /\ pvc.st = "bound" => pvc.lost \/ pvc.data = 0
DoneHolder ==
    \A i \in CR : Holder(i) /\ Live[i].done =>
        /\ pvc.st # "bound"
        /\ pod.st # "none" => pod.owner # 0
        /\ pod.st # "none" /\ pod.owner = i => pod.del

(* A disk on a node that is gone is lost; a running member is known alive.   *)
DiskFacts ==
    /\ pvc.node = "gone" => pvc.lost
    /\ pod.st = "up" => /\ pvc.data # 0
                        /\ pvc.data \in believed \/ member[pvc.data] = "removed"

IndexInv ==
    /\ PinInv
    /\ OneHolder /\ Copies /\ Stages
    /\ PodOwned /\ LostHolder /\ DoneHolder /\ DiskFacts
SuccInv == IndexInv /\ Forward

-----------------------------------------------------------------------------
(* The cache only shows what the API server has been.                        *)
Delivered ==
    \A k \in DOMAIN crs' : crs'[k] = Live' \/ \E m \in DOMAIN crs : crs'[k] = crs[m]

LEMMA PutDelivered ==
    ASSUME TypeOK, NEW s \in CRs, Put(s)
    PROVE  Delivered
<1>0. crs \in Seq(CRs) /\ Len(crs) \in Nat /\ Len(crs) > 0 /\ crs # << >>
  <2>1. crs \in Seq(CRs) /\ Len(crs) \in 1 .. MaxLag + 1
    BY DEF TypeOK, CRs
  <2> QED
    BY <2>1, EmptySeq, LimitAssumption
<1>1. Live' = s
  BY PutEffect
<1>2. CASE crs' = crs
  BY <1>2 DEF Delivered
<1>3. CASE crs' = Append(crs, s)
  <2>1. DOMAIN crs' = 1 .. Len(crs) + 1 /\ \A k \in 1 .. Len(crs) : crs'[k] = crs[k]
    BY <1>0, <1>3
  <2>2. crs'[Len(crs) + 1] = s /\ DOMAIN crs = 1 .. Len(crs)
    BY <1>0, <1>3
  <2>3. \A k \in DOMAIN crs' : k \in 1 .. Len(crs) \/ k = Len(crs) + 1
    BY <1>0, <2>1
  <2> QED
    BY <1>1, <2>1, <2>2, <2>3 DEF Delivered
<1>4. CASE crs' = Append(Tail(crs), s)
  <2>1. Tail(crs) \in Seq(CRs) /\ Len(Tail(crs)) = Len(crs) - 1
        /\ \A k \in 1 .. Len(crs) - 1 : Tail(crs)[k] = crs[k + 1]
    BY <1>0, HeadTailProperties
  <2>2. DOMAIN crs' = 1 .. Len(crs) /\ crs'[Len(crs)] = s
        /\ \A k \in 1 .. Len(crs) - 1 : crs'[k] = Tail(crs)[k]
    BY <1>0, <1>4, <2>1, AppendProperties
  <2>3. \A k \in 1 .. Len(crs) - 1 : k + 1 \in DOMAIN crs /\ crs'[k] = crs[k + 1]
    BY <1>0, <2>1, <2>2
  <2>4. \A k \in DOMAIN crs' : k \in 1 .. Len(crs) - 1 \/ k = Len(crs)
    BY <1>0, <2>2
  <2> QED
    BY <1>1, <2>2, <2>3, <2>4 DEF Delivered
<1> QED
  BY <1>2, <1>3, <1>4 DEF Put

LEMMA DeliverDelivered ==
    ASSUME TypeOK, Deliver
    PROVE  Delivered /\ Live' = Live
<1>1. crs \in Seq(CRs) /\ crs # << >> /\ Len(crs) \in Nat /\ Len(crs) > 1
  <2>1. crs \in Seq(CRs) /\ Len(crs) > 1
    BY DEF TypeOK, CRs, Deliver
  <2> QED
    BY <2>1, EmptySeq
<1>2. crs' = Tail(crs) /\ Len(crs') = Len(crs) - 1 /\ crs' \in Seq(CRs)
      /\ \A k \in 1 .. Len(crs) - 1 : crs'[k] = crs[k + 1]
  BY <1>1, HeadTailProperties DEF Deliver
<1>3. DOMAIN crs' = 1 .. Len(crs) - 1 /\ DOMAIN crs = 1 .. Len(crs)
  BY <1>1, <1>2
<1>4. \A k \in DOMAIN crs' : k + 1 \in DOMAIN crs /\ crs'[k] = crs[k + 1]
  BY <1>1, <1>2, <1>3
<1>5. Live' = Live
  BY <1>1, <1>2 DEF Live
<1> QED
  BY <1>4, <1>5 DEF Delivered

LEMMA StepDelivered ==
    ASSUME TypeOK, [Next]_vars
    PROVE  Delivered
<1>0. Live \in CRs
  BY LiveTypes
<1>1. ASSUME NEW i \in CR, BrokerPass(i) PROVE Delivered
  <2>1. PICK c \in Record : EndPass(i, c)
    BY <1>1, BrokerPassEffect DEF PassStep
  <2> DEFINE s == IF Live[i] = seen[i] THEN [Live EXCEPT ![i] = c] ELSE Live
  <2>2. s \in CRs
    BY <1>0 DEF CRs
  <2>3. Put(s)
    BY <2>1 DEF EndPass
  <2> HIDE DEF s
  <2> QED
    BY <2>2, <2>3, PutDelivered
<1>2. CASE EnsureBrokers
  <2>1. PICK s \in AfterDesired : Put(AfterExcess(AfterTombstones(s)))
    BY <1>2 DEF EnsureBrokers
  <2> QED
    BY <2>1, AfterDesiredKeeps, AfterTombstonesKeeps, PutDelivered
<1>3. ASSUME NEW i \in CR, DeleteByHand(i) \/ DecommissionByHand(i) PROVE Delivered
  BY <1>0, <1>3, DeletedKeeps, PutDelivered DEF DeleteByHand, DecommissionByHand
<1>4. CASE UNCHANGED crs
  BY <1>4 DEF Delivered
<1>5. \/ Deliver \/ EnsureBrokers
      \/ \E i \in CR : BrokerPass(i)
      \/ \E i \in CR : DeleteByHand(i) \/ DecommissionByHand(i)
      \/ UNCHANGED crs
  BY Zenon DEF Next, External, vars, BeginPass, ScaleDown, PodLost, NodeDies, DiskWiped, PodStarts,
               Joins, PodGone, ClaimGone, ReportedDead, DrainFinishes
<1> QED
  BY <1>1, <1>2, <1>3, <1>4, <1>5, DeliverDelivered

(* Hence it is enough that no write takes anything back.                     *)
Advances(i) ==
    Live[i].st # "none" =>
        /\ Live'[i].st # "none"
        /\ Live[i].st = "deleting" => Live'[i].st \in {"deleting", "gone"}
        /\ Live[i].st = "gone" => Live'[i].st = "gone"
        /\ Live[i].decom => Live'[i].decom
        /\ Live[i].released => Live'[i].released

LEMMA ForwardKeeps ==
    ASSUME Forward, Delivered, \A i \in CR : Advances(i), Stages'
    PROVE  Forward'
<1> SUFFICES ASSUME NEW k \in DOMAIN crs', NEW i \in CR, Exists(crs'[k][i])
             PROVE  NotTakenBack(crs'[k][i], Live'[i])
  BY DEF Forward
<1>1. CASE crs'[k] = Live'
  BY <1>1 DEF Stages, Ordered, NotTakenBack, Exists
<1>2. ASSUME NEW m \in DOMAIN crs, crs'[k] = crs[m] PROVE NotTakenBack(crs'[k][i], Live'[i])
  <2>1. NotTakenBack(crs[m][i], Live[i])
    BY <1>2 DEF Forward
  <2> QED
    BY <1>2, <2>1 DEF Advances, NotTakenBack
<1> QED
  BY <1>1, <1>2 DEF Delivered

-----------------------------------------------------------------------------
(* What ensureBrokers, or a human, may write.                                *)
DeletedCR(j) == Live[j].st = "live" /\ Live'[j] = [Live[j] EXCEPT !.st = "deleting"]
MarkedCR(j) ==
    /\ Exists(Live[j]) /\ Live'[j] = [Live[j] EXCEPT !.decom = TRUE]
    /\ ~Live[j].done /\ (Live[j].lost => Live[j].released)
Touched(j) == Live'[j] = Live[j] \/ DeletedCR(j) \/ MarkedCR(j)
CreatedCR(f) ==
    /\ desired /\ Live[f].st = "none" /\ Live'[f] = Fresh
    /\ \A k \in CR : ~Holder(k)
ListStep ==
    \/ \A j \in CR : Touched(j)
    \/ \E f \in CR : CreatedCR(f) /\ \A j \in CR \ {f} : Touched(j)

(* A mark is only written when the cache shows the CR as it is.              *)
NewlyMarked(j) ==
    /\ Live'[j] = [Live[j] EXCEPT !.decom = TRUE]
    /\ Cache[j] = Live[j]
    /\ j \in TombstonesToMark \/ (~desired /\ j \in ExcessToMark)
EnsureWrite(j) == Live'[j] = Live[j] \/ DeletedCR(j) \/ NewlyMarked(j)
EnsureDetail ==
    \/ \A j \in CR : EnsureWrite(j)
    \/ \E f \in CR : CreatedCR(f) /\ \A j \in CR \ {f} : EnsureWrite(j)

LEMMA CurrentIsLive ==
    ASSUME TypeOK, NEW j \in CR, Current(j)
    PROVE  Cache[j] = Live[j]
<1>1. crs \in Seq(CRs) /\ Len(crs) \in 1 .. MaxLag + 1
  BY DEF TypeOK, CRs
<1>2. Len(crs) \in DOMAIN crs
  BY <1>1, LimitAssumption
<1> QED
  BY <1>2 DEF Current, Live

(* Which CRs the two loops after the desired one are about.                  *)
LEMMA LoopSets ==
    ASSUME NEW j \in CR
    PROVE  /\ j \in TombstonesToMark =>
                 /\ Cache[j].st = "live" /\ Cache[j].lost /\ Cache[j].released
                 /\ ~Cache[j].done /\ ~Cache[j].decom /\ Cache[j].id # 0
                 /\ desired => ReplacementRegistered
           /\ j \in TombstonesToDelete => Exists(Cache[j]) /\ Cache[j].lost
           /\ j \in Finished => Exists(Cache[j]) /\ ~Cache[j].lost /\ Cache[j].done
           /\ j \in ExcessToMark => Exists(Cache[j]) /\ ~Cache[j].lost /\ ~Cache[j].done
           /\ j \in TombstonesToMark => j \notin TombstonesToDelete
           /\ j \in ExcessToMark => j \notin Finished
<1>1. \A t \in Tombstones : t \in CR /\ Exists(Cache[t]) /\ Cache[t].lost
  BY DEF Tombstones, Listed
<1>2. j \in LiveBrokers => Exists(Cache[j]) /\ ~Cache[j].lost
  BY DEF LiveBrokers, Tombstones, Listed
<1>3. j \in TombstonesToMark =>
         /\ Cache[j].st = "live" /\ Cache[j].lost /\ Cache[j].released
         /\ ~Cache[j].done /\ ~Cache[j].decom /\ Cache[j].id # 0
         /\ desired => ReplacementRegistered
  BY <1>1 DEF TombstonesToMark, Pending
<1>4. j \in TombstonesToDelete => Exists(Cache[j]) /\ Cache[j].lost
  BY <1>1 DEF TombstonesToDelete
<1>5. j \in TombstonesToMark => j \notin TombstonesToDelete
  BY <1>3 DEF TombstonesToDelete
<1>6. j \in Finished => Exists(Cache[j]) /\ ~Cache[j].lost /\ Cache[j].done
  BY <1>2 DEF Finished
<1>7. j \in ExcessToMark => Exists(Cache[j]) /\ ~Cache[j].lost /\ ~Cache[j].done
  BY <1>2 DEF ExcessToMark
<1> QED
  BY <1>3, <1>4, <1>5, <1>6, <1>7

LEMMA DeletedMarkedAt ==
    ASSUME NEW s \in CRs, NEW j \in CR, NEW B, NEW C, j \in C => j \notin B
    PROVE  LET r == Marked(Deleted(s, B), C)
           IN  \/ r[j] = s[j]
               \/ j \in B /\ s[j].st = "live" /\ r[j] = [s[j] EXCEPT !.st = "deleting"]
               \/ j \in C /\ r[j] = [s[j] EXCEPT !.decom = TRUE]
<1>1. Deleted(s, B)[j] = IF j \in B /\ s[j].st = "live" THEN [s[j] EXCEPT !.st = "deleting"] ELSE s[j]
  BY DEF Deleted
<1>2. Marked(Deleted(s, B), C)[j] = IF j \in C THEN [Deleted(s, B)[j] EXCEPT !.decom = TRUE]
                                    ELSE Deleted(s, B)[j]
  BY DEF Marked
<1> QED
  BY <1>1, <1>2

LEMMA AfterTombstonesAt ==
    ASSUME NEW s \in CRs, NEW j \in CR
    PROVE  \/ AfterTombstones(s)[j] = s[j]
           \/ /\ j \in TombstonesToDelete /\ s[j].st = "live"
              /\ AfterTombstones(s)[j] = [s[j] EXCEPT !.st = "deleting"]
           \/ /\ j \in TombstonesToMark /\ Current(j)
              /\ AfterTombstones(s)[j] = [s[j] EXCEPT !.decom = TRUE]
<1> DEFINE conflicts == {t \in TombstonesToMark : ~Current(t)}
           B == {t \in TombstonesToDelete : \A u \in conflicts : t < u}
           C == TombstonesToMark \ conflicts
<1>1. AfterTombstones(s) = Marked(Deleted(s, B), C)
  BY DEF AfterTombstones
<1>2. /\ j \in C => j \in TombstonesToMark /\ Current(j)
      /\ j \in B => j \in TombstonesToDelete
      /\ j \in C => j \notin B
  BY LoopSets
<1> HIDE DEF B, C
<1> QED
  BY <1>1, <1>2, DeletedMarkedAt

LEMMA AfterExcessAt ==
    ASSUME NEW s \in CRs, NEW j \in CR
    PROVE  \/ AfterExcess(s)[j] = s[j]
           \/ /\ ~desired /\ j \in Finished /\ s[j].st = "live"
              /\ AfterExcess(s)[j] = [s[j] EXCEPT !.st = "deleting"]
           \/ /\ ~desired /\ j \in ExcessToMark /\ Current(j)
              /\ AfterExcess(s)[j] = [s[j] EXCEPT !.decom = TRUE]
<1> DEFINE C == {i \in ExcessToMark : Current(i)}
<1>1. j \in C => j \in ExcessToMark /\ Current(j) /\ j \notin Finished
  BY LoopSets
<1>2. AfterExcess(s) = s \/ (~desired /\ AfterExcess(s) = Marked(Deleted(s, Finished), C))
  BY DEF AfterExcess
<1> HIDE DEF C
<1> QED
  BY <1>1, <1>2, DeletedMarkedAt

LEMMA EnsureBrokersDetail ==
    ASSUME TypeOK, Forward, CreateListsHolders, EnsureBrokers
    PROVE  EnsureDetail
<1>0. Live \in CRs
  BY LiveTypes
<1>1. PICK s \in AfterDesired : Put(AfterExcess(AfterTombstones(s)))
  BY DEF EnsureBrokers
<1> DEFINE r == AfterTombstones(s)
           M == AfterExcess(r)
<1>2. s \in CRs
  BY AfterDesiredKeeps
<1>3. r \in CRs /\ M \in CRs
  <2>1. M \in CRs
    BY <1>2, AfterTombstonesKeeps
  <2>2. r \in CRs
    <3> DEFINE B == {t \in TombstonesToDelete :
                       \A v \in {x \in TombstonesToMark : ~Current(x)} : t < v}
               C == TombstonesToMark \ {x \in TombstonesToMark : ~Current(x)}
    <3>1. r = Marked(Deleted(s, B), C)
      BY DEF AfterTombstones
    <3> HIDE DEF B, C
    <3>2. Deleted(s, B) \in CRs
      BY <1>2, DeletedKeeps
    <3> QED
      BY <3>1, <3>2, DeletedKeeps
  <2> QED
    BY <2>1, <2>2
<1>4. Live' = M
  BY <1>1, <1>3, PutEffect
<1>5. ASSUME NEW j \in CR
      PROVE  \/ M[j] = s[j]
             \/ s[j].st = "live" /\ M[j] = [s[j] EXCEPT !.st = "deleting"] /\ Exists(Cache[j])
                /\ (desired => Cache[j].lost)
             \/ /\ M[j] = [s[j] EXCEPT !.decom = TRUE] /\ Current(j) /\ Exists(Cache[j])
                /\ j \in TombstonesToMark \/ (~desired /\ j \in ExcessToMark)
                /\ desired => Cache[j].lost
  <2>1. \/ r[j] = s[j]
        \/ /\ j \in TombstonesToDelete /\ s[j].st = "live"
           /\ r[j] = [s[j] EXCEPT !.st = "deleting"]
        \/ /\ j \in TombstonesToMark /\ Current(j)
           /\ r[j] = [s[j] EXCEPT !.decom = TRUE]
    BY <1>2, AfterTombstonesAt
  <2>2. \/ M[j] = r[j]
        \/ /\ ~desired /\ j \in Finished /\ r[j].st = "live"
           /\ M[j] = [r[j] EXCEPT !.st = "deleting"]
        \/ /\ ~desired /\ j \in ExcessToMark /\ Current(j)
           /\ M[j] = [r[j] EXCEPT !.decom = TRUE]
    BY <1>3, AfterExcessAt
  <2> HIDE DEF r, M
  <2> QED
    BY <2>1, <2>2, LoopSets DEF Exists
<1> HIDE DEF r, M
<1>6. ASSUME NEW j \in CR, s[j] = Live[j] PROVE EnsureWrite(j)
  BY <1>4, <1>5, <1>6, CurrentIsLive DEF EnsureWrite, DeletedCR, NewlyMarked
<1> DEFINE B == {i \in Finished : Cache[i].decom /\ Cache[i].st = "live"}
<1>7. CASE s = Live
  BY <1>6, <1>7 DEF EnsureDetail
<1>8. CASE desired /\ s = Deleted(Live, B)
  <2>1. ASSUME NEW j \in CR PROVE EnsureWrite(j)
    <3>1. s[j] = IF j \in B /\ Live[j].st = "live" THEN [Live[j] EXCEPT !.st = "deleting"] ELSE Live[j]
      BY <1>8 DEF Deleted
    <3>2. CASE s[j] = Live[j]
      BY <1>6, <3>2
    <3>3. CASE s[j] # Live[j]
      <4>1. j \in Finished /\ Live[j].st = "live" /\ s[j] = [Live[j] EXCEPT !.st = "deleting"]
        BY <3>1, <3>3
      <4>2. ~Cache[j].lost
        BY <4>1, LoopSets
      <4>3. M[j] = s[j]
        BY <1>5, <1>8, <4>2
      <4> QED
        BY <1>4, <4>1, <4>3 DEF EnsureWrite, DeletedCR
    <3> QED
      BY <3>2, <3>3
  <2> QED
    BY <2>1 DEF EnsureDetail
<1>9. ASSUME desired, LiveBrokers = {}, ~Pinned, NEW f \in Unused, s = [Live EXCEPT ![f] = Fresh]
      PROVE  EnsureDetail
  <2>1. f \in CR /\ Live[f].st = "none"
    BY DEF Unused
  <2>2. 1 \in DOMAIN crs /\ Cache = crs[1]
    <3>1. crs \in Seq(CRs) /\ Len(crs) \in 1 .. MaxLag + 1
      BY DEF TypeOK, CRs
    <3> QED
      BY <3>1, LimitAssumption DEF Cache
  <2>3. ASSUME NEW k \in CR, Exists(Cache[k])
        PROVE  Live[k].st # "none" /\ (Cache[k].released => Live[k].released)
    BY <2>2, <2>3 DEF Forward, NotTakenBack
  <2>4. s[f] = Fresh /\ \A j \in CR \ {f} : s[j] = Live[j]
    BY <1>0, <1>9, <2>1 DEF CRs
  <2>5. Live'[f] = Fresh
    BY <1>4, <1>5, <2>1, <2>3, <2>4
  <2>6. \A k \in CR : Holder(k) => k \in Listed
    BY <2>1, <2>5, FreshTypes DEF CreateListsHolders, Fresh, Absent
  <2>7. \A k \in CR : ~Holder(k)
    <3> SUFFICES ASSUME NEW k \in CR, Holder(k) PROVE FALSE
      OBVIOUS
    <3>1. k \in Listed /\ Exists(Cache[k]) /\ ~Live[k].released
      BY <2>6 DEF Holder, Listed
    <3>2. k \in Tombstones
      BY <1>9, <3>1 DEF LiveBrokers
    <3>3. Cache[k].released
      BY <1>9, <3>2 DEF Pinned
    <3> QED
      BY <2>3, <3>1, <3>3
  <2> QED
    BY <1>6, <1>9, <2>1, <2>4, <2>5, <2>7 DEF EnsureDetail, CreatedCR
<1>10. \/ s = Live
       \/ desired /\ s = Deleted(Live, B)
       \/ /\ desired /\ LiveBrokers = {} /\ ~Pinned
          /\ \E f \in Unused : s = [Live EXCEPT ![f] = Fresh]
  BY Zenon DEF AfterDesired
<1> QED
  BY <1>7, <1>8, <1>9, <1>10

LEMMA WriteIsTouched ==
    ASSUME NEW j \in CR, EnsureWrite(j)
    PROVE  Touched(j)
  BY LoopSets DEF EnsureWrite, NewlyMarked, Touched, MarkedCR, Exists

LEMMA EnsureIsListStep ==
    ASSUME TypeOK, Forward, CreateListsHolders, EnsureBrokers
    PROVE  ListStep
  BY WriteIsTouched, EnsureBrokersDetail DEF EnsureDetail, ListStep

LEMMA ByHandIsListStep ==
    ASSUME TypeOK, Stages, NEW i \in CR, DecommissionByHand(i) \/ DeleteByHand(i)
    PROVE  ListStep
<1>1. Live' \in {Marked(Live, {i}), Deleted(Live, {i})} /\ Live[i].st = "live"
      /\ (Live' # Deleted(Live, {i}) => DecommissionByHand(i))
  BY LiveTypes, DeletedKeeps, PutEffect DEF DecommissionByHand, DeleteByHand
<1>2. CASE Live' = Deleted(Live, {i})
  <2>1. \A j \in CR : Live'[j] = IF j = i THEN [Live[j] EXCEPT !.st = "deleting"] ELSE Live[j]
    BY <1>1, <1>2 DEF Deleted
  <2> QED
    BY <1>1, <2>1 DEF Touched, DeletedCR, ListStep
<1>3. CASE Live' = Marked(Live, {i}) /\ DecommissionByHand(i)
  <2>1. \A j \in CR : Live'[j] = IF j = i THEN [Live[j] EXCEPT !.decom = TRUE] ELSE Live[j]
    BY <1>3 DEF Marked
  <2>2. Exists(Live[i]) /\ ~Live[i].lost /\ ~Live[i].done
    BY <1>3 DEF DecommissionByHand, Exists, Stages, Ordered
  <2> QED
    BY <2>1, <2>2 DEF Touched, MarkedCR, ListStep
<1> QED
  BY <1>1, <1>2, <1>3

-----------------------------------------------------------------------------
(* A write of that kind keeps the succession in order.                       *)
LEMMA TouchedKeeps ==
    ASSUME TypeOK, NEW j \in CR, Touched(j)
    PROVE  /\ Live'[j].id = Live[j].id /\ Live'[j].lost = Live[j].lost
           /\ Live'[j].released = Live[j].released /\ Live'[j].done = Live[j].done
           /\ Live[j].decom => Live'[j].decom
           /\ Live'[j].decom => Live[j].decom \/ MarkedCR(j)
           /\ Exists(Live'[j]) <=> Exists(Live[j])
           /\ Live[j].st = "deleting" => Live'[j].st = "deleting"
           /\ Live'[j].st = "deleting" => Live[j].st = "deleting" \/ DeletedCR(j)
           /\ ~Exists(Live[j]) => Live'[j] = Live[j]
<1>1. Live[j] \in Record
  BY LiveTypes DEF CRs
<1>2. CASE Live'[j] = Live[j]
  BY <1>2
<1>3. CASE DeletedCR(j)
  BY <1>1, <1>3 DEF DeletedCR, Record, Exists
<1>4. CASE MarkedCR(j)
  BY <1>1, <1>4 DEF MarkedCR, Record, Exists
<1> QED
  BY <1>2, <1>3, <1>4 DEF Touched

LEMMA FreshFacts ==
    /\ Fresh.st = "live" /\ ~Fresh.decom /\ ~Fresh.done /\ Fresh.id = 0
    /\ ~Fresh.lost /\ ~Fresh.released
  BY DEF Fresh, Absent

LEMMA ListStepKeeps ==
    ASSUME IndexInv, ListStep, UNCHANGED <<seen, pod, pvc, redpanda>>, PinInv'
    PROVE  IndexInv' /\ \A j \in CR : Advances(j)
<1>0. TypeOK
  BY DEF IndexInv, PinInv
<1> DEFINE Split(F) == /\ \A f \in F : CreatedCR(f)
                       /\ \A f, g \in F : f = g
                       /\ \A j \in CR \ F : Touched(j)
<1>s. \E F \in SUBSET CR : Split(F)
  <2>1. CASE \A j \in CR : Touched(j)
    <3>1. {} \in SUBSET CR /\ Split({})
      BY <2>1
    <3> HIDE DEF Split
    <3> QED
      BY <3>1
  <2>2. ASSUME NEW f \in CR, CreatedCR(f), \A j \in CR \ {f} : Touched(j)
        PROVE  \E F \in SUBSET CR : Split(F)
    <3>1. {f} \in SUBSET CR /\ Split({f})
      BY <2>2
    <3> HIDE DEF Split
    <3> QED
      BY <3>1
  <2> HIDE DEF Split
  <2>3. (\A j \in CR : Touched(j)) \/ \E f \in CR : CreatedCR(f) /\ \A j \in CR \ {f} : Touched(j)
    BY DEF ListStep
  <2> QED
    BY <2>1, <2>2, <2>3
<1>1. PICK F \in SUBSET CR : Split(F)
  BY <1>s
<1>2. ASSUME NEW f \in F
      PROVE  Live[f].st = "none" /\ Live'[f] = Fresh /\ f \in CR /\ \A k \in CR : ~Holder(k)
  BY <1>1 DEF CreatedCR
<1>3. ASSUME NEW j \in CR, Exists(Live[j]) PROVE j \notin F
  BY <1>2, <1>3 DEF Exists
<1>4. ASSUME NEW j \in CR, Holder(j)' PROVE Holder(j) \/ j \in F
  BY <1>0, <1>1, <1>4, TouchedKeeps DEF Holder
<1>5. ASSUME NEW j \in CR, Holder(j) PROVE Holder(j)'
  BY <1>0, <1>1, <1>3, <1>5, TouchedKeeps DEF Holder
<1>6. OneHolder'
  BY <1>1, <1>2, <1>4 DEF OneHolder, IndexInv
<1>7. Copies'
  <2> SUFFICES ASSUME NEW j \in CR, Exists(seen[j])
               PROVE  /\ Exists(Live'[j])
                      /\ seen[j].id = Live'[j].id /\ seen[j].lost = Live'[j].lost
                      /\ seen[j].released = Live'[j].released /\ seen[j].done = Live'[j].done
                      /\ seen[j].decom => Live'[j].decom
                      /\ seen[j].st = "deleting" => Live'[j].st = "deleting"
                      /\ seen[j].done => seen[j].decom
    BY DEF Copies
  <2>1. Exists(Live[j])
    BY DEF IndexInv, Copies
  <2>2. Touched(j)
    BY <1>1, <1>3, <2>1
  <2> QED
    BY <1>0, <2>1, <2>2, TouchedKeeps DEF IndexInv, Copies
<1>8. Stages'
  <2> SUFFICES ASSUME NEW j \in CR, Exists(Live'[j])
               PROVE  /\ Live'[j].released => Live'[j].lost
                      /\ Live'[j].lost /\ Live'[j].decom => Live'[j].released
                      /\ Live'[j].done => Live'[j].decom
                      /\ Live'[j].lost /\ Live'[j].done => Live'[j].id = 0
    BY DEF Stages, Ordered
  <2>1. CASE j \in F
    BY <1>2, <2>1, FreshFacts
  <2>2. CASE j \notin F
    <3>1. Touched(j)
      BY <1>1, <2>2
    <3>2. Exists(Live[j])
      BY <1>0, <3>1, TouchedKeeps
    <3>3. MarkedCR(j) => (Live[j].lost => Live[j].released)
      BY DEF MarkedCR
    <3> QED
      BY <1>0, <3>1, <3>2, <3>3, TouchedKeeps DEF IndexInv, Stages, Ordered
  <2> QED
    BY <2>1, <2>2
<1>9. PodOwned'
  <2> SUFFICES ASSUME pod.st # "none", pod.owner # 0
               PROVE  \/ Holder(pod.owner)'
                      \/ /\ Live'[pod.owner].st = "gone" /\ Live'[pod.owner].decom
                         /\ ~Live'[pod.owner].lost /\ pod.del
    BY DEF PodOwned, Holder
  <2>0. pod.owner \in CR
    BY <1>0 DEF TypeOK, Pod, CR
  <2>1. CASE Holder(pod.owner)
    BY <1>5, <2>0, <2>1 DEF Holder
  <2>2. CASE /\ Live[pod.owner].st = "gone" /\ Live[pod.owner].decom
             /\ ~Live[pod.owner].lost /\ pod.del
    <3>1. pod.owner \notin F
      BY <1>2, <2>2
    <3>2. Live'[pod.owner] = Live[pod.owner]
      BY <1>0, <1>1, <2>0, <2>2, <3>1, TouchedKeeps DEF Exists
    <3> QED
      BY <2>2, <3>2
  <2> QED
    BY <2>1, <2>2 DEF IndexInv, PodOwned
<1>10. LostHolder' /\ DoneHolder'
  <2>1. ASSUME NEW j \in CR, Holder(j)', Live'[j].lost \/ Live'[j].done
        PROVE  Holder(j) /\ Live'[j].lost = Live[j].lost /\ Live'[j].done = Live[j].done
    <3>1. j \notin F
      BY <1>2, <2>1, FreshFacts
    <3> QED
      BY <1>0, <1>1, <1>4, <2>1, <3>1, TouchedKeeps
  <2>2. LostHolder'
    BY <2>1 DEF IndexInv, LostHolder
  <2>3. DoneHolder'
    BY <2>1 DEF IndexInv, DoneHolder
  <2> QED
    BY <2>2, <2>3
<1>11. DiskFacts'
  BY DEF IndexInv, DiskFacts, redpanda
<1>12. ASSUME NEW j \in CR PROVE Advances(j)
  <2>1. CASE j \in F
    BY <1>2, <2>1 DEF Advances
  <2>2. CASE j \notin F
    BY <1>0, <1>1, <2>2, LiveTypes, TouchedKeeps DEF Advances, Exists, CRs, Record
  <2> QED
    BY <2>1, <2>2
<1> QED
  BY <1>6, <1>7, <1>8, <1>9, <1>10, <1>11, <1>12 DEF IndexInv

-----------------------------------------------------------------------------
(* Kubelet, Redpanda and faults, which write no CR.                          *)
LEMMA SameCRs ==
    ASSUME IndexInv, Live' = Live, UNCHANGED seen
    PROVE  /\ OneHolder' /\ Copies' /\ Stages'
           /\ \A i \in CR : (Holder(i)' <=> Holder(i)) /\ Advances(i)
<1>1. \A i \in CR : Advances(i)
  BY DEF Advances
<1>2. \A i \in CR : Holder(i)' <=> Holder(i)
  BY DEF Holder
<1>3. OneHolder'
  BY <1>2 DEF IndexInv, OneHolder
<1>4. Copies' /\ Stages'
  BY DEF IndexInv, Copies, Stages, Ordered
<1> QED
  BY <1>1, <1>2, <1>3, <1>4

(* How pod and disk may change without a write of a CR.                      *)
WorldStep ==
    /\ pod'.st # "none" => /\ pod.st # "none" /\ pod'.owner = pod.owner
                           /\ pod.del => pod'.del
    /\ pod'.st \in {"none", pod.st} \/ pod.st \in {"pending", "running"}
          \/ (pvc.data # 0 /\ pvc.node = "alive")
    /\ pvc'.st = "bound" => pvc.st = "bound"
    /\ pvc'.st = "bound" => \/ pvc'.lost \/ pvc'.data = 0
                            \/ pvc'.lost = pvc.lost /\ pvc'.data = pvc.data
                            \/ pod.st = "running"

LEMMA WorldKeeps ==
    ASSUME IndexInv, UNCHANGED <<crs, seen>>, WorldStep, DiskFacts', PinInv'
    PROVE  IndexInv' /\ \A i \in CR : Advances(i)
<1>0. Live' = Live
  BY DEF Live
<1>1. /\ OneHolder' /\ Copies' /\ Stages' /\ Live' = Live
      /\ \A i \in CR : (Holder(i)' <=> Holder(i)) /\ Advances(i)
  BY <1>0, SameCRs
<1>2. PodOwned'
  <2> SUFFICES ASSUME pod'.st # "none", pod'.owner # 0
               PROVE  \/ Exists(Live'[pod'.owner]) /\ ~Live'[pod'.owner].released
                      \/ /\ Live'[pod'.owner].st = "gone" /\ Live'[pod'.owner].decom
                         /\ ~Live'[pod'.owner].lost /\ pod'.del
    BY DEF PodOwned, Holder
  <2> QED
    BY <1>0 DEF IndexInv, PodOwned, WorldStep, Holder
<1>3. LostHolder'
  <2> SUFFICES ASSUME NEW i \in CR, Holder(i), Live[i].lost
               PROVE  /\ pod'.st \in {"none", "unsched", "refused"}
                      /\ pod'.st # "none" => pod'.owner # 0
                      /\ pvc'.st = "bound" => pvc'.lost \/ pvc'.data = 0
    BY <1>1 DEF LostHolder
  <2>1. /\ pod.st \in {"none", "unsched", "refused"} /\ (pvc.st = "bound" => pvc.lost \/ pvc.data = 0)
        /\ pod.st # "none" => pod.owner # 0
    BY DEF IndexInv, LostHolder
  <2>2. pod'.st \in {"none", pod.st}
    <3>1. CASE pvc.data # 0 /\ pvc.node = "alive"
      <4>1. pod.st = "none"
        BY <2>1, <3>1 DEF IndexInv, PinInv, PodFitsDisk
      <4> QED
        BY <4>1 DEF WorldStep
    <3> QED
      BY <2>1, <3>1 DEF WorldStep
  <2> QED
    BY <2>1, <2>2 DEF WorldStep
<1>4. DoneHolder'
  <2> SUFFICES ASSUME NEW i \in CR, Holder(i), Live[i].done
               PROVE  /\ pvc'.st # "bound"
                      /\ pod'.st # "none" => pod'.owner # 0
                      /\ pod'.st # "none" /\ pod'.owner = i => pod'.del
    BY <1>1 DEF DoneHolder
  <2> QED
    BY DEF IndexInv, DoneHolder, WorldStep
<1> QED
  BY <1>1, <1>2, <1>3, <1>4 DEF IndexInv

LEMMA ExternalKeeps ==
    ASSUME IndexInv, PinInv',
           \/ ScaleDown \/ PodLost \/ NodeDies \/ DiskWiped
           \/ PodStarts \/ Joins \/ PodGone \/ ClaimGone
           \/ \E d \in Id : ReportedDead(d) \/ DrainFinishes(d)
    PROVE  IndexInv' /\ \A i \in CR : Advances(i)
<1>0. /\ pod \in Pod /\ pvc \in Claim
      /\ member \in [Id -> {"none", "active", "draining", "removed"}]
  BY DEF IndexInv, PinInv, TypeOK
<1>1. UNCHANGED <<crs, seen>>
  BY Zenon DEF ScaleDown, PodLost, NodeDies, DiskWiped, PodStarts, Joins, PodGone, ClaimGone,
               ReportedDead, DrainFinishes
<1>2. CASE ScaleDown \/ \E d \in Id : ReportedDead(d) \/ DrainFinishes(d)
  <2>1. UNCHANGED <<pod, pvc>>
    BY <1>2, Zenon DEF ScaleDown, ReportedDead, DrainFinishes
  <2>2. WorldStep
    BY <2>1 DEF WorldStep
  <2>3. DiskFacts'
    <3>1. CASE ScaleDown
      BY <2>1, <3>1 DEF ScaleDown, redpanda, IndexInv, DiskFacts
    <3>2. ASSUME NEW d \in Id, ReportedDead(d) PROVE DiskFacts'
      BY <2>1, <3>2 DEF ReportedDead, RunningId, IndexInv, DiskFacts
    <3>3. ASSUME NEW d \in Id, DrainFinishes(d) PROVE DiskFacts'
      <4>1. pvc.data \in Id \cup {0}
        BY <1>0 DEF Claim, Id
      <4> QED
        BY <1>0, <2>1, <3>3, <4>1 DEF DrainFinishes, IndexInv, DiskFacts
    <3> QED
      BY <1>2, <3>1, <3>2, <3>3
  <2> QED
    BY <1>1, <2>2, <2>3, WorldKeeps
<1>3. CASE PodStarts
  <2>1. /\ pod.st = "pending" /\ pod'.st \in {"unsched", "refused", "running"}
        /\ pod'.owner = pod.owner /\ pod'.del = pod.del /\ pvc' = pvc
    BY <1>0, <1>3 DEF PodStarts, Pod
  <2>2. WorldStep
    BY <2>1 DEF WorldStep
  <2>3. DiskFacts'
    BY <2>1 DEF IndexInv, DiskFacts
  <2> QED
    BY <1>1, <2>2, <2>3, WorldKeeps
<1>4. CASE Joins
  <2>1. PICK d \in Id : /\ pvc' = [pvc EXCEPT !.data = d, !.lost = FALSE]
                        /\ believed' = believed \cup {d}
    BY <1>4 DEF Joins
  <2>2. /\ pod.st = "running" /\ pod'.st = "up" /\ pod'.owner = pod.owner /\ pod'.del = pod.del
        /\ pvc'.st = pvc.st /\ pvc'.node = pvc.node /\ pvc'.data = d
    BY <1>0, <1>4, <2>1 DEF Joins, Pod, Claim
  <2>3. WorldStep
    BY <2>2 DEF WorldStep
  <2>4. pvc.node = "alive" /\ d # 0
    BY <2>2 DEF IndexInv, PinInv, PodFitsDisk, Id
  <2>5. DiskFacts'
    BY <2>1, <2>2, <2>4 DEF DiskFacts
  <2> QED
    BY <1>1, <2>3, <2>5, WorldKeeps
<1>5. CASE PodGone \/ PodLost \/ NodeDies \/ ClaimGone
  <2>1. pod'.st = "none"
    BY <1>5 DEF PodGone, PodLost, NodeDies, ClaimGone, NoPod
  <2>2. \/ pvc' = pvc \/ pvc' = NoClaim \/ pvc' = [pvc EXCEPT !.node = "gone", !.lost = TRUE]
    BY <1>5, Zenon DEF PodGone, PodLost, NodeDies, ClaimGone
  <2>3. pvc' = pvc \/ (pvc'.st = "none" /\ pvc'.node = "alive") \/ (pvc'.st = pvc.st /\ pvc'.lost)
    <3>1. CASE pvc' = NoClaim
      BY <3>1 DEF NoClaim
    <3>2. CASE pvc' = [pvc EXCEPT !.node = "gone", !.lost = TRUE]
      BY <1>0, <3>2 DEF Claim
    <3> QED
      BY <2>2, <3>1, <3>2
  <2>4. WorldStep
    BY <2>1, <2>3 DEF WorldStep
  <2>5. DiskFacts'
    BY <2>1, <2>3 DEF IndexInv, DiskFacts
  <2> QED
    BY <1>1, <2>4, <2>5, WorldKeeps
<1>6. CASE DiskWiped
  <2>1. /\ pod'.st \in {"none", "pending"} /\ (pod'.st # "none" => pod.st # "none")
        /\ pod'.owner = pod.owner /\ pod'.del = pod.del
    BY <1>0, <1>6 DEF DiskWiped, Pod
  <2>2. /\ pvc'.st = pvc.st /\ pvc'.lost /\ pvc.data # 0 /\ pvc.node = "alive"
    BY <1>0, <1>6 DEF DiskWiped, Claim
  <2>3. WorldStep
    BY <2>1, <2>2 DEF WorldStep
  <2>4. DiskFacts'
    BY <2>1, <2>2 DEF DiskFacts
  <2> QED
    BY <1>1, <2>3, <2>4, WorldKeeps
<1> QED
  BY <1>2, <1>3, <1>4, <1>5, <1>6

LEMMA DeliverKeeps ==
    ASSUME IndexInv, PinInv', Deliver
    PROVE  IndexInv' /\ \A i \in CR : Advances(i)
<1>1. Live' = Live /\ UNCHANGED <<seen, pod, pvc, redpanda>>
  BY DeliverDelivered DEF IndexInv, PinInv, Deliver
<1>2. OneHolder' /\ Copies' /\ Stages' /\ \A i \in CR : (Holder(i)' <=> Holder(i)) /\ Advances(i)
  BY <1>1, SameCRs
<1>3. PodOwned' /\ LostHolder' /\ DoneHolder' /\ DiskFacts'
  BY <1>1 DEF IndexInv, PodOwned, LostHolder, DoneHolder, DiskFacts, Holder, redpanda
<1> QED
  BY <1>2, <1>3 DEF IndexInv

LEMMA BeginPassKeeps ==
    ASSUME IndexInv, Forward, PinInv', NEW i \in CR, BeginPass(i), ReadsOwnWrites(i)
    PROVE  IndexInv' /\ \A j \in CR : Advances(j)
<1>1. Live' = Live /\ UNCHANGED <<pod, pvc, redpanda>>
  BY DEF BeginPass, Live
<1>2. ASSUME NEW j \in CR PROVE seen'[j] = IF j = i THEN Cache[j] ELSE seen[j]
  BY DEF BeginPass, IndexInv, PinInv, TypeOK
<1>3. Exists(Cache[i]) /\ NotTakenBack(Cache[i], Live[i])
  <2>1. crs \in Seq(CRs) /\ Len(crs) \in 1 .. MaxLag + 1
    BY DEF IndexInv, PinInv, TypeOK, CRs
  <2>2. 1 \in DOMAIN crs /\ Cache = crs[1]
    BY <2>1, LimitAssumption DEF Cache
  <2> QED
    BY <2>2 DEF BeginPass, Forward
<1>4. Copies'
  <2> SUFFICES ASSUME NEW j \in CR, Exists(seen'[j])
               PROVE  /\ Exists(Live'[j])
                      /\ seen'[j].id = Live'[j].id /\ seen'[j].lost = Live'[j].lost
                      /\ seen'[j].released = Live'[j].released /\ seen'[j].done = Live'[j].done
                      /\ seen'[j].decom => Live'[j].decom
                      /\ seen'[j].st = "deleting" => Live'[j].st = "deleting"
                      /\ seen'[j].done => seen'[j].decom
    BY DEF Copies
  <2>1. CASE j = i
    BY <1>1, <1>2, <1>3, <2>1 DEF ReadsOwnWrites, NotTakenBack, Exists
  <2>2. CASE j # i
    BY <1>1, <1>2, <2>2 DEF IndexInv, Copies
  <2> QED
    BY <2>1, <2>2
<1>5. OneHolder' /\ Stages' /\ PodOwned'
  BY <1>1 DEF IndexInv, OneHolder, Stages, Ordered, PodOwned, Holder
<1>6. LostHolder' /\ DoneHolder' /\ DiskFacts'
  BY <1>1 DEF IndexInv, LostHolder, DoneHolder, DiskFacts, Holder, redpanda
<1>7. \A j \in CR : Advances(j)
  BY <1>1 DEF Advances
<1> QED
  BY <1>4, <1>5, <1>6, <1>7 DEF IndexInv

-----------------------------------------------------------------------------
(* A Broker pass: what it writes to its CR, what it does to pod, claim and   *)
(* membership, and why.                                                      *)
WritePart(i, c) ==
    /\ c.decom = seen[i].decom
    /\ seen[i].released => c.released
    /\ c.released /\ ~seen[i].released => pvc.st = "none"
    /\ seen[i].lost => c.lost
    /\ seen[i].done => c.done
    /\ c.st \in {seen[i].st, "gone"}
    /\ Exists(c) => Ordered(c)
    /\ c.lost /\ ~seen[i].lost =>
          LostDisk(i) /\ ~seen[i].decom /\ c.id = seen[i].id /\ UNCHANGED <<pod, pvc>>
    /\ \/ c.id \in {seen[i].id, 0}
       \/ ~seen[i].lost /\ c.id \in Id /\ (ActiveAndAlive(c.id) \/ seen[i].decom)
PodPart(i, c) ==
    \/ /\ pod'.st = pod.st
       /\ pod.st # "none" => pod'.owner = pod.owner /\ (pod.del => pod'.del)
    \/ /\ pod.st = "none" /\ pod'.st = "pending" /\ pod'.owner = i
       /\ ~seen[i].lost /\ ~Podless(i) /\ c = seen[i]
    \/ /\ pod.st # "none" /\ pod.owner = 0 /\ pod'.owner = i
       /\ pod'.st = pod.st /\ pod'.del = pod.del /\ ~seen[i].lost /\ c = seen[i]
    \/ /\ pod.st # "none" /\ pod.owner = i /\ pod'.owner = 0
       /\ pod'.st = pod.st /\ pod'.del = pod.del /\ Live[i] = seen[i] /\ c.st = "gone"
ClaimPart(i) ==
    \/ pvc' = pvc
    \/ pvc' = DeletePVCs
    \/ pvc.st = "none" /\ pvc' = Blank /\ ~seen[i].lost /\ ~seen[i].decom
LeavePart(i, c) ==
    ~Exists(c) \/ (c.released /\ ~seen[i].released) =>
        \/ pod.st = "none" /\ pod'.st = "none"
        \/ pod.owner # i
        \/ pod'.owner = 0
        \/ c.st = "gone" /\ c.decom /\ ~c.lost /\ (Live[i] = seen[i] => pod'.del)
DonePart(i, c) ==
    c.done /\ ~seen[i].done =>
        \/ c.released
        \/ /\ pvc'.st # "bound"
           /\ pod.st # "none" => pod.owner # 0
           /\ pod.st # "none" /\ pod.owner = i => pod'.del
MemberPart(i) ==
    /\ believed' = believed
    /\ \A d \in Id :
          \/ member'[d] = member[d]
          \/ /\ member[d] = "active" /\ member'[d] = "draining"
             /\ d = Target(seen[i]) /\ seen[i].decom /\ (seen[i].lost => d \notin believed)
             /\ pod.st # "none" /\ ~seen[i].lost => pod.owner # 0
ReasonPart(i) ==
    (pod.st # "none" /\ ~pod.del /\ pod'.del) \/ (pvc.st = "bound" /\ pvc'.st = "terminating") =>
        \/ seen[i].lost /\ ~seen[i].released
        \/ ~seen[i].lost /\ seen[i].done
        \/ ~seen[i].lost /\ seen[i].id # 0 /\ seen[i].id \notin Members
PassParts(i, c) ==
    /\ WritePart(i, c) /\ PodPart(i, c) /\ ClaimPart(i) /\ LeavePart(i, c) /\ DonePart(i, c)
    /\ MemberPart(i) /\ ReasonPart(i)

LEMMA SeenIsOrdered ==
    ASSUME IndexInv, NEW i \in CR, Exists(seen[i])
    PROVE  /\ seen[i] \in Record /\ Ordered(seen[i]) /\ Exists(Live[i])
           /\ ~seen[i].lost => Holder(i)
           /\ seen[i].lost /\ ~seen[i].released => Holder(i)
<1>1. seen[i] \in Record
  BY DEF IndexInv, PinInv, TypeOK
<1>2. Exists(Live[i])
  BY DEF IndexInv, Copies
<1>3. Ordered(Live[i])
  BY <1>2 DEF IndexInv, Stages
<1>4. Ordered(seen[i])
  BY <1>3 DEF IndexInv, Copies, Ordered
<1> QED
  BY <1>1, <1>2, <1>3, <1>4 DEF IndexInv, Copies, Ordered, Holder

(* A CR that exists and owns the pod holds the index.                        *)
LEMMA OwnedByHolder ==
    ASSUME IndexInv, NEW i \in CR, Exists(Live[i]), pod.st # "none", pod.owner = i
    PROVE  Holder(i)
  BY DEF IndexInv, PodOwned, Exists, CR

LEMMA DeletePodFacts ==
    ASSUME TypeOK, pod.st # "none"
    PROVE  DeletePod.st = pod.st /\ DeletePod.owner = pod.owner /\ DeletePod.del
  BY DEF TypeOK, Pod, DeletePod

LEMMA DeletePVCsFacts ==
    ASSUME TypeOK
    PROVE  /\ DeletePVCs.st # "bound"
           /\ pvc.st = "none" => DeletePVCs = pvc
           /\ DeletePVCs.data = pvc.data /\ DeletePVCs.node = pvc.node /\ DeletePVCs.lost = pvc.lost
  BY DEF TypeOK, Claim, DeletePVCs

(* Passes that write back what they read, or the node_id they registered,    *)
(* and delete nothing.                                                       *)
LEMMA QuietPass ==
    ASSUME IndexInv, NEW i \in CR, Exists(seen[i]),
           AwaitClaim(i) \/ CreatePod(i) \/ AdoptPod(i) \/ Register(i),
           AdoptPod(i) => ~seen[i].lost
    PROVE  \E c \in Record : EndPass(i, c) /\ PassParts(i, c)
<1>0. /\ seen[i] \in Record /\ Ordered(seen[i]) /\ pod \in Pod
      /\ TypeOK /\ seen[i].st = "live"
  BY SeenIsOrdered DEF IndexInv, PinInv, TypeOK, AwaitClaim, CreatePod, AdoptPod, Register,
                       PastClaim, PastDiskLost
<1>1. UNCHANGED redpanda
  BY DEF AwaitClaim, CreatePod, AdoptPod, Register
<1>2. MemberPart(i)
  BY <1>1 DEF MemberPart, redpanda
<1>3. ClaimPart(i)
  <2>1. CASE AwaitClaim(i)
    BY <2>1 DEF AwaitClaim, ClaimPart
  <2>2. CASE PastClaim(i)
    BY <2>2 DEF PastClaim, PastDiskLost, ClaimPart
  <2> QED
    BY <2>1, <2>2 DEF CreatePod, AdoptPod, Register
<1>4. /\ pod.st # "none" => pod'.del = pod.del
      /\ PodPart(i, seen[i])
  <2>1. CASE AwaitClaim(i)
    BY <2>1 DEF AwaitClaim, PodPart
  <2>2. CASE CreatePod(i)
    <3>1. ~seen[i].lost
      BY <2>2 DEF CreatePod, PastClaim, PastDiskLost, Podless
    <3> QED
      BY <2>2, <3>1 DEF CreatePod, PodPart
  <2>3. CASE AdoptPod(i)
    <3>1. /\ pod.st # "none" /\ pod.owner = 0 /\ ~seen[i].lost
          /\ pod'.st = pod.st /\ pod'.owner = i /\ pod'.del = pod.del
      BY <1>0, <2>3 DEF AdoptPod, Pod
    <3> QED
      BY <3>1 DEF PodPart
  <2>4. CASE Register(i)
    <3>1. pod'.st = pod.st /\ pod'.owner = pod.owner /\ pod'.del = pod.del
      BY <1>0, <2>4 DEF Register, Pod
    <3> QED
      BY <3>1 DEF PodPart
  <2> QED
    BY <2>1, <2>2, <2>3, <2>4
<1>r. Register(i) => pod'.st = pod.st /\ pod'.owner = pod.owner
  BY <1>0 DEF Register, Pod
<1>5. ReasonPart(i)
  <2>1. pvc.st = "bound" => pvc' = pvc
    BY DEF AwaitClaim, CreatePod, AdoptPod, Register, PastClaim
  <2> QED
    BY <1>4, <2>1 DEF ReasonPart
<1>6. ASSUME NEW c \in Record, c.st = "live", c.decom = seen[i].decom, c.released = seen[i].released,
             c.lost = seen[i].lost, c.done = seen[i].done,
             \/ c.id = seen[i].id
             \/ ~seen[i].lost /\ c.id \in Id /\ ActiveAndAlive(c.id),
             c = seen[i] \/ Register(i)
      PROVE  PassParts(i, c)
  <2>1. WritePart(i, c)
    BY <1>0, <1>6 DEF WritePart, Ordered
  <2>2. LeavePart(i, c) /\ DonePart(i, c)
    BY <1>6 DEF LeavePart, DonePart, Exists
  <2>3. PodPart(i, c)
    <3>1. CASE c = seen[i]
      BY <1>4, <3>1
    <3>2. CASE Register(i)
      BY <1>4, <1>r, <3>2 DEF PodPart
    <3> QED
      BY <1>6, <3>1, <3>2
  <2> QED
    BY <1>2, <1>3, <1>5, <2>1, <2>2, <2>3 DEF PassParts
<1>7. CASE AwaitClaim(i) \/ CreatePod(i) \/ AdoptPod(i)
  <2>1. EndPass(i, seen[i])
    BY <1>7 DEF AwaitClaim, CreatePod, AdoptPod
  <2> QED
    BY <1>0, <1>6, <2>1
<1>8. CASE Register(i)
  <2> DEFINE d == ResolveBroker(seen[i])
             r == [seen[i] EXCEPT !.id = d]
  <2>1. EndPass(i, seen[i]) \/ (MayAdopt(d) /\ EndPass(i, r))
    BY <1>8, Zenon DEF Register
  <2>2. ~seen[i].lost
    BY <1>8 DEF Register, PastClaim, PastDiskLost
  <2>3. CASE EndPass(i, seen[i])
    BY <1>0, <1>6, <2>3
  <2>4. CASE MayAdopt(d) /\ EndPass(i, r)
    <3>1. d \in Id /\ ActiveAndAlive(d)
      BY <1>0, <2>4, ResolveIsMember, MembersFinite DEF MayAdopt
    <3> HIDE DEF d
    <3>2. /\ r \in Record /\ r.st = "live" /\ r.decom = seen[i].decom
          /\ r.released = seen[i].released /\ r.lost = seen[i].lost /\ r.done = seen[i].done
          /\ r.id = d
      BY <1>0, <3>1 DEF Record, Id
    <3> HIDE DEF r
    <3>3. PassParts(i, r)
      BY <1>6, <1>8, <2>2, <3>1, <3>2
    <3> QED
      BY <2>4, <3>2, <3>3
  <2> QED
    BY <2>1, <2>3, <2>4
<1> QED
  BY <1>7, <1>8

(* Passes about a lost disk.                                                 *)
LEMMA DiskLostPass ==
    ASSUME IndexInv, NEW i \in CR, Exists(seen[i]),
           DetectDiskLost(i) \/ DismantleDiskLost(i) \/ TombstoneWithoutId(i)
    PROVE  \E c \in Record : EndPass(i, c) /\ PassParts(i, c)
<1>0. /\ seen[i] \in Record /\ Ordered(seen[i]) /\ pod \in Pod
      /\ TypeOK /\ seen[i].st = "live" /\ Exists(Live[i])
  BY SeenIsOrdered DEF IndexInv, PinInv, TypeOK, DetectDiskLost, DismantleDiskLost, TombstoneWithoutId
<1>1. MemberPart(i)
  BY DEF DetectDiskLost, DismantleDiskLost, TombstoneWithoutId, MemberPart, redpanda
<1>2. ASSUME UNCHANGED <<pod, pvc>>
      PROVE  (\A c \in Record : PodPart(i, c)) /\ ClaimPart(i) /\ ReasonPart(i)
  BY <1>2 DEF PodPart, ClaimPart, ReasonPart
<1>3. CASE DetectDiskLost(i)
  <2> DEFINE c == [seen[i] EXCEPT !.lost = TRUE]
  <2>1. /\ c \in Record /\ c.st = "live" /\ c.decom = seen[i].decom /\ c.lost
        /\ c.released = seen[i].released /\ c.done = seen[i].done /\ c.id = seen[i].id
    BY <1>0 DEF Record
  <2>2. /\ EndPass(i, c) /\ LostDisk(i) /\ ~seen[i].lost /\ ~seen[i].decom
        /\ UNCHANGED <<pod, pvc>>
    BY <1>3 DEF DetectDiskLost
  <2> HIDE DEF c
  <2>3. WritePart(i, c)
    BY <1>0, <2>1, <2>2 DEF WritePart, Ordered
  <2>4. LeavePart(i, c) /\ DonePart(i, c)
    BY <2>1, <2>2 DEF LeavePart, DonePart, Exists
  <2> QED
    BY <1>1, <1>2, <2>1, <2>2, <2>3, <2>4 DEF PassParts
<1>4. CASE TombstoneWithoutId(i)
  <2> DEFINE c == [seen[i] EXCEPT !.done = TRUE]
  <2>1. /\ c \in Record /\ c.st = "live" /\ c.decom = seen[i].decom /\ c.lost = seen[i].lost
        /\ c.released = seen[i].released /\ c.done /\ c.id = seen[i].id
    BY <1>0 DEF Record
  <2>2. /\ EndPass(i, c) /\ seen[i].lost /\ seen[i].decom /\ seen[i].id = 0
        /\ UNCHANGED <<pod, pvc>>
    BY <1>4 DEF TombstoneWithoutId
  <2> HIDE DEF c
  <2>3. WritePart(i, c)
    BY <1>0, <2>1, <2>2 DEF WritePart, Ordered
  <2>4. LeavePart(i, c) /\ DonePart(i, c)
    BY <1>0, <2>1, <2>2 DEF LeavePart, DonePart, Exists, Ordered
  <2> QED
    BY <1>1, <1>2, <2>1, <2>2, <2>3, <2>4 DEF PassParts
<1>5. CASE DismantleDiskLost(i) /\ seen[i].released
  <2>1. EndPass(i, seen[i]) /\ UNCHANGED <<pod, pvc>>
    BY <1>5 DEF DismantleDiskLost
  <2>2. WritePart(i, seen[i]) /\ LeavePart(i, seen[i]) /\ DonePart(i, seen[i])
    BY <1>0 DEF WritePart, LeavePart, DonePart, Exists
  <2> QED
    BY <1>0, <1>1, <1>2, <2>1, <2>2 DEF PassParts
<1>6. CASE DismantleDiskLost(i) /\ ~seen[i].released
  <2> DEFINE c == [seen[i] EXCEPT !.released = pod.st = "none" /\ pvc.st = "none"]
  <2>1. /\ c \in Record /\ c.st = "live" /\ c.decom = seen[i].decom /\ c.lost = seen[i].lost
        /\ c.done = seen[i].done /\ c.id = seen[i].id /\ (c.released => pod.st = "none" /\ pvc.st = "none")
    BY <1>0 DEF Record
  <2>2. /\ EndPass(i, c) /\ seen[i].lost /\ ~seen[i].decom
        /\ pod' = (IF HasPod(i) THEN DeletePod ELSE pod) /\ pvc' = DeletePVCs
    BY <1>6 DEF DismantleDiskLost
  <2> HIDE DEF c
  <2>3. pod'.st = pod.st /\ (pod.st # "none" => pod'.owner = pod.owner /\ (pod.del => pod'.del))
    BY <1>0, <2>2, DeletePodFacts DEF DeletePod
  <2>4. PodPart(i, c) /\ ClaimPart(i)
    BY <2>2, <2>3 DEF PodPart, ClaimPart
  <2>5. ReasonPart(i)
    BY <1>6, <2>2 DEF ReasonPart
  <2>6. WritePart(i, c)
    BY <1>0, <1>6, <2>1, <2>2 DEF WritePart, Ordered
  <2>7. LeavePart(i, c) /\ DonePart(i, c)
    BY <2>1, <2>3 DEF LeavePart, DonePart, Exists
  <2> QED
    BY <1>1, <2>1, <2>2, <2>4, <2>5, <2>6, <2>7 DEF PassParts
<1> QED
  BY <1>3, <1>4, <1>5, <1>6

(* executeDecommission: a drain starts at the node_id the CR stands for, and *)
(* is over when that one has left.                                           *)
LEMMA DrainFacts ==
    ASSUME TypeOK, NEW i \in CR, seen[i].decom, believed' = believed,
           member' = member \/ DecommissionBroker(seen[i], Target(seen[i])),
           pod.st # "none" /\ ~seen[i].lost => pod.owner # 0
    PROVE  MemberPart(i)
<1> DEFINE d == Target(seen[i])
<1>1. member \in [Id -> {"none", "active", "draining", "removed"}]
  BY DEF TypeOK
<1>2. \/ member' = member
      \/ /\ d \in Members /\ (seen[i].lost => d \notin believed) /\ member[d] = "active"
         /\ member' = [member EXCEPT ![d] = "draining"]
  BY DEF DecommissionBroker, Verdict
<1> HIDE DEF d
<1>3. CASE member' = member
  BY <1>3 DEF MemberPart
<1>4. CASE /\ d \in Members /\ (seen[i].lost => d \notin believed) /\ member[d] = "active"
           /\ member' = [member EXCEPT ![d] = "draining"]
  <2>1. d \in Id
    BY <1>4, MembersFinite
  <2>2. \A e \in Id : member'[e] = IF e = d THEN "draining" ELSE member[e]
    BY <1>1, <1>4, <2>1
  <2> QED
    BY <1>4, <2>2 DEF MemberPart, d
<1> QED
  BY <1>2, <1>3, <1>4

LEMMA TargetFacts ==
    ASSUME NEW c \in Record
    PROVE  /\ Target(c) \in 0 .. MaxId
           /\ Target(c) # 0 /\ Verdict(c, Target(c)) = "finished" => c.id = Target(c) /\ c.id \notin Members
           /\ c.lost => Target(c) \in {c.id, 0}
<1> DEFINE d == Target(c)
<1>1. /\ d \in Members \cup {c.id, 0} /\ (c.lost => d \in {c.id, 0}) /\ (c.id # 0 => d = c.id)
  BY ResolveIsMember
<1>2. Verdict(c, d) = "finished" <=> d \notin Members
  BY DEF Verdict
<1>3. Members \subseteq 0 .. MaxId /\ 0 \in 0 .. MaxId /\ c.id \in 0 .. MaxId
  BY MembersFinite, SizeAssumption DEF Id, Record
<1> HIDE DEF d
<1>4. d \in 0 .. MaxId
  BY <1>1, <1>3
<1>5. d # 0 /\ d \notin Members => c.id = d
  BY <1>1
<1> QED
  BY <1>1, <1>2, <1>4, <1>5 DEF d

LEMMA DecommissionPass ==
    ASSUME IndexInv, NEW i \in CR, Exists(seen[i]), ReconcileDecommission(i)
    PROVE  \E c \in Record : EndPass(i, c) /\ PassParts(i, c)
<1> DEFINE s == seen[i]
           d == Target(s)
           finished == d # 0 /\ Verdict(s, d) = "finished"
           f == [s EXCEPT !.id = 0, !.done = TRUE]
           r == [s EXCEPT !.id = d]
<1>0. /\ s \in Record /\ Ordered(s) /\ pod \in Pod /\ TypeOK /\ Exists(Live[i])
      /\ s.st = "live" /\ s.decom
  BY SeenIsOrdered DEF IndexInv, PinInv, TypeOK, ReconcileDecommission, PastDiskLost
<1>a. pod.st # "none" => pod.owner # 0
  BY DEF ReconcileDecommission, OwnsPod, HasPod, OwnedByDifferentBroker, CR
<1>1. MemberPart(i)
  <2>1. believed' = believed /\ (member' = member \/ DecommissionBroker(s, d))
    BY Zenon DEF ReconcileDecommission
  <2> QED
    BY <1>0, <1>a, <2>1, DrainFacts
<1>2. /\ d \in 0 .. MaxId /\ (finished => s.id = d /\ d # 0 /\ s.id \notin Members)
      /\ s.lost => d \in {s.id, 0}
  BY <1>0, TargetFacts
<1>3. \/ s.done /\ EndPass(i, s) /\ UNCHANGED <<pod, pvc>>
      \/ /\ ~s.done /\ finished /\ EndPass(i, f)
         /\ pod' = PodAfter(i) /\ pvc' = ClaimsAfter(s)
      \/ ~s.done /\ ~finished /\ EndPass(i, r) /\ UNCHANGED <<pod, pvc>>
  BY Zenon DEF ReconcileDecommission
<1> HIDE DEF finished, d
<1>4. ASSUME UNCHANGED <<pod, pvc>>
      PROVE  (\A c \in Record : PodPart(i, c)) /\ ClaimPart(i) /\ ReasonPart(i)
  BY <1>4 DEF PodPart, ClaimPart, ReasonPart
<1>5. CASE s.done /\ EndPass(i, s) /\ UNCHANGED <<pod, pvc>>
  <2>1. WritePart(i, s) /\ LeavePart(i, s) /\ DonePart(i, s)
    BY <1>0 DEF WritePart, LeavePart, DonePart, Exists
  <2> QED
    BY <1>0, <1>1, <1>4, <1>5, <2>1 DEF PassParts
<1>6. CASE ~s.done /\ ~finished /\ EndPass(i, r) /\ UNCHANGED <<pod, pvc>>
  <2>1. /\ r \in Record /\ r.st = "live" /\ r.decom = s.decom /\ r.lost = s.lost
        /\ r.released = s.released /\ r.done = s.done /\ r.id = d
    BY <1>0, <1>2 DEF Record
  <2> HIDE DEF r
  <2>2. d # 0 => d \in Id
    BY <1>2 DEF Id
  <2>3. WritePart(i, r)
    BY <1>0, <1>2, <1>6, <2>1, <2>2 DEF WritePart, Ordered
  <2>4. LeavePart(i, r) /\ DonePart(i, r)
    BY <1>6, <2>1 DEF LeavePart, DonePart, Exists
  <2> QED
    BY <1>1, <1>4, <1>6, <2>1, <2>3, <2>4 DEF PassParts
<1>7. CASE /\ ~s.done /\ finished /\ EndPass(i, f)
           /\ pod' = PodAfter(i) /\ pvc' = ClaimsAfter(s)
  <2>1. /\ f \in Record /\ f.st = "live" /\ f.decom = s.decom /\ f.lost = s.lost
        /\ f.released = s.released /\ f.done /\ f.id = 0
    <3>1. 0 \in 0 .. MaxId
      BY SizeAssumption
    <3> QED
      BY <1>0, <3>1 DEF Record
  <2> HIDE DEF f
  <2>2. WritePart(i, f)
    BY <1>0, <2>1 DEF WritePart, Ordered
  <2>3. s.lost => s.released
    BY <1>0 DEF Ordered
  <2>4. s.lost => ~OwnsPod(i)
    BY <1>0, <2>3, OwnedByHolder DEF OwnsPod, Holder, IndexInv, Copies
  <2>5. pod' = IF OwnsPod(i) THEN DeletePod ELSE pod
    BY <1>7 DEF PodAfter
  <2>6. PodPart(i, f)
    BY <1>0, <2>5, DeletePodFacts DEF PodPart, OwnsPod
  <2>7. pvc' = IF s.lost THEN pvc ELSE DeletePVCs
    BY <1>7 DEF ClaimsAfter
  <2>8. ClaimPart(i)
    BY <2>7 DEF ClaimPart
  <2>9. LeavePart(i, f)
    BY <1>0, <2>1, <2>5, PodTypes DEF LeavePart, Exists
  <2>10. DonePart(i, f)
    BY <1>0, <1>a, <2>1, <2>3, <2>5, <2>7, DeletePodFacts, DeletePVCsFacts DEF DonePart, OwnsPod
  <2>11. ReasonPart(i)
    BY <1>2, <1>7, <2>4, <2>5, <2>7 DEF ReasonPart
  <2> QED
    BY <1>1, <1>7, <2>1, <2>2, <2>6, <2>8, <2>9, <2>10, <2>11 DEF PassParts
<1> QED
  BY <1>3, <1>5, <1>6, <1>7

LEMMA DeletePass ==
    ASSUME IndexInv, DeletedOrDecommissioned, NEW i \in CR, Exists(seen[i]), ReconcileDelete(i)
    PROVE  \E c \in Record : EndPass(i, c) /\ PassParts(i, c)
<1> DEFINE s == seen[i]
           d == Target(s)
           over == d = 0 \/ Verdict(s, d) = "finished"
           g == [s EXCEPT !.st = "gone"]
           r == [s EXCEPT !.id = d]
<1>0. /\ s \in Record /\ Ordered(s) /\ pod \in Pod /\ TypeOK /\ Exists(Live[i])
      /\ s.st = "deleting"
  BY SeenIsOrdered DEF IndexInv, PinInv, TypeOK, ReconcileDelete
<1>1. /\ d \in 0 .. MaxId /\ (s.lost => d \in {s.id, 0})
  BY <1>0, TargetFacts
<1>2. /\ g \in Record /\ g.st = "gone" /\ g.decom = s.decom /\ g.lost = s.lost
      /\ g.released = s.released /\ g.done = s.done /\ g.id = s.id
  BY <1>0 DEF Record
<1>3. \/ /\ s.decom /\ over /\ EndPass(i, g)
         /\ pod' = PodAfter(i) \/ (pod' = pod /\ Live[i] # s)
         /\ pvc' \in {pvc, ClaimsAfter(s)}
      \/ s.decom /\ ~over /\ EndPass(i, r) /\ UNCHANGED <<pod, pvc>>
      \/ ~s.decom /\ EndPass(i, g) /\ pod' = StripPodOwnerRef(i) /\ UNCHANGED <<pvc, member>>
  BY Zenon DEF ReconcileDelete
<1>4. believed' = believed /\ (s.decom => DecommissionBroker(s, d))
  BY Zenon DEF ReconcileDelete
<1>5. ~s.lost /\ s.decom => s.done /\ Live[i].done /\ Holder(i)
  BY <1>0, SeenIsOrdered DEF DeletedOrDecommissioned, IndexInv, Copies
<1>6. s.decom => MemberPart(i)
  <2>1. ~s.lost /\ s.decom /\ pod.st # "none" => pod.owner # 0
    BY <1>5 DEF IndexInv, DoneHolder
  <2> QED
    BY <1>0, <1>4, <2>1, DrainFacts
<1>7. s.lost /\ s.decom => s.released
  BY <1>0 DEF Ordered
<1>8. s.lost /\ s.decom => ~OwnsPod(i)
  BY <1>0, <1>7, OwnedByHolder DEF OwnsPod, Holder, IndexInv, Copies
<1>9. s.lost /\ s.done => over
  BY <1>0, <1>1 DEF Ordered
<1> HIDE DEF over, d, g
<1>10. WritePart(i, g) /\ DonePart(i, g)
  BY <1>2 DEF WritePart, DonePart, Exists
<1>11. CASE /\ s.decom /\ over /\ EndPass(i, g)
            /\ pod' = PodAfter(i) \/ (pod' = pod /\ Live[i] # s)
            /\ pvc' \in {pvc, ClaimsAfter(s)}
  <2>1. pod' \in {DeletePod, pod} /\ (~OwnsPod(i) => pod' = pod)
    BY <1>11 DEF PodAfter
  <2>2. pvc' \in {pvc, DeletePVCs} /\ (s.lost => pvc' = pvc)
    BY <1>11 DEF ClaimsAfter
  <2>3. pod'.st = pod.st /\ (pod.st # "none" => pod'.owner = pod.owner /\ (pod.del => pod'.del))
    BY <1>0, <2>1, DeletePodFacts DEF DeletePod
  <2>4. PodPart(i, g) /\ ClaimPart(i)
    BY <2>2, <2>3 DEF PodPart, ClaimPart
  <2>5. LeavePart(i, g)
    <3>1. OwnsPod(i) => ~s.lost /\ (Live[i] = s => pod'.del)
      BY <1>0, <1>8, <1>11, DeletePodFacts DEF PodAfter, OwnsPod
    <3> QED
      BY <1>2, <1>11, <2>3, <3>1 DEF LeavePart, OwnsPod
  <2>6. ReasonPart(i)
    BY <1>5, <1>8, <1>11, <2>1, <2>2 DEF ReasonPart
  <2> QED
    BY <1>2, <1>6, <1>10, <1>11, <2>4, <2>5, <2>6 DEF PassParts
<1>12. CASE s.decom /\ ~over /\ EndPass(i, r) /\ UNCHANGED <<pod, pvc>>
  <2>1. /\ r \in Record /\ r.st = "deleting" /\ r.decom = s.decom /\ r.lost = s.lost
        /\ r.released = s.released /\ r.done = s.done /\ r.id = d
    BY <1>0, <1>1 DEF Record
  <2> HIDE DEF r
  <2>2. ~(s.lost /\ s.done) /\ (s.lost => d \in {s.id, 0})
    BY <1>1, <1>9, <1>12
  <2>3. d # 0 => d \in Id
    BY <1>1 DEF Id
  <2>4. WritePart(i, r)
    BY <1>0, <1>12, <2>1, <2>2, <2>3 DEF WritePart, Ordered
  <2>5. LeavePart(i, r) /\ DonePart(i, r)
    BY <1>12, <2>1 DEF LeavePart, DonePart, Exists
  <2>6. PodPart(i, r) /\ ClaimPart(i) /\ ReasonPart(i)
    BY <1>12 DEF PodPart, ClaimPart, ReasonPart
  <2> QED
    BY <1>6, <1>12, <2>1, <2>4, <2>5, <2>6 DEF PassParts
<1>13. CASE ~s.decom /\ EndPass(i, g) /\ pod' = StripPodOwnerRef(i) /\ UNCHANGED <<pvc, member>>
  <2>1. pod'.st = pod.st
    BY <1>0, <1>13, PodTypes
  <2>2. pod.owner # i => pod' = pod
    BY <1>13 DEF StripPodOwnerRef
  <2>3. ASSUME pod.st # "none", pod.owner = i
        PROVE  pod'.owner = 0 /\ pod'.del = pod.del /\ Live[i] = s
    <3>1. pod'.owner = 0 /\ pod'.del = pod.del
      BY <1>0, <1>13, <2>3 DEF StripPodOwnerRef, Pod
    <3>2. Holder(i) /\ Ordered(Live[i]) /\ Live[i] \in Record
      BY <1>0, <2>3, OwnedByHolder, LiveTypes DEF IndexInv, Stages, CRs
    <3>3. ~Live[i].decom
      BY <1>0, <1>13, <3>2 DEF DeletedOrDecommissioned, IndexInv, Copies, Ordered, Holder
    <3>4. /\ Live[i].st = s.st /\ Live[i].decom = s.decom /\ Live[i].done = s.done
          /\ Live[i].id = s.id /\ Live[i].lost = s.lost /\ Live[i].released = s.released
      BY <1>0, <1>13, <3>2, <3>3 DEF IndexInv, Copies, Record
    <3>5. Live[i] = s
      BY <1>0, <3>2, <3>4 DEF Record
    <3> QED
      BY <3>1, <3>5
  <2>4. PodPart(i, g)
    <3>1. CASE pod.st # "none" /\ pod.owner = i
      BY <1>2, <2>1, <2>3, <3>1 DEF PodPart
    <3>2. CASE pod.st = "none" \/ pod.owner # i
      BY <2>1, <2>2, <3>2 DEF PodPart
    <3> QED
      BY <3>1, <3>2
  <2>5. LeavePart(i, g) /\ ClaimPart(i) /\ ReasonPart(i)
    BY <1>13, <2>1, <2>2, <2>3 DEF LeavePart, ClaimPart, ReasonPart
  <2>6. MemberPart(i)
    BY <1>4, <1>13 DEF MemberPart
  <2> QED
    BY <1>2, <1>10, <1>13, <2>4, <2>5, <2>6 DEF PassParts
<1> QED
  BY <1>3, <1>11, <1>12, <1>13

LEMMA BrokerPassParts ==
    ASSUME IndexInv, DeletedOrDecommissioned, NEW i \in CR, BrokerPass(i),
           AdoptPod(i) => ~seen[i].lost
    PROVE  \E c \in Record : EndPass(i, c) /\ PassParts(i, c)
<1>1. Exists(seen[i])
  BY DEF BrokerPass
<1> QED
  BY <1>1, QuietPass, DiskLostPass, DecommissionPass, DeletePass, Zenon DEF BrokerPass

(* A pass keeps the succession in order.                                     *)
LEMMA PassKeeps ==
    ASSUME IndexInv, PinInv', NEW i \in CR, Exists(seen[i]), NEW c \in Record,
           EndPass(i, c), PassParts(i, c)
    PROVE  IndexInv' /\ \A j \in CR : Advances(j)
<1>0. TypeOK /\ pod \in Pod /\ pvc \in Claim
  BY DEF IndexInv, PinInv, TypeOK
<1>1. ASSUME NEW j \in CR PROVE Live'[j] = IF j = i /\ Live[i] = seen[i] THEN c ELSE Live[j]
  BY <1>0, EndPassEffect
<1>2. seen' = [seen EXCEPT ![i] = Absent] /\ seen \in CRs
  BY <1>0, EndPassEffect DEF TypeOK, CRs
<1>3. /\ seen[i] \in Record /\ Ordered(seen[i]) /\ Exists(Live[i])
      /\ ~seen[i].lost => Holder(i)
  BY SeenIsOrdered
<1>4. /\ seen[i].lost = Live[i].lost /\ seen[i].released = Live[i].released
      /\ seen[i].done = Live[i].done /\ (seen[i].done => seen[i].decom)
  BY DEF IndexInv, Copies
<1>5. /\ WritePart(i, c) /\ PodPart(i, c) /\ ClaimPart(i) /\ LeavePart(i, c) /\ DonePart(i, c)
      /\ MemberPart(i)
  BY DEF PassParts
<1>6. ASSUME NEW j \in CR, Holder(j)' PROVE Holder(j)
  <2>1. CASE Live'[j] = Live[j]
    BY <1>6, <2>1 DEF Holder
  <2>2. CASE j = i /\ Live'[j] = c
    BY <1>3, <1>4, <1>5, <1>6, <2>2 DEF Holder, WritePart
  <2> QED
    BY <1>1, <2>1, <2>2
<1>7. OneHolder'
  BY <1>6 DEF OneHolder, IndexInv
<1>8. Copies'
  <2> SUFFICES ASSUME NEW j \in CR, Exists(seen'[j])
               PROVE  /\ Exists(Live'[j])
                      /\ seen'[j].id = Live'[j].id /\ seen'[j].lost = Live'[j].lost
                      /\ seen'[j].released = Live'[j].released /\ seen'[j].done = Live'[j].done
                      /\ seen'[j].decom => Live'[j].decom
                      /\ seen'[j].st = "deleting" => Live'[j].st = "deleting"
                      /\ seen'[j].done => seen'[j].decom
    BY DEF Copies
  <2>1. j # i
    BY <1>2 DEF CRs, Exists, Absent
  <2>2. seen'[j] = seen[j] /\ Live'[j] = Live[j]
    BY <1>1, <1>2, <2>1 DEF CRs
  <2> QED
    BY <2>2 DEF IndexInv, Copies
<1>9. Stages'
  <2> SUFFICES ASSUME NEW j \in CR, Exists(Live'[j]) PROVE Ordered(Live'[j])
    BY DEF Stages
  <2> QED
    BY <1>1, <1>5 DEF IndexInv, Stages, WritePart
<1>a. ASSUME NEW j \in CR, Holder(j)'
      PROVE  pod'.st # "none" => pod.st = "none" \/ pod.owner = 0 \/ pod'.owner = pod.owner
  <2>1. ASSUME pod.owner = i, pod.st # "none", Live[i] = seen[i], c.st = "gone" PROVE FALSE
    <3>1. Holder(i)
      BY <1>3, <2>1, OwnedByHolder
    <3>2. j = i
      BY <1>6, <1>a, <3>1 DEF IndexInv, OneHolder
    <3> QED
      BY <1>1, <1>a, <2>1, <3>2 DEF Holder, Exists
  <2> QED
    BY <1>5, <2>1 DEF PodPart
<1>10. PodOwned'
  <2> SUFFICES ASSUME pod'.st # "none", pod'.owner # 0
               PROVE  \/ Exists(Live'[pod'.owner]) /\ ~Live'[pod'.owner].released
                      \/ /\ Live'[pod'.owner].st = "gone" /\ Live'[pod'.owner].decom
                         /\ ~Live'[pod'.owner].lost /\ pod'.del
    BY DEF PodOwned, Holder
  <2>1. CASE pod'.owner = i /\ ~seen[i].lost /\ c = seen[i]
    <3>1. Live'[i] = Live[i]
      BY <1>1, <2>1
    <3> QED
      BY <1>3, <2>1, <3>1 DEF Holder
  <2>2. CASE pod.st # "none" /\ pod'.owner = pod.owner /\ (pod.del => pod'.del)
    <3>1. pod.owner \in CR
      BY <1>0, <2>2 DEF Pod, CR
    <3>2. \/ Holder(pod.owner)
          \/ /\ Live[pod.owner].st = "gone" /\ Live[pod.owner].decom
             /\ ~Live[pod.owner].lost /\ pod.del
      BY <2>2 DEF IndexInv, PodOwned
    <3>3. CASE Live'[pod.owner] = Live[pod.owner]
      BY <2>2, <3>2, <3>3 DEF Holder
    <3>4. CASE pod.owner = i /\ Live[i] = seen[i] /\ Live'[i] = c
      <4>1. Holder(i)
        BY <1>3, <3>2, <3>4 DEF Exists
      <4>2. CASE Exists(c) /\ ~c.released
        BY <2>2, <3>4, <4>2
      <4>3. CASE ~(Exists(c) /\ ~c.released)
        BY <1>4, <1>5, <2>2, <3>4, <4>1, <4>3 DEF LeavePart, Holder
      <4> QED
        BY <4>2, <4>3
    <3> QED
      BY <1>1, <3>1, <3>3, <3>4
  <2> QED
    BY <1>5, <2>1, <2>2 DEF PodPart
<1>11. LostHolder'
  <2> SUFFICES ASSUME NEW j \in CR, Holder(j)', Live'[j].lost
               PROVE  /\ pod'.st \in {"none", "unsched", "refused"}
                      /\ pod'.st # "none" => pod'.owner # 0
                      /\ pvc'.st = "bound" => pvc'.lost \/ pvc'.data = 0
    BY DEF LostHolder
  <2>1. Holder(j)
    BY <1>6
  <2>2. CASE Live[j].lost
    <3>1. /\ pod.st \in {"none", "unsched", "refused"} /\ (pvc.st = "bound" => pvc.lost \/ pvc.data = 0)
          /\ pod.st # "none" => pod.owner # 0
      BY <2>1, <2>2 DEF IndexInv, LostHolder
    <3>2. seen[i].lost \/ j # i
      BY <1>4, <2>2
    <3>3. ~seen[i].lost => i = j
      BY <1>3, <2>1 DEF IndexInv, OneHolder
    <3>4. pod'.st = pod.st
      BY <1>5, <3>2, <3>3 DEF PodPart
    <3>5. pvc' = pvc \/ pvc' = DeletePVCs
      BY <1>5, <3>2, <3>3 DEF ClaimPart
    <3>6. pod'.st # "none" => pod'.owner = pod.owner
      BY <1>a, <3>1, <3>4
    <3> QED
      BY <1>0, <3>1, <3>4, <3>5, <3>6, DeletePVCsFacts
  <2>3. CASE ~Live[j].lost
    <3>1. LostDisk(i) /\ UNCHANGED <<pod, pvc>>
      BY <1>1, <1>4, <1>5, <2>3 DEF WritePart
    <3> QED
      BY <3>1 DEF LostDisk, OwnsPod, IndexInv, PinInv, PodFitsDisk, DiskFacts, CR
  <2> QED
    BY <2>2, <2>3
<1>12. DoneHolder'
  <2> SUFFICES ASSUME NEW j \in CR, Holder(j)', Live'[j].done
               PROVE  /\ pvc'.st # "bound"
                      /\ pod'.st # "none" => pod'.owner # 0
                      /\ pod'.st # "none" /\ pod'.owner = j => pod'.del
    BY DEF DoneHolder
  <2>1. Holder(j)
    BY <1>6
  <2>2. CASE Live[j].done
    <3>1. /\ pvc.st # "bound" /\ (pod.st # "none" /\ pod.owner = j => pod.del)
          /\ pod.st # "none" => pod.owner # 0
      BY <2>1, <2>2 DEF IndexInv, DoneHolder
    <3>2. ~seen[i].lost => i = j
      BY <1>3, <2>1 DEF IndexInv, OneHolder
    <3>3. ~seen[i].lost => Podless(i) /\ seen[i].decom
      BY <1>4, <2>2, <3>2 DEF Podless
    <3>4. pvc' = pvc \/ pvc' = DeletePVCs
      BY <1>5, <3>3 DEF ClaimPart
    <3>5. /\ pod'.st = pod.st
          /\ pod.st # "none" => pod'.owner = pod.owner /\ (pod.del => pod'.del)
      BY <1>5, <1>a, <3>1, <3>3 DEF PodPart
    <3> QED
      BY <1>0, <3>1, <3>4, <3>5, DeletePVCsFacts
  <2>3. CASE ~Live[j].done
    <3>1. j = i /\ Live'[j] = c /\ ~seen[i].done /\ ~c.released /\ c # seen[i]
      <4>1. j = i /\ Live'[j] = c
        BY <1>1, <2>3
      <4> QED
        BY <1>4, <2>3, <4>1 DEF Holder
    <3>2. /\ pvc'.st # "bound" /\ (pod.st # "none" /\ pod.owner = i => pod'.del)
          /\ pod.st # "none" => pod.owner # 0
      BY <1>5, <3>1 DEF DonePart
    <3>3. pod'.st # "none" => pod.st # "none" /\ pod'.owner = pod.owner
      BY <1>5, <1>a, <3>1, <3>2 DEF PodPart
    <3> QED
      BY <3>1, <3>2, <3>3
  <2> QED
    BY <2>2, <2>3
<1>13. DiskFacts'
  <2>1. pvc'.node = "gone" => pvc'.lost
    BY <1>0, <1>5, DeletePVCsFacts DEF ClaimPart, IndexInv, DiskFacts, Blank, NoClaim
  <2>2. ASSUME pod'.st = "up"
        PROVE  /\ pvc'.data # 0
               /\ pvc'.data \in believed' \/ member'[pvc'.data] = "removed"
    <3>1. pod.st = "up"
      BY <1>5, <2>2 DEF PodPart
    <3>2. pvc.st # "none" /\ pvc.data # 0 /\ (pvc.data \in believed \/ member[pvc.data] = "removed")
      BY <3>1 DEF IndexInv, PinInv, PodFitsDisk, DiskFacts
    <3>3. pvc'.data = pvc.data
      BY <1>0, <1>5, <3>2, DeletePVCsFacts DEF ClaimPart
    <3>4. pvc.data \in Id
      BY <1>0, <3>2 DEF Claim, Id
    <3> QED
      BY <1>5, <3>2, <3>3, <3>4 DEF MemberPart
  <2> QED
    BY <2>1, <2>2 DEF DiskFacts
<1>14. ASSUME NEW j \in CR PROVE Advances(j)
  BY <1>1, <1>3, <1>4, <1>5 DEF Advances, WritePart, Exists
<1> QED
  BY <1>7, <1>8, <1>9, <1>10, <1>11, <1>12, <1>13, <1>14 DEF IndexInv

-----------------------------------------------------------------------------
LEMMA SuccInit == Init => SuccInv
<1> SUFFICES ASSUME Init PROVE SuccInv
  OBVIOUS
<1>1. \A i \in CR : Live[i] = Absent /\ seen[i] = Absent
  BY DEF Init, Live
<1>2. pod.st = "none" /\ pvc.node = "alive"
  BY DEF Init, NoPod, NoClaim
<1>3. PinInv
  BY <1>1, <1>2, InitTypes DEF PinInv, Recorded, PodFitsDisk, PinnedDisk, Absent
<1>4. \A i \in CR : ~Exists(Live[i]) /\ ~Exists(seen[i])
  BY <1>1 DEF Exists, Absent
<1>5. Forward
  BY DEF Init, Forward, Exists, Absent
<1> QED
  BY <1>2, <1>3, <1>4, <1>5 DEF SuccInv, IndexInv, OneHolder, Copies, Stages, PodOwned, LostHolder,
                                DoneHolder, DiskFacts, Holder

LEMMA PinStep ==
    ASSUME PinInv, [Next]_vars
    PROVE  PinInv'
<1>1. CASE UNCHANGED vars
  <2>1. TypeOK'
    BY TypeStep DEF PinInv
  <2> QED
    BY <1>1, <2>1 DEF vars, redpanda, Live, PinInv, Recorded, PodFitsDisk, PinnedDisk
<1>2. ASSUME NEW i \in CR, BrokerPass(i) PROVE PinInv'
  BY <1>2, BrokerPassEffect, PassPinned DEF PinInv
<1> QED
  BY <1>1, <1>2, OtherPinned DEF Next

LEMMA StepKinds ==
    ASSUME [Next]_vars
    PROVE  \/ UNCHANGED vars
           \/ Deliver
           \/ EnsureBrokers
           \/ \E i \in CR : BeginPass(i)
           \/ \E i \in CR : BrokerPass(i)
           \/ \E i \in CR : DecommissionByHand(i) \/ DeleteByHand(i)
           \/ \/ ScaleDown \/ PodLost \/ NodeDies \/ DiskWiped
              \/ PodStarts \/ Joins \/ PodGone \/ ClaimGone
              \/ \E d \in Id : ReportedDead(d) \/ DrainFinishes(d)
  BY Zenon DEF Next, External

(* A pass takes the copy it has read away, so it is no stuttering step and   *)
(* the hypotheses about steps speak of it.                                   *)
LEMMA PassChanges ==
    ASSUME TypeOK, [AdoptedByLiveBroker]_vars, NEW i \in CR, BrokerPass(i)
    PROVE  AdoptPod(i) => ~seen[i].lost
<1>1. CASE AdoptedByLiveBroker
  BY <1>1 DEF AdoptedByLiveBroker
<1>2. CASE UNCHANGED vars
  <2>1. PICK c \in Record : EndPass(i, c)
    BY BrokerPassEffect DEF PassStep
  <2>2. seen'[i] = Absent
    BY <2>1 DEF EndPass, TypeOK
  <2> QED
    BY <1>2, <2>2 DEF vars, BrokerPass, Exists, Absent
<1> QED
  BY <1>1, <1>2

(* What Orderly says of a step.                                              *)
Lawful == [CreateListsHolders]_vars /\ [PassReadsOwnWrites]_vars /\ [AdoptedByLiveBroker]_vars

LEMMA SuccStep ==
    ASSUME SuccInv, [Next]_vars, Lawful, DeletedOrDecommissioned
    PROVE  SuccInv'
<1>0. TypeOK /\ IndexInv /\ Forward /\ PinInv' /\ Stages
  BY PinStep DEF SuccInv, IndexInv, PinInv
<1> SUFFICES IndexInv' /\ \A i \in CR : Advances(i)
  BY <1>0, StepDelivered, ForwardKeeps DEF SuccInv, IndexInv
<1>1. CASE UNCHANGED vars
  <2>1. Live' = Live /\ UNCHANGED <<seen, pod, pvc, redpanda>>
    BY <1>1 DEF vars, redpanda, Live
  <2>2. PodOwned' /\ LostHolder' /\ DoneHolder' /\ DiskFacts'
    BY <1>0, <2>1 DEF redpanda, IndexInv, PodOwned, LostHolder, DoneHolder, DiskFacts, Holder
  <2> QED
    BY <1>0, <2>1, <2>2, SameCRs DEF IndexInv
<1>2. CASE EnsureBrokers
  <2>1. CASE CreateListsHolders
    BY <1>0, <1>2, <2>1, EnsureIsListStep, ListStepKeeps DEF EnsureBrokers
  <2> QED
    BY <1>1, <2>1 DEF Lawful
<1>3. ASSUME NEW i \in CR, BeginPass(i) PROVE IndexInv' /\ \A j \in CR : Advances(j)
  <2>1. CASE PassReadsOwnWrites
    BY <1>0, <1>3, <2>1, BeginPassKeeps DEF PassReadsOwnWrites
  <2> QED
    BY <1>1, <2>1 DEF Lawful
<1>4. ASSUME NEW i \in CR, BrokerPass(i) PROVE IndexInv' /\ \A j \in CR : Advances(j)
  <2>1. Exists(seen[i])
    BY <1>4 DEF BrokerPass
  <2>2. AdoptPod(i) => ~seen[i].lost
    BY <1>0, <1>4, PassChanges DEF Lawful
  <2>3. PICK c \in Record : EndPass(i, c) /\ PassParts(i, c)
    BY <1>0, <1>4, <2>2, BrokerPassParts
  <2> QED
    BY <1>0, <2>1, <2>3, PassKeeps
<1>5. ASSUME NEW i \in CR, DecommissionByHand(i) \/ DeleteByHand(i)
      PROVE  IndexInv' /\ \A j \in CR : Advances(j)
  BY <1>0, <1>5, ByHandIsListStep, ListStepKeeps DEF DecommissionByHand, DeleteByHand
<1>6. CASE Deliver
  BY <1>0, <1>6, DeliverKeeps
<1> QED
  BY <1>0, <1>1, <1>2, <1>3, <1>4, <1>5, <1>6, StepKinds, ExternalKeeps, Zenon

(* The succession stays in order through every fault, pass, mark and         *)
(* deletion, in any interleaving and at any lag: one holder at a time, whose *)
(* stages, pod and disk agree.                                               *)
THEOREM SuccessionInvariant == Spec /\ Orderly => []SuccInv
<1>1. SuccInv /\ [Next]_vars /\ [CreateListsHolders]_vars /\ [PassReadsOwnWrites]_vars
         /\ [AdoptedByLiveBroker]_vars /\ DeletedOrDecommissioned => SuccInv'
  BY SuccStep DEF Lawful
<1> QED
  BY <1>1, SuccInit, PTL DEF Spec, Orderly, HoldersListed, OwnWritesRead, TombstonesAdoptNothing

-----------------------------------------------------------------------------
(* Who starts a drain: a pass over a CR that is asked to leave.              *)
LEMMA DrainedByPass ==
    ASSUME SuccInv, [Next]_vars, Lawful, DeletedOrDecommissioned, NEW d \in Id,
           member[d] = "active", member'[d] # "active"
    PROVE  \E i \in CR : /\ BrokerPass(i) /\ Exists(seen[i]) /\ seen[i].decom
                         /\ d = Target(seen[i]) /\ (seen[i].lost => d \notin believed)
                         /\ pod.st # "none" /\ ~seen[i].lost => pod.owner # 0
<1>0. TypeOK /\ IndexInv /\ member \in [Id -> {"none", "active", "draining", "removed"}]
  BY DEF SuccInv, IndexInv, PinInv, TypeOK
<1>1. \E i \in CR : BrokerPass(i)
  <2>1. CASE \/ UNCHANGED vars \/ Deliver \/ EnsureBrokers \/ (\E i \in CR : BeginPass(i))
             \/ (\E i \in CR : DecommissionByHand(i) \/ DeleteByHand(i))
    BY <2>1 DEF vars, redpanda, Deliver, EnsureBrokers, BeginPass, DecommissionByHand, DeleteByHand
  <2>2. CASE \/ ScaleDown \/ PodLost \/ NodeDies \/ DiskWiped
             \/ PodStarts \/ PodGone \/ ClaimGone \/ \E e \in Id : ReportedDead(e)
    BY <2>2 DEF ScaleDown, PodLost, NodeDies, DiskWiped, PodStarts, PodGone, ClaimGone,
                ReportedDead, redpanda
  <2>3. CASE Joins
    BY <1>0, <2>3 DEF Joins
  <2>4. ASSUME NEW e \in Id, DrainFinishes(e) PROVE FALSE
    BY <1>0, <2>4 DEF DrainFinishes
  <2> QED
    BY <1>0, <2>1, <2>2, <2>3, <2>4, StepKinds
<1>2. PICK i \in CR : BrokerPass(i)
  BY <1>1
<1>3. MemberPart(i)
  BY <1>0, <1>2, PassChanges, BrokerPassParts DEF PassParts, Lawful
<1> QED
  BY <1>2, <1>3 DEF MemberPart, BrokerPass

LEMMA AskedStep ==
    ASSUME SuccInv, [Next]_vars, Lawful, DeletedOrDecommissioned, NEW d \in Id,
           member[d] = "active", member'[d] = "draining", RunningId = d
    PROVE  pod.owner # 0 /\ Live[pod.owner].decom /\ ~Live[pod.owner].lost
<1>0. IndexInv
  BY DEF SuccInv
<1>1. PICK i \in CR : /\ BrokerPass(i) /\ Exists(seen[i]) /\ seen[i].decom
                      /\ d = Target(seen[i]) /\ (seen[i].lost => d \notin believed)
                      /\ pod.st # "none" /\ ~seen[i].lost => pod.owner # 0
  BY DrainedByPass
<1>2. pod.st = "up" /\ pvc.data = d
  BY DEF RunningId, Id
<1>3. d \in believed
  BY <1>0, <1>2 DEF IndexInv, DiskFacts
<1>4. ~seen[i].lost /\ Holder(i) /\ ~Live[i].lost /\ Live[i].decom
  BY <1>0, <1>1, <1>3, SeenIsOrdered DEF IndexInv, Copies
<1>5. pod.owner \in CR /\ pod.owner # 0
  BY <1>0, <1>1, <1>2, <1>4 DEF IndexInv, PinInv, TypeOK, Pod, CR
<1> QED
  BY <1>0, <1>2, <1>4, <1>5 DEF IndexInv, PodOwned, OneHolder

(* A running broker is drained only when the Broker that owns its pod was    *)
(* asked to leave, whoever asked and however late Redpanda reports deaths: a *)
(* tombstone whose node_id is still reported alive waits, and any other CR   *)
(* that drains holds the index, and with it the pod.                         *)
THEOREM DrainsAreAskedFor ==
    Spec /\ Orderly => OnlyTheAskedIsDrained
<1>1. SuccInv /\ [Next]_vars /\ [CreateListsHolders]_vars /\ [PassReadsOwnWrites]_vars
         /\ [AdoptedByLiveBroker]_vars /\ DeletedOrDecommissioned =>
        [\A d \in Id :
            member[d] = "active" /\ member'[d] = "draining" /\ RunningId = d
                => pod.owner # 0 /\ Live[pod.owner].decom /\ ~Live[pod.owner].lost]_vars
  BY AskedStep DEF Lawful
<1>2. Spec /\ Orderly => []SuccInv
  BY SuccessionInvariant
<1> QED
  BY <1>1, <1>2, PTL DEF Spec, Orderly, HoldersListed, OwnWritesRead,
                           TombstonesAdoptNothing, OnlyTheAskedIsDrained

-----------------------------------------------------------------------------
(* Why a pass deletes a pod or a claim: its disk is lost, it is done, or its *)
(* node_id has left.                                                         *)
LEMMA EndedFor ==
    ASSUME IndexInv, DeletedOrDecommissioned, NEW i \in CR, BrokerPass(i),
           AdoptPod(i) => ~seen[i].lost,
           (pod.st # "none" /\ ~pod.del /\ pod'.del) \/ (pvc.st = "bound" /\ pvc'.st = "terminating")
    PROVE  /\ Holder(i)
           /\ \/ Live[i].lost
              \/ Live[i].done
              \/ ~Live[i].lost /\ Exists(Live[i]) /\ Live[i].id # 0 /\ Live[i].id \notin Members
<1>1. Exists(seen[i])
  BY DEF BrokerPass
<1>2. ReasonPart(i)
  BY BrokerPassParts DEF PassParts
<1>3. \/ seen[i].lost /\ ~seen[i].released
      \/ ~seen[i].lost /\ seen[i].done
      \/ ~seen[i].lost /\ seen[i].id # 0 /\ seen[i].id \notin Members
  BY <1>2 DEF ReasonPart
<1>4. Exists(Live[i]) /\ Holder(i) /\ Ordered(seen[i])
  BY <1>1, <1>3, SeenIsOrdered
<1> QED
  BY <1>1, <1>3, <1>4 DEF IndexInv, Copies, Ordered

(* No other step deletes a pod or a claim.                                   *)
LEMMA DeletedByPass ==
    ASSUME SuccInv, [Next]_vars, Lawful, DeletedOrDecommissioned,
           (~pod.del /\ pod'.del) \/ (pvc.st = "bound" /\ pvc'.st = "terminating")
    PROVE  \E i \in CR : BrokerPass(i) /\ (AdoptPod(i) => ~seen[i].lost)
<1>0. TypeOK /\ pod \in Pod /\ pvc \in Claim
  BY DEF SuccInv, IndexInv, PinInv, TypeOK
<1>1. CASE \/ UNCHANGED vars \/ Deliver \/ EnsureBrokers \/ (\E i \in CR : BeginPass(i))
           \/ (\E i \in CR : DecommissionByHand(i) \/ DeleteByHand(i)) \/ ScaleDown
           \/ \E d \in Id : ReportedDead(d) \/ DrainFinishes(d)
  <2>1. UNCHANGED <<pod, pvc>>
    BY <1>1, Zenon DEF vars, Deliver, EnsureBrokers, BeginPass, DecommissionByHand, DeleteByHand,
                       ScaleDown, ReportedDead, DrainFinishes
  <2> QED
    BY <2>1
<1>2. CASE PodStarts \/ Joins \/ PodGone \/ ClaimGone \/ PodLost \/ NodeDies \/ DiskWiped
  <2>1. ~pod'.del \/ pod'.del = pod.del
    <3>1. CASE PodStarts \/ Joins \/ DiskWiped \/ ClaimGone
      BY <1>0, <3>1 DEF PodStarts, Joins, DiskWiped, ClaimGone, Pod
    <3>2. CASE PodGone \/ PodLost \/ NodeDies
      BY <3>2 DEF PodGone, PodLost, NodeDies, NoPod
    <3> QED
      BY <1>2, <3>1, <3>2
  <2>2. pvc'.st = "none" \/ pvc'.st = pvc.st
    <3>1. CASE Joins \/ NodeDies \/ DiskWiped
      BY <1>0, <3>1 DEF Joins, NodeDies, DiskWiped, Claim
    <3>2. CASE PodStarts \/ PodGone \/ PodLost \/ ClaimGone
      BY <3>2 DEF PodStarts, PodGone, PodLost, ClaimGone, NoClaim
    <3> QED
      BY <1>2, <3>1, <3>2
  <2> QED
    BY <1>0, <2>1, <2>2 DEF Pod
<1> QED
  BY <1>0, <1>1, <1>2, StepKinds, PassChanges DEF Lawful

LEMMA PodKeptStep ==
    ASSUME SuccInv, [Next]_vars, Lawful, DeletedOrDecommissioned,
           RunningId # 0, member[RunningId] = "active", ~IdentityChanged, ~pod.del
    PROVE  ~pod'.del
<1> SUFFICES ASSUME pod'.del PROVE FALSE
  OBVIOUS
<1>1. pod.st = "up" /\ RunningId = pvc.data
  BY DEF RunningId
<1>0. IndexInv
  BY DEF SuccInv
<1>2. PICK i \in CR : BrokerPass(i) /\ (AdoptPod(i) => ~seen[i].lost)
  BY DeletedByPass
<1>3. /\ Holder(i)
      /\ \/ Live[i].lost
         \/ Live[i].done
         \/ ~Live[i].lost /\ Exists(Live[i]) /\ Live[i].id # 0 /\ Live[i].id \notin Members
  BY <1>0, <1>1, <1>2, EndedFor
<1>4. ~Live[i].lost
  BY <1>0, <1>1, <1>3 DEF IndexInv, LostHolder
<1>5. ~Live[i].done
  <2>1. Live[i].done => pod.owner = i
    BY <1>0, <1>1, <1>3 DEF IndexInv, DoneHolder, PodOwned, OneHolder, PinInv, TypeOK, Pod, CR
  <2> QED
    BY <1>0, <1>1, <1>3, <2>1 DEF IndexInv, DoneHolder
<1>6. pvc.data = Live[i].id
  BY <1>1, <1>3, <1>4, <1>5 DEF IdentityChanged
<1>7. pvc.data \in Id
  BY <1>0, <1>1, <1>6 DEF IndexInv, PinInv, TypeOK, Claim, Id
<1> QED
  BY <1>1, <1>3, <1>4, <1>5, <1>6, <1>7 DEF Members

(* The pod of a running, active member is never deleted: not by a tombstone  *)
(* that is being dismantled, not by the CR it succeeded or that succeeds it. *)
THEOREM RunningPodsStay ==
    Spec /\ Orderly => RunningPodKept
<1>1. SuccInv /\ [Next]_vars /\ [CreateListsHolders]_vars /\ [PassReadsOwnWrites]_vars
         /\ [AdoptedByLiveBroker]_vars /\ DeletedOrDecommissioned =>
        [RunningId # 0 /\ member[RunningId] = "active" /\ ~IdentityChanged /\ ~pod.del
            => ~pod'.del]_vars
  BY PodKeptStep DEF Lawful
<1>2. Spec /\ Orderly => []SuccInv
  BY SuccessionInvariant
<1> QED
  BY <1>1, <1>2, PTL DEF Spec, Orderly, HoldersListed, OwnWritesRead,
                           TombstonesAdoptNothing, RunningPodKept

LEMMA DataKeptStep ==
    ASSUME SuccInv, [Next]_vars, Lawful, DeletedOrDecommissioned,
           pvc.st = "bound", pvc'.st = "terminating", ~IdentityChanged
    PROVE  pvc.lost \/ pvc.data \notin Members
<1>0. IndexInv
  BY DEF SuccInv
<1>1. PICK i \in CR : BrokerPass(i) /\ (AdoptPod(i) => ~seen[i].lost)
  BY DeletedByPass
<1>2. /\ Holder(i)
      /\ \/ Live[i].lost
         \/ Live[i].done
         \/ ~Live[i].lost /\ Exists(Live[i]) /\ Live[i].id # 0 /\ Live[i].id \notin Members
  BY <1>0, <1>1, EndedFor
<1>3. 0 \notin Members
  BY DEF Members, Id
<1>4. CASE Live[i].lost
  BY <1>0, <1>2, <1>3, <1>4 DEF IndexInv, LostHolder
<1>5. CASE Live[i].done
  BY <1>0, <1>2, <1>5 DEF IndexInv, DoneHolder
<1>6. CASE ~Live[i].lost /\ Exists(Live[i]) /\ Live[i].id # 0 /\ Live[i].id \notin Members
  BY <1>3, <1>6 DEF IdentityChanged
<1> QED
  BY <1>2, <1>4, <1>5, <1>6

(* A claim is deleted only when its disk is lost or the node_id on it has    *)
(* left the cluster: the claim name is shared by every CR of the index, and  *)
(* no pass over one CR deletes the claim another one runs on.                *)
THEOREM DataOfMembersStays ==
    Spec /\ Orderly => DataKept
<1>1. SuccInv /\ [Next]_vars /\ [CreateListsHolders]_vars /\ [PassReadsOwnWrites]_vars
         /\ [AdoptedByLiveBroker]_vars /\ DeletedOrDecommissioned =>
        [pvc.st = "bound" /\ pvc'.st = "terminating" /\ ~IdentityChanged
            => pvc.lost \/ pvc.data \notin Members]_vars
  BY DataKeptStep DEF Lawful
<1>2. Spec /\ Orderly => []SuccInv
  BY SuccessionInvariant
<1> QED
  BY <1>1, <1>2, PTL DEF Spec, Orderly, HoldersListed, OwnWritesRead,
                           TombstonesAdoptNothing, DataKept

-----------------------------------------------------------------------------
(* Identities.  The one step that can break what follows is the registration *)
(* of a node_id that Redpanda reports alive and that no longer runs at this  *)
(* address: the dead node within the health grace window.                    *)
RecordsRunningBroker ==
    \A i \in CR : Live'[i].id \notin {Live[i].id, 0} => Live'[i].id = RunningId
RunningBrokersRecorded == [][RecordsRunningBroker]_vars

(* While the index is wanted and nobody asks for a decommission by hand only *)
(* tombstones are asked to leave, each when a younger node_id is recorded,   *)
(* and the youngest recorded node_id is active.                              *)
Wanted == desired /\ manual = 0
OnlyTombstonesLeave == Wanted => \A i \in CR : Exists(Live[i]) /\ Live[i].decom => Live[i].lost
Succeeded ==
    Wanted => \A i \in CR : Exists(Live[i]) /\ Live[i].decom /\ Live[i].id # 0
                                => \E e \in known : Live[i].id < e
LastActive ==
    Wanted /\ known # {} => \E e \in known : member[e] = "active" /\ \A f \in known : f <= e

(* Node_ids are given out in order, so what is recorded or stored later is    *)
(* younger, in the API server and in every old list of the cache.             *)
KnownIds == \A k \in DOMAIN crs : \A i \in CR : crs[k][i].id # 0 => crs[k][i].id \in known
YoungerThan(s) ==
    \A i, j \in CR : Exists(s[i]) /\ s[i].lost /\ s[i].id # 0 /\ Exists(s[j]) /\ ~s[j].lost /\ s[j].id # 0
                         => s[i].id < s[j].id
Younger == \A k \in DOMAIN crs : YoungerThan(crs[k])
DiskYounger ==
    \A i \in CR : Exists(Live[i]) /\ Live[i].released /\ Live[i].id # 0 /\ pvc.data # 0
                      => Live[i].id < pvc.data
NoneUp == \A d, e \in Id : d < e /\ member[d] = "none" => member[e] = "none"
BlankClaim == pvc.st = "none" => pvc.data = 0

IdInv ==
    /\ DistinctIdentities /\ OnlyTombstonesLeave /\ Succeeded /\ LastActive
    /\ KnownIds /\ Younger /\ DiskYounger /\ NoneUp /\ BlankClaim

-----------------------------------------------------------------------------
(* What a step may do to node_ids, disk and membership.                      *)
Least(d) == member[d] = "none" /\ \A e \in Id : member[e] = "none" => d <= e
IdWrite(i) ==
    Exists(Live'[i]) =>
        \/ Live'[i] = Fresh
        \/ /\ Exists(Live[i])
           /\ Live[i].lost => Live'[i].lost
           /\ Live'[i].released => Live[i].released \/ pvc'.data = 0
           /\ \/ Live'[i].id \in {Live[i].id, 0}
              \/ ~Live'[i].lost /\ Live'[i].id = RunningId
           /\ Live'[i].decom /\ Wanted' =>
                 \/ Live[i].decom
                 \/ /\ Live[i].lost /\ Live'[i].id = Live[i].id
                    /\ \E e \in known : Live[i].id < e
KnownStep ==
    /\ \A i \in CR : Live'[i].id # 0 => Live'[i].id \in known'
    /\ \/ known' = known
       \/ \E n \in Id : known' = known \cup {n} /\ (Wanted' => member'[n] = "active")
DiskChange ==
    /\ pvc'.data \in {pvc.data, 0} \/ (pvc'.data \in Id /\ Least(pvc'.data))
    /\ pvc'.st = "none" => pvc'.data = 0
MemberChange ==
    \A d \in Id :
        \/ member'[d] = member[d]
        \/ Least(d) /\ member'[d] = "active"
        \/ /\ member[d] # "none" /\ member'[d] # "none"
           /\ member[d] = "active" /\ Wanted' =>
                 \E i \in CR : Exists(Live[i]) /\ Live[i].decom /\ Live[i].id = d
IdStep ==
    /\ Wanted' => Wanted
    /\ (\A i \in CR : IdWrite(i)) /\ KnownStep /\ DiskChange /\ MemberChange

LEMMA HoldersOf ==
    ASSUME IndexInv, NEW i \in CR, Exists(Live[i])
    PROVE  /\ ~Live[i].lost => Holder(i)
           /\ Live[i].released => Live[i].lost
           /\ Live[i].lost /\ Live[i].id # 0 => Live[i].id # RunningId
           /\ Live[i].id \in Id \cup {0} /\ Live[i].id \in Nat
<1>1. Live[i] \in Record
  BY LiveTypes DEF IndexInv, PinInv, CRs
<1>2. Ordered(Live[i])
  BY DEF IndexInv, Stages
<1>3. Live[i].lost /\ Live[i].id # 0 => Live[i].id # RunningId
  BY DEF IndexInv, PinInv, PinnedDisk, PodFitsDisk, RunningId
<1> QED
  BY <1>1, <1>2, <1>3 DEF Ordered, Holder, Record, Id

LEMMA IdKeeps ==
    ASSUME IndexInv, IdInv, Delivered, IdStep
    PROVE  IdInv'
<1>0. /\ TypeOK /\ OneHolder /\ pvc.data \in Nat /\ known \subseteq Id
      /\ Len(crs) \in DOMAIN crs
  <2>1. crs \in Seq(CRs) /\ Len(crs) \in 1 .. MaxLag + 1
    BY DEF IndexInv, PinInv, TypeOK, CRs
  <2>2. Len(crs) \in DOMAIN crs
    BY <2>1, LimitAssumption
  <2> QED
    BY <2>2 DEF IndexInv, PinInv, TypeOK, Claim
<1>1. known \subseteq known' /\ \A i \in CR : Live'[i].id # 0 => Live'[i].id \in known'
  BY DEF IdStep, KnownStep
<1>2. ASSUME NEW i \in CR, Exists(Live'[i]), Live'[i].id # 0 \/ Live'[i].decom
      PROVE  /\ Exists(Live[i])
             /\ Live[i].lost => Live'[i].lost
             /\ Live'[i].released => Live[i].released \/ pvc'.data = 0
             /\ \/ Live'[i].id \in {Live[i].id, 0}
                \/ ~Live'[i].lost /\ Live'[i].id = RunningId
             /\ Live'[i].decom /\ Wanted' =>
                   \/ Live[i].decom
                   \/ /\ Live[i].lost /\ Live'[i].id = Live[i].id
                      /\ \E e \in known : Live[i].id < e
  BY <1>2, FreshFacts DEF IdStep, IdWrite
<1>3. RunningId # 0 => RunningId = pvc.data
  BY DEF RunningId
<1>4. DistinctIdentities'
  <2> SUFFICES ASSUME NEW i \in CR, NEW j \in CR, Exists(Live'[i]), Exists(Live'[j]),
                      Live'[i].id = Live'[j].id, Live'[i].id # 0
               PROVE  i = j
    BY DEF DistinctIdentities
  <2>1. Exists(Live[i]) /\ Exists(Live[j])
    BY <1>2
  <2>2. ASSUME NEW x \in CR, Exists(Live'[x]), Live'[x].id = RunningId, RunningId # 0
        PROVE  Holder(x)
    <3>1. Exists(Live[x])
      BY <1>2, <2>2
    <3>2. CASE ~Live'[x].lost
      BY <1>2, <2>2, <3>1, <3>2, HoldersOf
    <3>3. CASE Live'[x].lost
      BY <1>2, <2>2, <3>1, <3>3, HoldersOf
    <3> QED
      BY <3>2, <3>3
  <2>3. CASE Live'[i].id = RunningId
    BY <1>0, <2>2, <2>3 DEF OneHolder
  <2>4. CASE Live'[i].id # RunningId
    <3>1. Live'[i].id = Live[i].id /\ Live'[j].id = Live[j].id
      BY <1>2, <2>4
    <3> QED
      BY <2>1, <3>1 DEF IdInv, DistinctIdentities
  <2> QED
    BY <2>3, <2>4
<1>5. OnlyTombstonesLeave'
  <2> SUFFICES ASSUME Wanted', NEW i \in CR, Exists(Live'[i]), Live'[i].decom
               PROVE  Live'[i].lost
    BY DEF OnlyTombstonesLeave
  <2> QED
    BY <1>2 DEF IdStep, IdInv, OnlyTombstonesLeave
<1>6. Succeeded'
  <2> SUFFICES ASSUME Wanted', NEW i \in CR, Exists(Live'[i]), Live'[i].decom, Live'[i].id # 0
               PROVE  \E e \in known' : Live'[i].id < e
    BY DEF Succeeded
  <2>1. CASE Live[i].decom
    <3>1. Wanted /\ Exists(Live[i]) /\ Live[i].lost
      BY <1>2, <2>1 DEF IdStep, IdInv, OnlyTombstonesLeave
    <3>2. Live'[i].id = Live[i].id
      BY <1>2, <3>1
    <3>3. PICK e \in known : Live[i].id < e
      BY <2>1, <3>1, <3>2 DEF IdInv, Succeeded
    <3> QED
      BY <1>1, <3>2, <3>3
  <2>2. CASE ~Live[i].decom
    BY <1>1, <1>2, <2>2
  <2> QED
    BY <2>1, <2>2
<1>7. LastActive'
  <2> SUFFICES ASSUME Wanted', known' # {}
               PROVE  \E e \in known' : member'[e] = "active" /\ \A f \in known' : f <= e
    BY DEF LastActive
  <2>1. ASSUME NEW e \in known, member[e] = "active", \A f \in known : f <= e
        PROVE  member'[e] = "active"
    <3>1. e \in Id
      BY <1>0
    <3>2. ASSUME NEW i \in CR, Exists(Live[i]), Live[i].decom, Live[i].id = e PROVE FALSE
      <4>1. PICK f \in known : e < f
        BY <3>1, <3>2 DEF IdStep, IdInv, Succeeded, Id
      <4>2. e \in Nat /\ f \in Nat /\ f <= e
        BY <1>0, <2>1, <3>1 DEF Id
      <4> QED
        BY <4>1, <4>2
    <3> QED
      BY <2>1, <3>1, <3>2 DEF IdStep, MemberChange, Least
  <2>2. CASE known' = known
    <3>1. PICK e \in known : member[e] = "active" /\ \A f \in known : f <= e
      BY <2>2 DEF IdStep, IdInv, LastActive
    <3> QED
      BY <2>1, <2>2, <3>1
  <2>3. ASSUME NEW n \in Id, known' = known \cup {n}, member'[n] = "active"
        PROVE  \E e \in known' : member'[e] = "active" /\ \A f \in known' : f <= e
    <3>0. n \in Nat /\ \A f \in known : f \in Nat
      BY <1>0 DEF Id
    <3>1. CASE known = {}
      BY <2>3, <3>0, <3>1
    <3>2. CASE known # {}
      <4>1. PICK e \in known : member[e] = "active" /\ \A f \in known : f <= e
        BY <3>2 DEF IdStep, IdInv, LastActive
      <4>2. CASE n <= e
        <5>1. \A f \in known' : f <= e
          BY <2>3, <4>1, <4>2
        <5> QED
          BY <1>1, <2>1, <4>1, <5>1
      <4>3. CASE ~(n <= e)
        <5>1. \A f \in known' : f <= n
          BY <2>3, <3>0, <4>1, <4>3
        <5> QED
          BY <2>3, <5>1
      <4> QED
        BY <4>2, <4>3
    <3> QED
      BY <3>1, <3>2
  <2> QED
    BY <2>2, <2>3 DEF IdStep, KnownStep
<1>8. KnownIds'
  <2> SUFFICES ASSUME NEW k \in DOMAIN crs', NEW i \in CR, crs'[k][i].id # 0
               PROVE  crs'[k][i].id \in known'
    BY DEF KnownIds
  <2> QED
    BY <1>1 DEF Delivered, IdInv, KnownIds
<1>9. Younger'
  <2>1. ASSUME NEW i \in CR, NEW j \in CR, Exists(Live'[i]), Live'[i].lost, Live'[i].id # 0,
               Exists(Live'[j]), ~Live'[j].lost, Live'[j].id # 0
        PROVE  Live'[i].id < Live'[j].id
    <3>1. /\ Exists(Live[i]) /\ Exists(Live[j]) /\ ~Live[j].lost /\ Holder(j)
          /\ Live'[i].id = Live[i].id
      BY <1>2, <2>1, HoldersOf
    <3>2. Live[i].lost /\ ~Holder(i)
      BY <1>0, <2>1, <3>1, HoldersOf DEF OneHolder
    <3>3. CASE Live'[j].id = Live[j].id
      BY <1>0, <2>1, <3>1, <3>2, <3>3 DEF IdInv, Younger, YoungerThan, Live
    <3>4. CASE Live'[j].id = RunningId
      BY <1>3, <2>1, <3>1, <3>2, <3>4 DEF Holder, IdInv, DiskYounger
    <3> QED
      BY <1>2, <2>1, <3>3, <3>4
  <2>2. YoungerThan(Live')
    BY <2>1 DEF YoungerThan
  <2>3. ASSUME NEW k \in DOMAIN crs' PROVE YoungerThan(crs'[k])
    BY <2>2 DEF Delivered, IdInv, Younger
  <2>4. Younger' <=> \A k \in DOMAIN crs' : YoungerThan(crs'[k])
    BY DEF Younger, YoungerThan
  <2> QED
    BY <2>3, <2>4
<1>10. DiskYounger'
  <2> SUFFICES ASSUME NEW i \in CR, Exists(Live'[i]), Live'[i].released, Live'[i].id # 0, pvc'.data # 0
               PROVE  Live'[i].id < pvc'.data
    BY DEF DiskYounger
  <2>1. Exists(Live[i]) /\ Live[i].released /\ Live[i].lost /\ Live'[i].id = Live[i].id
    BY <1>2, HoldersOf
  <2>2. CASE pvc'.data = pvc.data
    BY <2>1, <2>2 DEF IdInv, DiskYounger
  <2>3. CASE pvc'.data \in Id /\ Least(pvc'.data)
    <3>1. Live[i].id \in Id /\ member[Live[i].id] # "none"
      BY <2>1, HoldersOf DEF IndexInv, PinInv, Recorded
    <3>2. ~(pvc'.data < Live[i].id) /\ pvc'.data # Live[i].id
      BY <2>3, <3>1 DEF Least, IdInv, NoneUp
    <3> QED
      BY <2>1, <2>3, <3>1, <3>2 DEF Id
  <2> QED
    BY <2>2, <2>3 DEF IdStep, DiskChange
<1>11. NoneUp'
  <2> SUFFICES ASSUME NEW d \in Id, NEW e \in Id, d < e, member'[d] = "none"
               PROVE  member'[e] = "none"
    BY DEF NoneUp
  <2>1. member[d] = "none"
    BY DEF IdStep, MemberChange
  <2>2. member[e] = "none"
    BY <2>1 DEF IdInv, NoneUp
  <2>3. ~Least(e)
    BY <2>1 DEF Least, Id
  <2> QED
    BY <2>2, <2>3 DEF IdStep, MemberChange
<1>12. BlankClaim'
  BY DEF IdStep, DiskChange, BlankClaim
<1> QED
  BY <1>4, <1>5, <1>6, <1>7, <1>8, <1>9, <1>10, <1>11, <1>12 DEF IdInv

-----------------------------------------------------------------------------
(* The steps that write no CR.                                               *)
LEMMA QuietIds ==
    ASSUME IndexInv, IdInv, Live' = Live, UNCHANGED <<known, manual>>, desired' => desired
    PROVE  /\ Wanted' => Wanted
           /\ \A i \in CR : IdWrite(i)
           /\ KnownStep
<1>1. Wanted' => Wanted
  BY DEF Wanted
<1>2. \A i \in CR : IdWrite(i)
  BY DEF IdWrite
<1>3. Len(crs) \in DOMAIN crs
  <2>1. crs \in Seq(CRs) /\ Len(crs) \in 1 .. MaxLag + 1
    BY DEF IndexInv, PinInv, TypeOK, CRs
  <2> QED
    BY <2>1, LimitAssumption
<1>4. KnownStep
  BY <1>3 DEF KnownStep, IdInv, KnownIds, Live
<1> QED
  BY <1>1, <1>2, <1>4

LEMMA WorldIds ==
    ASSUME IndexInv, IdInv,
           \/ UNCHANGED vars \/ Deliver \/ (\E i \in CR : BeginPass(i))
           \/ ScaleDown \/ PodLost \/ NodeDies \/ DiskWiped
           \/ PodStarts \/ Joins \/ PodGone \/ ClaimGone
           \/ \E d \in Id : ReportedDead(d) \/ DrainFinishes(d)
    PROVE  IdStep
<1>0. /\ TypeOK /\ pod \in Pod /\ pvc \in Claim
      /\ member \in [Id -> {"none", "active", "draining", "removed"}]
  BY DEF IndexInv, PinInv, TypeOK
<1>1. UNCHANGED <<known, manual>> /\ (desired' => desired) /\ (Deliver \/ UNCHANGED crs)
  <2>1. UNCHANGED <<known, manual>>
    BY DEF vars, bounds, Deliver, BeginPass, ScaleDown, PodLost, NodeDies, DiskWiped, PodStarts,
                 Joins, PodGone, ClaimGone, ReportedDead, DrainFinishes
  <2>2. Deliver \/ UNCHANGED crs
    BY DEF vars, BeginPass, ScaleDown, PodLost, NodeDies, DiskWiped, PodStarts, Joins, PodGone,
           ClaimGone, ReportedDead, DrainFinishes
  <2>3. desired' = desired \/ desired' = FALSE
    BY DEF vars, Deliver, BeginPass, ScaleDown, PodLost, NodeDies, DiskWiped, PodStarts, Joins, PodGone,
           ClaimGone, ReportedDead, DrainFinishes
  <2>4. desired' => desired
    BY <2>3
  <2> QED
    BY <2>1, <2>2, <2>4
<1>2. Live' = Live
  BY <1>0, <1>1, DeliverDelivered DEF Live
<1>3. (Wanted' => Wanted) /\ (\A i \in CR : IdWrite(i)) /\ KnownStep
  BY <1>1, <1>2, QuietIds
<1>4. CASE Joins
  <2>1. PICK d \in Id : /\ IF pvc.data # 0 THEN d = pvc.data /\ d \in Members ELSE Least(d)
                        /\ pvc' = [pvc EXCEPT !.data = d, !.lost = FALSE]
                        /\ member' = IF member[d] = "none" THEN [member EXCEPT ![d] = "active"] ELSE member
    BY <1>4 DEF Joins, Least
  <2>2. pvc'.data = d /\ pvc'.st = pvc.st /\ pvc.st # "none"
    BY <1>0, <1>4, <2>1 DEF Claim, Joins, IndexInv, PinInv, PodFitsDisk
  <2>3. DiskChange
    BY <2>1, <2>2 DEF DiskChange
  <2>4. member[d] = "none" => Least(d)
    BY <2>1 DEF Members
  <2>5. MemberChange
    BY <1>0, <2>1, <2>4 DEF MemberChange
  <2> QED
    BY <1>3, <2>3, <2>5 DEF IdStep
<1>5. ASSUME NEW d \in Id, DrainFinishes(d) PROVE IdStep
  <2>1. MemberChange
    BY <1>0, <1>5 DEF DrainFinishes, MemberChange
  <2>2. DiskChange
    BY <1>5 DEF DrainFinishes, DiskChange, IdInv, BlankClaim
  <2> QED
    BY <1>3, <2>1, <2>2 DEF IdStep
<1>6. CASE \/ UNCHANGED vars \/ Deliver \/ (\E i \in CR : BeginPass(i))
           \/ ScaleDown \/ PodLost \/ NodeDies \/ DiskWiped
           \/ PodStarts \/ PodGone \/ ClaimGone
           \/ \E d \in Id : ReportedDead(d)
  <2>1. UNCHANGED member
    BY <1>6 DEF vars, redpanda, Deliver, BeginPass, ScaleDown, PodLost, NodeDies, DiskWiped, PodStarts,
                PodGone, ClaimGone, ReportedDead
  <2>2. DiskChange
    <3>1. CASE \/ UNCHANGED vars \/ Deliver \/ (\E i \in CR : BeginPass(i)) \/ ScaleDown \/ PodLost
               \/ PodStarts \/ PodGone \/ \E d \in Id : ReportedDead(d)
      <4>1. UNCHANGED pvc
        BY <3>1 DEF vars, Deliver, BeginPass, ScaleDown, PodLost, PodStarts, PodGone, ReportedDead
      <4> QED
        BY <4>1 DEF DiskChange, IdInv, BlankClaim
    <3>2. CASE ClaimGone
      BY <3>2 DEF ClaimGone, NoClaim, DiskChange
    <3>3. CASE NodeDies
      BY <1>0, <3>3 DEF NodeDies, Claim, DiskChange, IdInv, BlankClaim
    <3>4. CASE DiskWiped
      BY <1>0, <3>4 DEF DiskWiped, Claim, DiskChange
    <3> QED
      BY <1>6, <3>1, <3>2, <3>3, <3>4
  <2> QED
    BY <1>3, <2>1, <2>2 DEF IdStep, MemberChange
<1> QED
  BY <1>4, <1>5, <1>6

-----------------------------------------------------------------------------
(* ensureBrokers asks a tombstone to leave once its list shows a replacement *)
(* with a node_id of its own.                                                *)
LEMMA LeastExists ==
    ASSUME NEW B \in SUBSET Nat, B # {}
    PROVE  \E x \in B : \A y \in B : x <= y
<1>1. PICK x \in B : \A y \in B : ~(<<y, x>> \in OpToRel(<, Nat))
  BY NatLessThanWellFounded, WFMin
<1>2. ASSUME NEW y \in B PROVE x <= y
  <2>1. ~(<<y, x>> \in OpToRel(<, Nat))
    BY <1>1
  <2>2. ~(y < x)
    BY <2>1 DEF OpToRel
  <2> QED
    BY <2>2
<1> QED
  BY <1>2

LEMMA IndexedIsLive ==
    ASSUME LiveBrokers # {}
    PROVE  Indexed \in LiveBrokers
<1>1. LiveBrokers \subseteq CR /\ MaxCR \in Nat
  BY SizeAssumption DEF LiveBrokers, Listed
<1> DEFINE B == {n \in Nat : \E x \in LiveBrokers : n = MaxCR - x}
<1>2. \A x \in LiveBrokers : x \in Nat /\ x <= MaxCR /\ MaxCR - x \in B
  BY <1>1 DEF CR
<1>3. PICK m \in B : \A n \in B : m <= n
  BY <1>2, LeastExists
<1>4. PICK x \in LiveBrokers : m = MaxCR - x
  BY <1>3
<1>5. \A y \in LiveBrokers : x >= y
  BY <1>1, <1>2, <1>3, <1>4
<1> QED
  BY <1>4, <1>5 DEF Indexed, Max

LEMMA MarkedIsSucceeded ==
    ASSUME IndexInv, IdInv, NEW t \in CR, t \in TombstonesToMark, desired
    PROVE  \E e \in known : Cache[t].id < e
<1>1. /\ Exists(Cache[t]) /\ Cache[t].lost /\ Cache[t].id # 0 /\ ReplacementRegistered
  BY LoopSets DEF Exists
<1>2. Indexed \in CR /\ Exists(Cache[Indexed]) /\ ~Cache[Indexed].lost /\ Cache[Indexed].id # 0
  BY <1>1, IndexedIsLive DEF ReplacementRegistered, LiveBrokers, Tombstones, Listed
<1>3. 1 \in DOMAIN crs /\ Cache = crs[1]
  <2>1. crs \in Seq(CRs) /\ Len(crs) \in 1 .. MaxLag + 1
    BY DEF IndexInv, PinInv, TypeOK, CRs
  <2> QED
    BY <2>1, LimitAssumption DEF Cache
<1>4. Cache[t].id < Cache[Indexed].id
  BY <1>1, <1>2, <1>3 DEF IdInv, Younger, YoungerThan
<1>5. Cache[Indexed].id \in known
  BY <1>2, <1>3 DEF IdInv, KnownIds
<1> QED
  BY <1>4, <1>5

LEMMA TouchedIds ==
    ASSUME IndexInv, IdInv, NEW i \in CR, Touched(i),
           MarkedCR(i) => \/ ~Wanted'
                          \/ Live[i].lost /\ \E e \in known : Live[i].id < e
    PROVE  IdWrite(i) /\ Live'[i].id = Live[i].id
  BY TouchedKeeps DEF IdWrite, IndexInv, PinInv

LEMMA ListIds ==
    ASSUME IndexInv, IdInv, Forward, UNCHANGED <<desired, pvc, member, known>>, Wanted' => Wanted,
           \A j \in CR : (IdWrite(j) /\ Live'[j].id = Live[j].id) \/ CreatedCR(j)
    PROVE  IdStep
<1>1. \A j \in CR : IdWrite(j)
  BY DEF CreatedCR, IdWrite
<1>2. Len(crs) \in DOMAIN crs
  <2>1. crs \in Seq(CRs) /\ Len(crs) \in 1 .. MaxLag + 1
    BY DEF IndexInv, PinInv, TypeOK, CRs
  <2> QED
    BY <2>1, LimitAssumption
<1>3. KnownStep
  BY <1>2, FreshFacts DEF KnownStep, CreatedCR, IdInv, KnownIds, Live
<1>4. DiskChange /\ MemberChange
  BY DEF DiskChange, MemberChange, IdInv, BlankClaim
<1> QED
  BY <1>1, <1>3, <1>4 DEF IdStep

LEMMA EnsureIds ==
    ASSUME IndexInv, IdInv, Forward, CreateListsHolders, EnsureBrokers
    PROVE  IdStep
<1>0. TypeOK /\ UNCHANGED <<desired, pvc, member, known, manual>>
  BY DEF IndexInv, PinInv, EnsureBrokers, redpanda, bounds
<1>1. Wanted' => Wanted
  BY <1>0 DEF Wanted
<1>2. ASSUME NEW j \in CR, EnsureWrite(j) PROVE IdWrite(j) /\ Live'[j].id = Live[j].id
  <2>1. Touched(j)
    BY <1>2, WriteIsTouched
  <2>2. CASE NewlyMarked(j)
    <3>1. CASE j \in TombstonesToMark /\ desired
      <4>1. Live[j].lost /\ \E e \in known : Live[j].id < e
        BY <2>2, <3>1, LoopSets, MarkedIsSucceeded DEF NewlyMarked
      <4> QED
        BY <2>1, <4>1, TouchedIds
    <3>2. CASE ~desired
      <4>1. ~Wanted'
        BY <1>0, <3>2 DEF Wanted
      <4> QED
        BY <2>1, <4>1, TouchedIds
    <3> QED
      BY <2>2, <3>1, <3>2 DEF NewlyMarked
  <2>3. CASE Live'[j] = Live[j]
    BY <2>3 DEF IdWrite
  <2>4. CASE DeletedCR(j)
    <3>1. Live[j] \in Record
      BY <1>0, LiveTypes DEF CRs
    <3> QED
      BY <2>4, <3>1 DEF DeletedCR, IdWrite, Record, Exists
  <2> QED
    BY <1>2, <2>2, <2>3, <2>4 DEF EnsureWrite
<1>3. \A j \in CR : EnsureWrite(j) \/ CreatedCR(j)
  BY <1>0, EnsureBrokersDetail DEF EnsureDetail
<1> QED
  BY <1>0, <1>1, <1>2, <1>3, ListIds

LEMMA ByHandIds ==
    ASSUME IndexInv, IdInv, Forward, NEW i \in CR, DecommissionByHand(i) \/ DeleteByHand(i)
    PROVE  IdStep
<1>0. TypeOK /\ UNCHANGED <<desired, pvc, member, known>> /\ (Wanted' => Wanted)
      /\ manual \in Nat /\ Live \in CRs /\ Live[i] \in Record
  BY LiveTypes DEF IndexInv, PinInv, TypeOK, DecommissionByHand, DeleteByHand, redpanda, Wanted, CRs
<1>1. CASE DeleteByHand(i)
  <2>1. Live' = Deleted(Live, {i}) /\ Live[i].st = "live"
    BY <1>0, <1>1, DeletedKeeps, PutEffect DEF DeleteByHand
  <2>2. ASSUME NEW j \in CR PROVE IdWrite(j) /\ Live'[j].id = Live[j].id
    <3>1. Live'[j] = IF j = i THEN [Live[j] EXCEPT !.st = "deleting"] ELSE Live[j]
      BY <2>1 DEF Deleted
    <3> QED
      BY <1>0, <2>1, <3>1 DEF IdWrite, Record, Exists
  <2> QED
    BY <1>0, <2>2, ListIds
<1>2. CASE DecommissionByHand(i)
  <2>1. Live' = Marked(Live, {i}) /\ Live[i].st = "live" /\ ~Wanted'
    BY <1>0, <1>2, DeletedKeeps, PutEffect DEF DecommissionByHand, Wanted
  <2>2. ASSUME NEW j \in CR PROVE IdWrite(j) /\ Live'[j].id = Live[j].id
    <3>1. Live'[j] = IF j = i THEN [Live[j] EXCEPT !.decom = TRUE] ELSE Live[j]
      BY <2>1 DEF Marked
    <3> QED
      BY <1>0, <2>1, <3>1 DEF IdWrite, Record, Exists
  <2> QED
    BY <1>0, <2>2, ListIds
<1> QED
  BY <1>1, <1>2

-----------------------------------------------------------------------------
(* A Broker pass: a node_id it records is that of the running broker.        *)
LEMMA PassIds ==
    ASSUME IndexInv, IdInv, DeletedOrDecommissioned, RecordsRunningBroker, NEW i \in CR,
           Exists(seen[i]), NEW c \in Record, EndPass(i, c), PassParts(i, c)
    PROVE  IdStep
<1>0. /\ TypeOK /\ pod \in Pod /\ pvc \in Claim /\ known \subseteq Id
      /\ Len(crs) \in DOMAIN crs
  <2>1. crs \in Seq(CRs) /\ Len(crs) \in 1 .. MaxLag + 1
    BY DEF IndexInv, PinInv, TypeOK, CRs
  <2>2. Len(crs) \in DOMAIN crs
    BY <2>1, LimitAssumption
  <2> QED
    BY <2>2 DEF IndexInv, PinInv, TypeOK
<1>1. ASSUME NEW j \in CR PROVE Live'[j] = IF j = i /\ Live[i] = seen[i] THEN c ELSE Live[j]
  BY <1>0, EndPassEffect
<1>2. UNCHANGED <<desired, manual>> /\ (Wanted' <=> Wanted)
  BY DEF EndPass, bounds, Wanted
<1>3. /\ seen[i] \in Record /\ Ordered(seen[i]) /\ Exists(Live[i])
  BY SeenIsOrdered
<1>4. /\ seen[i].id = Live[i].id /\ seen[i].lost = Live[i].lost
      /\ seen[i].released = Live[i].released /\ (seen[i].decom => Live[i].decom)
  BY DEF IndexInv, Copies
<1>5. WritePart(i, c) /\ ClaimPart(i) /\ MemberPart(i)
  BY DEF PassParts
<1>disk. pvc'.data \in {pvc.data, 0} /\ (pvc'.st = "none" => pvc.st = "none" /\ pvc' = pvc)
  BY <1>0, <1>5, DeletePVCsFacts DEF ClaimPart, DeletePVCs, Blank, NoClaim, Claim
<1>6. DiskChange
  BY <1>disk DEF DiskChange, IdInv, BlankClaim
<1>7. c.released /\ ~seen[i].released => pvc'.data = 0
  <2>1. c.released /\ ~seen[i].released => pvc.st = "none" /\ pvc.data = 0
    BY <1>5 DEF WritePart, IdInv, BlankClaim
  <2> QED
    BY <1>disk, <2>1
<1>8. ASSUME Live[i] = seen[i], c.id \notin {Live[i].id, 0}
      PROVE  /\ c.id = RunningId /\ ~c.lost /\ ~Live[i].lost
             /\ c.id \in Id /\ (ActiveAndAlive(c.id) \/ seen[i].decom)
  <2>1. Live'[i] = c
    BY <1>1, <1>8
  <2>2. c.id = RunningId
    BY <1>8, <2>1 DEF RecordsRunningBroker
  <2> QED
    BY <1>4, <1>5, <1>8, <2>2 DEF WritePart
<1>9. ASSUME NEW j \in CR PROVE IdWrite(j)
  <2>1. CASE Live'[j] = Live[j]
    BY <2>1 DEF IdWrite
  <2>2. CASE j = i /\ Live[i] = seen[i] /\ Live'[j] = c
    BY <1>3, <1>4, <1>5, <1>7, <1>8, <2>2 DEF IdWrite, WritePart
  <2> QED
    BY <1>1, <2>1, <2>2
<1>10. MemberChange
  <2> SUFFICES ASSUME NEW d \in Id, member'[d] # member[d]
               PROVE  /\ member[d] # "none" /\ member'[d] # "none"
                      /\ member[d] = "active" /\ Wanted' =>
                            \E j \in CR : Exists(Live[j]) /\ Live[j].decom /\ Live[j].id = d
    BY DEF MemberChange
  <2>1. /\ member[d] = "active" /\ member'[d] = "draining"
        /\ d = Target(seen[i]) /\ seen[i].decom
    BY <1>5 DEF MemberPart
  <2>2. ASSUME Wanted PROVE Live[i].decom /\ Live[i].id = d
    <3>1. Live[i].decom /\ seen[i].lost
      BY <1>3, <1>4, <2>1, <2>2 DEF IdInv, OnlyTombstonesLeave
    <3>2. Target(seen[i]) \in {seen[i].id, 0} /\ d # 0
      BY <1>3, <3>1, TargetFacts DEF Id
    <3> QED
      BY <1>4, <2>1, <3>1, <3>2
  <2> QED
    BY <1>2, <1>3, <2>1, <2>2
<1>11. KnownStep
  <2>1. \A j \in CR : Live[j].id # 0 => Live[j].id \in known
    BY <1>0 DEF IdInv, KnownIds, Live
  <2>2. known' = IF Live[i] = seen[i] /\ c.id # 0 THEN known \cup {c.id} ELSE known
    BY DEF EndPass
  <2>3. \A j \in CR : Live'[j].id # 0 => Live'[j].id \in known'
    BY <1>1, <2>1, <2>2
  <2>4. CASE known' = known
    BY <2>3, <2>4 DEF KnownStep
  <2>5. CASE known' # known
    <3>1. Live[i] = seen[i] /\ c.id # 0 /\ known' = known \cup {c.id} /\ c.id # Live[i].id
      BY <2>1, <2>2, <2>5
    <3>2. c.id \in Id /\ ~Live[i].lost /\ (ActiveAndAlive(c.id) \/ seen[i].decom)
      BY <1>8, <3>1
    <3>3. ASSUME Wanted' PROVE member'[c.id] = "active"
      <4>1. ~seen[i].decom
        BY <1>2, <1>3, <1>4, <3>2, <3>3 DEF IdInv, OnlyTombstonesLeave
      <4>2. member'[c.id] = member[c.id]
        BY <1>5, <3>2, <4>1 DEF MemberPart
      <4> QED
        BY <3>2, <4>1, <4>2 DEF ActiveAndAlive
    <3> QED
      BY <2>3, <3>1, <3>2, <3>3 DEF KnownStep
  <2> QED
    BY <2>4, <2>5
<1> QED
  BY <1>2, <1>6, <1>9, <1>10, <1>11 DEF IdStep

LEMMA IdInvStep ==
    ASSUME SuccInv, IdInv, [Next]_vars, Lawful, DeletedOrDecommissioned, [RecordsRunningBroker]_vars
    PROVE  IdInv'
<1>0. TypeOK /\ IndexInv /\ Forward
  BY DEF SuccInv, IndexInv, PinInv
<1> SUFFICES IdStep
  BY <1>0, StepDelivered, IdKeeps
<1>1. CASE UNCHANGED vars
  BY <1>0, <1>1, WorldIds
<1>2. CASE EnsureBrokers
  <2>1. CASE CreateListsHolders
    BY <1>0, <1>2, <2>1, EnsureIds
  <2> QED
    BY <1>1, <2>1 DEF Lawful
<1>3. ASSUME NEW i \in CR, BrokerPass(i) PROVE IdStep
  <2>1. Exists(seen[i])
    BY <1>3 DEF BrokerPass
  <2>2. PICK c \in Record : EndPass(i, c) /\ PassParts(i, c)
    BY <1>0, <1>3, PassChanges, BrokerPassParts DEF Lawful
  <2>3. CASE RecordsRunningBroker
    BY <1>0, <2>1, <2>2, <2>3, PassIds
  <2> QED
    BY <1>1, <2>3
<1>4. ASSUME NEW i \in CR, DecommissionByHand(i) \/ DeleteByHand(i) PROVE IdStep
  BY <1>0, <1>4, ByHandIds
<1> QED
  BY <1>0, <1>1, <1>2, <1>3, <1>4, StepKinds, WorldIds, Zenon

LEMMA IdInit == Init => IdInv
<1> SUFFICES ASSUME Init PROVE IdInv
  OBVIOUS
<1>1. \A k \in DOMAIN crs : \A i \in CR : crs[k][i] = Absent
  BY DEF Init
<1>2. \A i \in CR : Live[i] = Absent
  BY DEF Init, Live
<1>3. DistinctIdentities /\ OnlyTombstonesLeave /\ Succeeded /\ DiskYounger
  BY <1>2 DEF DistinctIdentities, OnlyTombstonesLeave, Succeeded, DiskYounger, Exists, Absent
<1>4. KnownIds /\ Younger
  BY <1>1 DEF KnownIds, Younger, YoungerThan, Exists, Absent
<1>5. LastActive /\ NoneUp /\ BlankClaim
  BY DEF Init, LastActive, NoneUp, BlankClaim, NoClaim
<1> QED
  BY <1>3, <1>4, <1>5 DEF IdInv

(* The identities of an index stay in order: its node_ids are distinct and   *)
(* recorded in the order in which Redpanda gave them out.                    *)
THEOREM IdentityInvariant == Spec /\ Orderly /\ RunningBrokersRecorded => []IdInv
<1>1. SuccInv /\ IdInv /\ [Next]_vars /\ [CreateListsHolders]_vars /\ [PassReadsOwnWrites]_vars
         /\ [AdoptedByLiveBroker]_vars /\ DeletedOrDecommissioned /\ [RecordsRunningBroker]_vars
         => IdInv'
  BY IdInvStep DEF Lawful
<1> QED
  BY <1>1, IdInit, SuccessionInvariant, PTL
     DEF Spec, Orderly, HoldersListed, OwnWritesRead, TombstonesAdoptNothing, RunningBrokersRecorded

(* Two Broker CRs never record the same node_id, in the grace window and     *)
(* outside it, as long as what is recorded is what runs: a CR that registers *)
(* holds the index, and the tombstones beside it are pinned to dead nodes.   *)
THEOREM IdentitiesAreDistinct ==
    Spec /\ Orderly /\ RunningBrokersRecorded => []DistinctIdentities
<1>1. IdInv => DistinctIdentities
  BY DEF IdInv
<1> QED
  BY <1>1, IdentityInvariant, PTL

LEMMA ReplacedStep ==
    ASSUME SuccInv, IdInv, [Next]_vars, Lawful, DeletedOrDecommissioned, NEW d \in Id,
           desired, member[d] = "active", member'[d] = "draining", manual = 0
    PROVE  \E e \in Id \ {d} : member[e] = "active"
<1>0. IndexInv /\ Wanted /\ known \subseteq Id
  BY DEF SuccInv, IndexInv, PinInv, TypeOK, Wanted
<1>1. PICK i \in CR : Exists(seen[i]) /\ seen[i].decom /\ d = Target(seen[i])
  BY DrainedByPass
<1>2. Exists(Live[i]) /\ Live[i].decom /\ seen[i] \in Record /\ seen[i].lost = Live[i].lost
      /\ seen[i].id = Live[i].id
  BY <1>0, <1>1, SeenIsOrdered DEF IndexInv, Copies
<1>3. seen[i].lost
  BY <1>0, <1>2 DEF IdInv, OnlyTombstonesLeave
<1>4. Live[i].id = d /\ d # 0
  BY <1>1, <1>2, <1>3, TargetFacts DEF Id
<1>5. PICK f \in known : d < f
  BY <1>0, <1>2, <1>4 DEF IdInv, Succeeded
<1>6. PICK e \in known : member[e] = "active" /\ \A g \in known : g <= e
  BY <1>0, <1>5 DEF IdInv, LastActive
<1>7. e # d /\ e \in Id
  BY <1>0, <1>5, <1>6 DEF Id
<1> QED
  BY <1>6, <1>7

(* While the index is desired the dead node_id starts to drain only with     *)
(* another active member to take its replicas: the tombstone was asked to    *)
(* leave for a younger node_id, and of those recorded the youngest is not    *)
(* asked to leave.  Neither an old list nor the grace window breaks this,    *)
(* unless the dead node itself is registered as the replacement.             *)
THEOREM DrainsWaitForReplacement ==
    Spec /\ Orderly /\ RunningBrokersRecorded => ReplacedBeforeDrained
<1>1. SuccInv /\ IdInv /\ [Next]_vars /\ [CreateListsHolders]_vars /\ [PassReadsOwnWrites]_vars
         /\ [AdoptedByLiveBroker]_vars /\ DeletedOrDecommissioned =>
        [\A d \in Id :
            desired /\ member[d] = "active" /\ member'[d] = "draining" /\ manual = 0
                => \E e \in Id \ {d} : member[e] = "active"]_vars
  BY ReplacedStep DEF Lawful
<1> QED
  BY <1>1, SuccessionInvariant, IdentityInvariant, PTL
     DEF Spec, Orderly, HoldersListed, OwnWritesRead, TombstonesAdoptNothing, ReplacedBeforeDrained
=============================================================================
