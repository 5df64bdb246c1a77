-------------------------- MODULE BrokerRollProofs --------------------------
(***************************************************************************)
(* What EnsureRollGrants promises, for every number of Brokers and every    *)
(* set of templates, whatever the cache's lag: types; and that grants are   *)
(* exclusive and exclude decommissions as long as no arbitration reads a    *)
(* grant or a mark that is no longer the live one.                          *)
(***************************************************************************)
EXTENDS BrokerRoll, SequenceTheorems, WellFoundedInduction, TLAPS

CRs == [Broker -> CR]

-----------------------------------------------------------------------------
(* A nonempty set of Broker indices has a least element, and Min is it.      *)
LEMMA MinIsMember ==
    ASSUME NEW B \in SUBSET Nat, B # {}
    PROVE  Min(B) \in B /\ \A y \in B : Min(B) =< y
<1>1. \E x \in B : \A y \in B : ~(<<y, x>> \in OpToRel(<, Nat))
  BY NatLessThanWellFounded, WFMin
<1>2. PICK x \in B : \A y \in B : ~(<<y, x>> \in OpToRel(<, Nat))
  BY <1>1
<1>3. ASSUME NEW y \in B PROVE x =< y
  <2>1. ~(<<y, x>> \in OpToRel(<, Nat))
    BY <1>2
  <2>2. OpToRel(<, Nat) = {ss \in Nat \X Nat : ss[1] < ss[2]}
    BY DEF OpToRel
  <2>3. ~(y < x)
    BY <2>1, <2>2
  <2> QED
    BY <2>3
<1> QED
  BY <1>3 DEF Min

-----------------------------------------------------------------------------
(* The history of Broker CRs keeps its type whatever is written.             *)
LEMMA PutTypes ==
    ASSUME TypeOK, NEW s \in CRs, Put(s)
    PROVE  crs' \in Seq(CRs) /\ Len(crs') \in 1 .. MaxLag + 1
  BY BoundAssumption DEF TypeOK, Put, Live, CRs

LEMMA LiveTypes ==
    ASSUME TypeOK
    PROVE  Live \in CRs /\ Cache \in CRs
  BY DEF TypeOK, Live, Cache, CRs

LEMMA GrantTypes ==
    ASSUME NEW v \in Versions, NEW nd \in BOOLEAN
    PROVE  Grant(v, nd) \in Grants
  BY DEF Grant, Grants

LEMMA NoGrantTypes == NoGrant \in Grants
  BY TemplateAssumption DEF NoGrant, Grants

LEMMA SyncStatusTypes ==
    ASSUME TypeOK, NEW b \in Broker,
           NEW r \in {"no", "yes", "old"}, NEW p \in {"live", "Decommissioned", "gone"},
           SyncStatus(b, r, p)
    PROVE  crs' \in Seq(CRs) /\ Len(crs') \in 1 .. MaxLag + 1
<1>1. Live \in CRs
  BY LiveTypes
<1>2. [Live EXCEPT ![b].registered = r, ![b].phase = p] \in CRs
  BY <1>1, ZenonT(60) DEF CRs, CR
<1> QED
  BY <1>1, <1>2, PutTypes DEF SyncStatus

LEMMA UnverifiedTypes ==
    ASSUME TypeOK, NEW b \in Broker, Unverified(b)
    PROVE  crs' \in Seq(CRs) /\ Len(crs') \in 1 .. MaxLag + 1
<1>1. Seen(b).phase \in {"live", "Decommissioned", "gone"}
  BY LiveTypes DEF Seen, CRs, CR
<1> QED
  BY <1>1, SyncStatusTypes DEF Unverified

-----------------------------------------------------------------------------
(* What the two halves of a cluster-controller pass write.                   *)
LEMMA TemplatesTypes ==
    ASSUME TypeOK, NEW s \in CRs, NEW B
    PROVE  WithTemplates(s, B) \in CRs
  BY ZenonT(60) DEF TypeOK, WithTemplates, CRs, CR

LEMMA WithoutFinishedTypes ==
    ASSUME NEW s \in CRs
    PROVE  WithoutFinished(s) \in CRs
  BY DEF WithoutFinished, CRs, CR

LEMMA GrantRollTypes ==
    ASSUME TypeOK, NEW s \in CRs, NEW b \in Broker, NEW nd \in BOOLEAN
    PROVE  GrantRoll(s, b, nd) \in CRs
<1> DEFINE d == IF Cache[b].grant.noDrain = nd THEN s[b].grant.noDrain ELSE nd
<1>1. Cache[b].ver \in Versions /\ s[b].grant.noDrain \in BOOLEAN
  BY LiveTypes DEF CRs, CR, Grants
<1>2. d \in BOOLEAN
  BY <1>1
<1>3. Grant(Cache[b].ver, d) \in Grants
  BY <1>1, <1>2, GrantTypes
<1>4. [s EXCEPT ![b].grant = Grant(Cache[b].ver, d)] \in CRs
  <2> HIDE DEF d
  <2> QED BY <1>3 DEF CRs, CR
<1> QED
  BY <1>4 DEF GrantRoll

LEMMA WithGrantsTypes ==
    ASSUME TypeOK, NEW s \in CRs, NEW B
    PROVE  WithGrants(s, B) \in CRs
<1> DEFINE nd(b) == Cache[b].grant.noDrain \/ ~NoDrainHold(b)
           e(b) == IF b \in B \cap Revoked THEN [s[b] EXCEPT !.grant = NoGrant]
                   ELSE IF b \in B \cap Rekeyed THEN GrantRoll(s, b, nd(b))[b]
                   ELSE s[b]
<1>1. ASSUME NEW b \in Broker PROVE e(b) \in CR
  <2>1. GrantRoll(s, b, nd(b))[b] \in CR
    <3>1. nd(b) \in BOOLEAN
      OBVIOUS
    <3>2. GrantRoll(s, b, nd(b)) \in CRs
      BY <3>1, GrantRollTypes
    <3> QED
      BY <3>2 DEF CRs
  <2>2. s[b] \in CR
    BY DEF CRs
  <2>3. [s[b] EXCEPT !.grant = NoGrant] \in CR
    BY <2>2, NoGrantTypes DEF CR
  <2> QED
    BY <2>1, <2>2, <2>3
<1>2. WithGrants(s, B) = [b \in Broker |-> e(b)]
  BY DEF WithGrants
<1> QED
  <2> HIDE DEF e
  <2> QED BY <1>1, <1>2 DEF CRs

LEMMA FirstOfIsMember ==
    ASSUME NEW B \in SUBSET Broker, B # {}
    PROVE  FirstOf(B) \in B
<1>1. B \in SUBSET Nat /\ B \cap Granted \in SUBSET Nat
  <2>1. Broker \subseteq Nat
    BY NAssumption DEF Broker, NAssumption
  <2> QED
    BY <2>1
<1>2. CASE B \cap Granted # {}
  BY <1>1, <1>2, MinIsMember DEF FirstOf
<1>3. CASE B \cap Granted = {}
  BY <1>1, <1>3, MinIsMember DEF FirstOf
<1> QED
  BY <1>2, <1>3

LEMMA CandidatesAreRollable ==
    Candidates \in SUBSET Rollable /\ NoDrainCandidates \in SUBSET Rollable
        /\ Rollable \in SUBSET Broker
  BY DEF Candidates, NoDrainCandidates, Judged, Granted, Rollable, Listed

LEMMA NewGrantTypes ==
    ASSUME TypeOK, NEW s \in CRs
    PROVE  NewGrant(s) \in CRs
<1>1. CASE NoDrainCandidates # {}
  <2>1. FirstOf(NoDrainCandidates) \in Broker
    BY <1>1, FirstOfIsMember, CandidatesAreRollable
  <2>2. GrantRoll(s, FirstOf(NoDrainCandidates), TRUE) \in CRs
    BY <2>1, GrantRollTypes
  <2> QED
    BY <1>1, <2>2 DEF NewGrant
<1>2. CASE NoDrainCandidates = {} /\ Candidates # {}
  <2>1. FirstOf(Candidates) \in Broker
    BY <1>2, FirstOfIsMember, CandidatesAreRollable
  <2>2. GrantRoll(s, FirstOf(Candidates), FALSE) \in CRs
    BY <2>1, GrantRollTypes
  <2> QED
    BY <1>2, <2>2 DEF NewGrant
<1>3. CASE NoDrainCandidates = {} /\ Candidates = {}
  BY <1>3 DEF NewGrant
<1> QED
  BY <1>1, <1>2, <1>3

-----------------------------------------------------------------------------
(* TypeOK, grouped by what the actions change.                               *)
HistoryOK == crs \in Seq(CRs) /\ Len(crs) \in 1 .. MaxLag + 1
OwnerOK == spec \in Versions /\ replicas \in MinReplicas .. N /\ edits \in 0 .. MaxEdits
PassOK == pass \in {"idle", "grants"} /\ marked \in BOOLEAN
PodsOK == pod \in [Broker -> Pod] /\ rolled \subseteq Broker
RedpandaOK ==
    /\ maint \in [Broker -> {"off", "draining", "drained"}]
    /\ member \in [Broker -> {"active", "draining", "removed"}]
    /\ admin \in BOOLEAN
Parts == HistoryOK /\ OwnerOK /\ PassOK /\ PodsOK /\ RedpandaOK /\ expired \in 0 .. MaxExpire

LEMMA TypeOKParts == (TypeOK <=> Parts) /\ (TypeOK' <=> Parts')
  BY DEF TypeOK, Parts, HistoryOK, OwnerOK, PassOK, PodsOK, RedpandaOK, CRs

(* A pass of the cluster controller.                                         *)
LEMMA ClusterPassTypes ==
    ASSUME TypeOK, EnsureBrokers \/ EnsureRollGrants
    PROVE  TypeOK'
<1> USE TypeOKParts DEF Parts
<1>1. Live \in CRs
  BY LiveTypes
<1>2. OwnerOK' /\ PodsOK' /\ RedpandaOK' /\ expired' \in 0 .. MaxExpire
  BY DEF EnsureBrokers, EnsureRollGrants, owner, world, OwnerOK, PodsOK, RedpandaOK
<1>3. PassOK'
  BY Zenon DEF EnsureBrokers, EnsureRollGrants, PassOK
<1>4. ASSUME EnsureBrokers PROVE HistoryOK'
  <2> DEFINE w == {b \in TemplateWrites : \A c \in {d \in TemplateWrites : ~Current(d)} : b < c}
             s == WithoutFinished(WithTemplates(Live, TemplateWrites))
             x == [s EXCEPT ![NextExcess].decom = TRUE]
  <2>1. WithTemplates(Live, w) \in CRs /\ s \in CRs
    BY <1>1, TemplatesTypes, WithoutFinishedTypes
  <2>2. x \in CRs
    <3> HIDE DEF s
    <3> QED BY <2>1, ZenonT(60) DEF CRs, CR
  <2>3. Put(WithTemplates(Live, w)) \/ Put(s) \/ Put(x)
    BY <1>4, Zenon DEF EnsureBrokers
  <2> HIDE DEF w, s, x
  <2> QED
    BY <2>1, <2>2, <2>3, PutTypes DEF HistoryOK
<1>5. ASSUME EnsureRollGrants PROVE HistoryOK'
  <2>1. PICK B : Put(NewGrant(WithGrants(Live, B))) \/ Put(WithGrants(Live, B))
    BY <1>5, Zenon DEF EnsureRollGrants
  <2>2. WithGrants(Live, B) \in CRs /\ NewGrant(WithGrants(Live, B)) \in CRs
    BY <1>1, WithGrantsTypes, NewGrantTypes
  <2> QED
    BY <2>1, <2>2, PutTypes DEF HistoryOK
<1> QED
  BY <1>2, <1>3, <1>4, <1>5

(* A pass of the Broker controller over b.                                   *)
LEMMA BrokerPassTypes ==
    ASSUME TypeOK, NEW b \in Broker, BrokerPass(b)
    PROVE  TypeOK'
<1> USE TypeOKParts DEF Parts
<1>1. HistoryOK'
  <2>1. Unverified(b) \/ (\E r \in {"no", "yes"}, p \in {"live", "Decommissioned"} : SyncStatus(b, r, p))
    BY Zenon DEF BrokerPass, CreatePod, Park, ReplaceFailing, EnsureDrained, Rotate,
       Register, AwaitPod, StartDecommission, FinishDecommission
  <2> QED
    BY <2>1, UnverifiedTypes, SyncStatusTypes DEF HistoryOK
<1>2. OwnerOK' /\ PassOK' /\ expired' \in 0 .. MaxExpire
  <2>1. UNCHANGED <<owner, pass, marked, expired>>
    BY Zenon DEF BrokerPass, CreatePod, Park, ReplaceFailing, EnsureDrained, Rotate,
       Register, AwaitPod, StartDecommission, FinishDecommission, ControllerOnly
  <2> QED
    BY <2>1 DEF OwnerOK, PassOK, owner
<1>3. PodsOK'
  <2>1. Seen(b).ver \in Versions
    BY LiveTypes DEF Seen, CRs, CR
  <2>2. \/ UNCHANGED pod
        \/ pod' = [pod EXCEPT ![b] = [st |-> "pending", ver |-> Seen(b).ver, del |-> FALSE]]
        \/ pod' = [pod EXCEPT ![b].del = TRUE]
    BY Zenon DEF BrokerPass, CreatePod, Park, ReplaceFailing, EnsureDrained, Rotate,
       Register, AwaitPod, StartDecommission, FinishDecommission
  <2>3. UNCHANGED rolled \/ rolled' = rolled \cup {b}
    BY Zenon DEF BrokerPass, CreatePod, Park, ReplaceFailing, EnsureDrained, Rotate,
       Register, AwaitPod, StartDecommission, FinishDecommission
  <2>4. [st |-> "pending", ver |-> Seen(b).ver, del |-> FALSE] \in Pod
    BY <2>1 DEF Pod
  <2>5. [pod[b] EXCEPT !.del = TRUE] \in Pod
    BY DEF PodsOK, Pod
  <2>6. pod' \in [Broker -> Pod]
    BY <2>2, <2>4, <2>5 DEF PodsOK
  <2> QED
    BY <2>3, <2>6 DEF PodsOK
<1>4. RedpandaOK'
  <2>1. UNCHANGED admin
    BY Zenon DEF BrokerPass, CreatePod, Park, ReplaceFailing, EnsureDrained, Rotate,
       Register, AwaitPod, StartDecommission, FinishDecommission, ControllerOnly
  <2>2. UNCHANGED member \/ member' = [member EXCEPT ![b] = "draining"]
    BY Zenon DEF BrokerPass, CreatePod, Park, ReplaceFailing, EnsureDrained, Rotate,
       Register, AwaitPod, StartDecommission, FinishDecommission, ControllerOnly
  <2>3. \/ UNCHANGED maint
        \/ maint' = [maint EXCEPT ![b] = "off"]
        \/ maint' = [maint EXCEPT ![b] = "draining"]
    BY Zenon DEF BrokerPass, CreatePod, Park, ReplaceFailing, EnsureDrained, Rotate,
       Register, AwaitPod, StartDecommission, FinishDecommission,
       DisableMaintenanceMode, EnableMaintenanceMode
  <2> QED
    BY <2>1, <2>2, <2>3 DEF RedpandaOK
<1> QED
  BY <1>1, <1>2, <1>3, <1>4

(* The cache, the owner, kubelet, Redpanda and time.                         *)
LEMMA ExternalTypes ==
    ASSUME TypeOK, Deliver \/ External
    PROVE  TypeOK'
<1> USE TypeOKParts DEF Parts
<1>1. CASE Deliver
  <2>1. HistoryOK'
    BY <1>1, BoundAssumption DEF Deliver, HistoryOK
  <2> QED
    BY <1>1, <2>1 DEF Deliver, owner, world, OwnerOK, PassOK, PodsOK, RedpandaOK
<1>2. CASE EditTemplate
  <2>1. OwnerOK'
    BY <1>2, BoundAssumption DEF EditTemplate, OwnerOK
  <2> QED
    BY <1>2, <2>1 DEF EditTemplate, world, HistoryOK, PassOK, PodsOK, RedpandaOK
<1>3. CASE ScaleDown
  <2>1. OwnerOK'
    BY <1>3, NAssumption DEF ScaleDown, OwnerOK
  <2> QED
    BY <1>3, <2>1 DEF ScaleDown, world, HistoryOK, PassOK, PodsOK, RedpandaOK
<1>4. CASE AdminToggles
  <2>1. RedpandaOK'
    BY <1>4 DEF AdminToggles, RedpandaOK
  <2> QED
    BY <1>4, <2>1 DEF AdminToggles, owner, HistoryOK, OwnerOK, PassOK, PodsOK
<1>5. ASSUME NEW b \in Broker, Expire(b) PROVE TypeOK'
  <2>1. HistoryOK'
    <3>1. ASSUME NEW i \in DOMAIN crs
          PROVE  [crs[i] EXCEPT ![b].grant.fresh = FALSE] \in CRs
      <4>1. crs[i] \in CRs
        BY DEF HistoryOK
      <4> QED
        BY <4>1, ZenonT(60) DEF CRs, CR, Grants
    <3>2. crs' = [i \in DOMAIN crs |-> [crs[i] EXCEPT ![b].grant.fresh = FALSE]]
      BY <1>5 DEF Expire
    <3>3. DOMAIN crs = 1 .. Len(crs) /\ Len(crs) \in Nat
      BY BoundAssumption DEF HistoryOK
    <3> QED
      BY <3>1, <3>2, <3>3 DEF HistoryOK
  <2>2. expired' \in 0 .. MaxExpire
    BY <1>5, BoundAssumption DEF Expire
  <2> QED
    BY <1>5, <2>1, <2>2 DEF Expire, owner, world, OwnerOK, PassOK, PodsOK, RedpandaOK
<1>6. ASSUME NEW b \in Broker, Terminated(b) PROVE TypeOK'
  <2>1. HistoryOK'
    <3> DEFINE e(i) == IF crs[i][b].registered = "yes"
                       THEN [crs[i] EXCEPT ![b].registered = "old"] ELSE crs[i]
    <3>1. ASSUME NEW i \in DOMAIN crs PROVE e(i) \in CRs
      <4>1. crs[i] \in CRs
        BY DEF HistoryOK
      <4> QED
        BY <4>1 DEF CRs, CR
    <3>2. crs' = [i \in DOMAIN crs |-> e(i)]
      BY <1>6 DEF Terminated
    <3>3. DOMAIN crs = 1 .. Len(crs) /\ Len(crs) \in Nat
      BY BoundAssumption DEF HistoryOK
    <3> HIDE DEF e
    <3> QED
      BY <3>1, <3>2, <3>3 DEF HistoryOK
  <2>2. PodsOK'
    BY <1>6 DEF Terminated, PodsOK, Pod
  <2> QED
    BY <1>6, <2>1, <2>2 DEF Terminated, owner, OwnerOK, PassOK, RedpandaOK
<1>7. ASSUME NEW b \in Broker, Starts(b) PROVE TypeOK'
  <2>1. PodsOK'
    BY <1>7 DEF Starts, PodsOK, Pod
  <2> QED
    BY <1>7, <2>1 DEF Starts, owner, HistoryOK, OwnerOK, PassOK, RedpandaOK
<1>8. ASSUME NEW b \in Broker, DrainFinishes(b) PROVE TypeOK'
  <2>1. RedpandaOK'
    BY <1>8 DEF DrainFinishes, RedpandaOK
  <2> QED
    BY <1>8, <2>1 DEF DrainFinishes, owner, HistoryOK, OwnerOK, PassOK, PodsOK
<1>9. ASSUME NEW b \in Broker, DecommissionFinishes(b) PROVE TypeOK'
  <2>1. RedpandaOK' /\ PodsOK'
    BY <1>9 DEF DecommissionFinishes, RedpandaOK, PodsOK
  <2> QED
    BY <1>9, <2>1 DEF DecommissionFinishes, owner, HistoryOK, OwnerOK, PassOK
<1> QED
  BY <1>1, <1>2, <1>3, <1>4, <1>5, <1>6, <1>7, <1>8, <1>9 DEF External

LEMMA InitTypes == Init => TypeOK
<1> SUFFICES ASSUME Init PROVE TypeOK
  OBVIOUS
<1>1. [ver |-> First, grant |-> NoGrant, decom |-> FALSE, phase |-> "live",
       registered |-> "yes"] \in CR
  BY NoGrantTypes, TemplateAssumption DEF CR
<1>2. HistoryOK
  BY <1>1, BoundAssumption DEF Init, HistoryOK, CRs
<1>3. [st |-> "up", ver |-> First, del |-> FALSE] \in Pod
  BY TemplateAssumption DEF Pod
<1>4. PodsOK
  BY <1>3 DEF Init, PodsOK
<1>5. OwnerOK /\ expired \in 0 .. MaxExpire
  BY TemplateAssumption, NAssumption, BoundAssumption DEF Init, OwnerOK
<1>6. PassOK /\ RedpandaOK
  BY DEF Init, PassOK, RedpandaOK
<1> QED
  BY <1>2, <1>4, <1>5, <1>6, TypeOKParts DEF Parts

(* Types are kept by every step of both controllers and of their             *)
(* environment, whatever the cache's lag and whichever writes conflict.      *)
THEOREM TypeCorrect == Spec => []TypeOK
<1>1. TypeOK /\ [Next]_vars => TypeOK'
  <2> SUFFICES ASSUME TypeOK, [Next]_vars PROVE TypeOK'
    OBVIOUS
  <2>1. CASE UNCHANGED vars
    BY <2>1, TypeOKParts DEF vars, Parts, HistoryOK, OwnerOK, PassOK, PodsOK, RedpandaOK
  <2> QED
    BY <2>1, ClusterPassTypes, BrokerPassTypes, ExternalTypes DEF Next
<1> QED
  BY <1>1, InitTypes, PTL DEF Spec

-----------------------------------------------------------------------------
(* The API server: whatever its cache, a write is its new state, and what    *)
(* the history then holds it held before.                                    *)
LEMMA PutEffect ==
    ASSUME TypeOK, NEW s \in CRs, Put(s)
    PROVE  /\ Live' = s
           /\ \A i \in DOMAIN crs' : crs'[i] = s \/ \E j \in DOMAIN crs : crs'[i] = crs[j]
<1>0. crs \in Seq(CRs) /\ Len(crs) \in 1 .. MaxLag + 1 /\ MaxLag \in Nat
  BY BoundAssumption DEF TypeOK, CRs
<1>1. CASE s = Live
  BY <1>0, <1>1 DEF Put, Live
<1>2. ASSUME NEW t \in Seq(CRs), crs' = Append(t, s), Len(t) \in 0 .. MaxLag,
             \A i \in DOMAIN t : \E j \in DOMAIN crs : t[i] = crs[j]
      PROVE  /\ Live' = s
             /\ \A i \in DOMAIN crs' : crs'[i] = s \/ \E j \in DOMAIN crs : crs'[i] = crs[j]
  <2>1. Len(crs') = Len(t) + 1 /\ crs'[Len(t) + 1] = s
    BY <1>2, AppendProperties, SMTT(60)
  <2>2. DOMAIN crs' = 1 .. Len(t) + 1 /\ \A i \in 1 .. Len(t) : crs'[i] = t[i]
    BY <1>2, AppendProperties, SMTT(60)
  <2>3. DOMAIN t = 1 .. Len(t) /\ Len(t) \in Nat
    BY <1>2
  <2>4. Live' = s
    BY <2>1 DEF Live
  <2>5. ASSUME NEW i \in DOMAIN crs' PROVE i \in DOMAIN t \/ i = Len(t) + 1
    BY <2>2, <2>3
  <2> QED
    BY <1>2, <2>1, <2>2, <2>3, <2>4, <2>5
<1>3. CASE s # Live /\ Len(crs) > MaxLag
  <2>1. crs # << >>
    BY <1>0, EmptySeq
  <2>2. /\ Tail(crs) \in Seq(CRs) /\ Len(Tail(crs)) = Len(crs) - 1
        /\ \A i \in 1 .. Len(Tail(crs)) : Tail(crs)[i] = crs[i + 1]
    BY <1>0, <2>1, HeadTailProperties
  <2>3. crs' = Append(Tail(crs), s)
    BY <1>3 DEF Put
  <2>4. Len(Tail(crs)) \in 0 .. MaxLag
    BY <1>0, <2>2
  <2>5. \A i \in DOMAIN Tail(crs) : \E j \in DOMAIN crs : Tail(crs)[i] = crs[j]
    <3>1. DOMAIN crs = 1 .. Len(crs) /\ DOMAIN Tail(crs) = 1 .. Len(crs) - 1
      BY <1>0, <2>2
    <3>2. ASSUME NEW i \in DOMAIN Tail(crs) PROVE i + 1 \in DOMAIN crs /\ Tail(crs)[i] = crs[i + 1]
      BY <1>0, <2>2, <3>1
    <3> QED
      BY <3>2
  <2> QED
    BY <1>2, <2>2, <2>3, <2>4, <2>5, ZenonT(60)
<1>4. CASE s # Live /\ ~(Len(crs) > MaxLag)
  <2>1. crs' = Append(crs, s)
    BY <1>4 DEF Put
  <2>2. Len(crs) \in 0 .. MaxLag
    BY <1>0, <1>4
  <2> QED
    BY <1>0, <1>2, <2>1, <2>2
<1> QED
  BY <1>1, <1>3, <1>4

LEMMA CacheAndLive ==
    ASSUME TypeOK
    PROVE  /\ DOMAIN crs = 1 .. Len(crs) /\ Len(crs) \in Nat /\ Len(crs) >= 1
           /\ Cache = crs[1] /\ Live = crs[Len(crs)]
           /\ \A i \in DOMAIN crs : crs[i] \in CRs
           /\ \A b \in Broker : Current(b) => Cache[b] = Live[b]
<1>1. crs \in Seq(CRs) /\ Len(crs) \in Nat /\ Len(crs) >= 1
  BY BoundAssumption DEF TypeOK, CRs
<1> QED
  BY <1>1 DEF Cache, Live, Current

(* Marks and phases only go forward: a CR marked in any copy the cache may   *)
(* show is marked, one past "live" is past it, and only marked CRs get there.*)
Advances(M, L) ==
    \A b \in Broker :
        /\ M[b].decom => L[b].decom
        /\ M[b].phase # "live" => L[b].phase # "live"
MarkedFirst(L) == \A b \in Broker : L[b].phase # "live" => L[b].decom
HistoryForward == \A i \in DOMAIN crs : Advances(crs[i], Live) /\ MarkedFirst(crs[i])

LEMMA CacheForward ==
    ASSUME TypeOK, HistoryForward
    PROVE  Advances(Cache, Live) /\ MarkedFirst(Cache) /\ MarkedFirst(Live)
<1>1. 1 \in DOMAIN crs /\ Len(crs) \in DOMAIN crs
  BY CacheAndLive
<1> QED
  BY <1>1, CacheAndLive DEF HistoryForward

LEMMA PutForward ==
    ASSUME TypeOK, HistoryForward, NEW s \in CRs, Put(s), Advances(Live, s), MarkedFirst(s)
    PROVE  HistoryForward'
<1>1. Live' = s /\ \A i \in DOMAIN crs' : crs'[i] = s \/ \E j \in DOMAIN crs : crs'[i] = crs[j]
  BY PutEffect
<1>2. Advances(s, s)
  BY DEF Advances
<1>3. ASSUME NEW j \in DOMAIN crs PROVE Advances(crs[j], s) /\ MarkedFirst(crs[j])
  BY <1>3 DEF HistoryForward, Advances
<1>4. ASSUME NEW i \in DOMAIN crs' PROVE Advances(crs'[i], s) /\ MarkedFirst(crs'[i])
  BY <1>1, <1>2, <1>3
<1> QED
  BY <1>1, <1>4 DEF HistoryForward

(* Time and kubelet touch every copy, and neither marks nor phases.          *)
LEMMA MapForward ==
    ASSUME TypeOK, TypeOK', HistoryForward, DOMAIN crs' = DOMAIN crs,
           \A i \in DOMAIN crs : \A b \in Broker :
              crs'[i][b].decom = crs[i][b].decom /\ crs'[i][b].phase = crs[i][b].phase
    PROVE  HistoryForward' /\ Live' = crs'[Len(crs)]
<1>1. Len(crs') = Len(crs) /\ Len(crs) \in DOMAIN crs
  <2>1. DOMAIN crs' = 1 .. Len(crs') /\ Len(crs') \in Nat
    BY BoundAssumption DEF TypeOK
  <2> QED
    BY <2>1, CacheAndLive
<1>2. Live' = crs'[Len(crs)] /\ Live = crs[Len(crs)]
  BY <1>1 DEF Live
<1>3. ASSUME NEW i \in DOMAIN crs PROVE Advances(crs'[i], crs'[Len(crs)]) /\ MarkedFirst(crs'[i])
  BY <1>1, <1>2, <1>3 DEF HistoryForward, Advances, MarkedFirst
<1> QED
  BY <1>2, <1>3 DEF HistoryForward

LEMMA DeliverEffect ==
    ASSUME TypeOK, Deliver
    PROVE  Live' = Live /\ (HistoryForward => HistoryForward')
<1>1. crs \in Seq(CRs) /\ Len(crs) > 1 /\ crs' = Tail(crs) /\ Len(crs) \in Nat
  BY BoundAssumption DEF Deliver, TypeOK, CRs
<1>2. crs # << >>
  BY <1>1, EmptySeq
<1>3. /\ Len(crs') = Len(crs) - 1 /\ crs' \in Seq(CRs)
      /\ \A i \in 1 .. Len(crs') : crs'[i] = crs[i + 1]
  BY <1>1, <1>2, HeadTailProperties
<1>4. Live' = Live
  BY <1>1, <1>3 DEF Live
<1>5. DOMAIN crs' = 1 .. Len(crs) - 1 /\ DOMAIN crs = 1 .. Len(crs)
  BY <1>1, <1>3
<1>6. ASSUME NEW i \in DOMAIN crs' PROVE i + 1 \in DOMAIN crs /\ crs'[i] = crs[i + 1]
  BY <1>1, <1>3, <1>5
<1> QED
  BY <1>4, <1>6 DEF HistoryForward

(* RollInv as a predicate of one snapshot of the CRs.                        *)
Exclusive(L) ==
    \A b, c \in Broker : HasUnexpiredRollGrant(L[b]) /\ HasUnexpiredRollGrant(L[c]) => b = c
NoRollBeside(L) ==
    ~ \E b, c \in Broker :
        Decommissioning(L[b]) /\ HasUnexpiredRollGrant(L[c]) /\ ~L[c].grant.noDrain
MarkedClean(L) ==
    \A b \in Broker :
        /\ L[b].phase # "live" => L[b].decom
        /\ L[b].decom => ~HasUnexpiredRollGrant(L[b])
Good(L) == Exclusive(L) /\ NoRollBeside(L) /\ MarkedClean(L)

LEMMA RollInvParts ==
    (RollInv <=> TypeOK /\ Good(Live)) /\ (RollInv' <=> TypeOK' /\ Good(Live'))
  BY DEF RollInv, Good, Exclusive, NoRollBeside, MarkedClean, AtMostOneGrant,
     DecommissionExcludesRoll, MarkedHoldNoGrant

(* M has no grant, no mark and no live CR that L does not have.              *)
Refines(M, L) ==
    \A b \in Broker :
        /\ HasUnexpiredRollGrant(M[b]) => HasUnexpiredRollGrant(L[b])
        /\ HasUnexpiredRollGrant(M[b]) /\ L[b].grant.noDrain => M[b].grant.noDrain
        /\ M[b].decom <=> L[b].decom
        /\ M[b].phase = "live" => L[b].phase = "live"
        /\ M[b].phase # "live" => M[b].decom

LEMMA RefinedIsGood ==
    ASSUME NEW L, NEW M, Good(L), Refines(M, L)
    PROVE  Good(M)
<1>1. Exclusive(M)
  BY DEF Good, Refines, Exclusive
<1>2. MarkedClean(M)
  BY DEF Good, Refines, MarkedClean
<1>3. NoRollBeside(M)
  BY DEF Good, Refines, NoRollBeside, Decommissioning
<1> QED
  BY <1>1, <1>2, <1>3 DEF Good

LEMMA RefinesTransitive ==
    ASSUME NEW K, NEW L, NEW M, Refines(M, L), Refines(L, K)
    PROVE  Refines(M, K)
  BY DEF Refines

(* Nobody holds a grant: whatever CRs are marked.                            *)
LEMMA GrantlessIsGood ==
    ASSUME NEW L, \A b \in Broker : ~HasUnexpiredRollGrant(L[b]),
           \A b \in Broker : L[b].phase # "live" => L[b].decom
    PROVE  Good(L)
  BY DEF Good, Exclusive, NoRollBeside, MarkedClean

LEMMA RefinesAdvances ==
    ASSUME NEW L, NEW M, Refines(M, L)
    PROVE  Advances(L, M) /\ MarkedFirst(M)
  BY DEF Refines, Advances, MarkedFirst

(* A write of a good state that goes forward from the live one.              *)
LEMMA PutGood ==
    ASSUME TypeOK, HistoryForward, NEW s \in CRs, Put(s), Good(s), Advances(Live, s)
    PROVE  Good(Live') /\ HistoryForward'
<1>1. MarkedFirst(s)
  BY DEF Good, MarkedClean, MarkedFirst
<1>2. Live' = s
  BY PutEffect
<1> QED
  BY <1>1, <1>2, PutForward

LEMMA PutRefined ==
    ASSUME TypeOK, HistoryForward, Good(Live), NEW s \in CRs, Put(s), Refines(s, Live)
    PROVE  Good(Live') /\ HistoryForward'
  BY PutGood, RefinedIsGood, RefinesAdvances

-----------------------------------------------------------------------------
(* What an arbitration must know: the cluster controller's copies show the   *)
(* grants and the marks as they are.  Everything else may lag, and so may    *)
(* the copies the Broker controller acts on.                                 *)
GrantsSeen ==
    \A b \in Broker : Cache[b].grant = Live[b].grant /\ Cache[b].decom = Live[b].decom

(* Both halves of every cluster-controller pass see the grants and marks.    *)
FreshArbitration == [][EnsureBrokers \/ EnsureRollGrants => GrantsSeen]_vars

-----------------------------------------------------------------------------
(* ensureBrokers.                                                            *)
LEMMA TemplatesRefine ==
    ASSUME TypeOK, NEW s \in CRs, MarkedClean(s), NEW B
    PROVE  Refines(WithTemplates(s, B), s)
<1> SUFFICES ASSUME NEW b \in Broker
             PROVE  /\ WithTemplates(s, B)[b].grant = s[b].grant
                    /\ WithTemplates(s, B)[b].decom = s[b].decom
                    /\ WithTemplates(s, B)[b].phase = s[b].phase
  BY DEF Refines, MarkedClean, HasUnexpiredRollGrant
<1> QED
  BY DEF WithTemplates, CRs, CR

LEMMA WithoutFinishedRefines ==
    ASSUME TypeOK, HistoryForward, Good(Live), NEW s \in CRs, Refines(s, Live)
    PROVE  Refines(WithoutFinished(s), s)
<1>1. ASSUME NEW b \in Broker
      PROVE  /\ WithoutFinished(s)[b].grant = s[b].grant
             /\ WithoutFinished(s)[b].decom = s[b].decom
             /\ \/ WithoutFinished(s)[b].phase = s[b].phase
                \/ WithoutFinished(s)[b].phase = "gone" /\ Live[b].decom
  <2>1. CASE b \in Finished
    <3>1. Live[b].decom
      BY <2>1, CacheForward DEF Finished, Excess, ExcessLive, Listed, Advances, MarkedFirst
    <3> QED
      BY <2>1, <3>1 DEF WithoutFinished, CRs, CR
  <2>2. CASE b \notin Finished
    BY <2>2 DEF WithoutFinished, CRs, CR
  <2> QED
    BY <2>1, <2>2
<1> QED
  BY <1>1 DEF Refines, HasUnexpiredRollGrant

LEMMA NobodyGranted ==
    ASSUME TypeOK, HistoryForward, Good(Live), GrantsSeen, ~RollGrantHeld
    PROVE  \A b \in Broker : ~HasUnexpiredRollGrant(Live[b])
<1>1. ASSUME NEW b \in Broker, HasUnexpiredRollGrant(Live[b]) PROVE b \in Listed
  BY <1>1, CacheForward DEF Listed, Good, MarkedClean, Advances, MarkedFirst
<1> QED
  BY <1>1 DEF RollGrantHeld, GrantsSeen, HasUnexpiredRollGrant

LEMMA EnsureBrokersGood ==
    ASSUME TypeOK, HistoryForward, Good(Live), GrantsSeen, EnsureBrokers
    PROVE  Good(Live') /\ HistoryForward'
<1> DEFINE w == {b \in TemplateWrites : \A c \in {d \in TemplateWrites : ~Current(d)} : b < c}
           t(B) == WithTemplates(Live, B)
           s == WithoutFinished(t(TemplateWrites))
           x == [s EXCEPT ![NextExcess].decom = TRUE]
<1>1. ASSUME NEW B PROVE t(B) \in CRs /\ Refines(t(B), Live)
  BY LiveTypes, TemplatesTypes, TemplatesRefine DEF Good
<1>2. s \in CRs /\ Refines(s, Live)
  <2> HIDE DEF t
  <2> QED
    BY <1>1, WithoutFinishedTypes, WithoutFinishedRefines, RefinesTransitive
<1>3. Put(t(w)) \/ Put(s) \/ (Put(x) /\ ~RollGrantHeld)
  BY Zenon DEF EnsureBrokers, MayMark
<1>4. CASE Put(t(w))
  <2> HIDE DEF t
  <2> QED BY <1>1, <1>4, PutRefined
<1>5. CASE Put(s)
  <2> HIDE DEF s
  <2> QED BY <1>2, <1>5, PutRefined
<1>6. CASE Put(x) /\ ~RollGrantHeld
  <2> HIDE DEF s
  <2>1. x \in CRs
    BY <1>2 DEF CRs, CR
  <2>2. ASSUME NEW b \in Broker
        PROVE  /\ x[b].grant = s[b].grant /\ x[b].phase = s[b].phase
               /\ s[b].decom => x[b].decom
    BY <1>2 DEF CRs, CR
  <2> HIDE DEF x
  <2>3. \A b \in Broker : ~HasUnexpiredRollGrant(x[b])
    BY <1>2, <1>6, <2>2, NobodyGranted DEF Refines, HasUnexpiredRollGrant
  <2>4. Good(x)
    BY <1>2, <2>2, <2>3, GrantlessIsGood DEF Refines
  <2>5. Advances(Live, x)
    BY <1>2, <2>2 DEF Refines, Advances
  <2> QED
    BY <1>6, <2>1, <2>4, <2>5, PutGood
<1> QED
  BY <1>3, <1>4, <1>5, <1>6

-----------------------------------------------------------------------------
(* EnsureRollGrants.                                                         *)
LEMMA VerdictCases ==
    ASSUME NEW b \in Broker
    PROVE  /\ Verdict(b) \in {"revoke", "drop", "expired", "rekey", "switch", "hold"}
           /\ Verdict(b) = "expired" => ~Cache[b].grant.fresh
           /\ Verdict(b) \in {"rekey", "switch"} => Cache[b].grant.fresh
  BY DEF Verdict

(* Re-keying keeps a no-drain grant no-drain, and touches live grants only.  *)
LEMMA GrantsRefine ==
    ASSUME TypeOK, Good(Live), GrantsSeen, NEW B
    PROVE  Refines(WithGrants(Live, B), Live)
<1> DEFINE M == WithGrants(Live, B)
<1>1. ASSUME NEW b \in Broker
      PROVE  /\ M[b].decom = Live[b].decom /\ M[b].phase = Live[b].phase
             /\ HasUnexpiredRollGrant(M[b]) => HasUnexpiredRollGrant(Live[b])
             /\ Live[b].grant.noDrain => M[b].grant.noDrain \/ ~HasUnexpiredRollGrant(M[b])
  <2>0. Live[b] \in CR /\ Live \in CRs
    BY LiveTypes DEF CRs
  <2>1. CASE b \in B \cap Revoked
    <3>1. M[b] = [Live[b] EXCEPT !.grant = NoGrant]
      BY <2>1 DEF WithGrants
    <3>2. M[b].grant = NoGrant /\ M[b].decom = Live[b].decom /\ M[b].phase = Live[b].phase
      BY <2>0, <3>1 DEF CR
    <3> QED
      BY <3>2 DEF HasUnexpiredRollGrant, NoGrant
  <2>2. CASE b \notin B \cap Revoked /\ b \in B \cap Rekeyed
    <3> DEFINE nd == Cache[b].grant.noDrain \/ ~NoDrainHold(b)
               d == IF Cache[b].grant.noDrain = nd THEN Live[b].grant.noDrain ELSE nd
    <3>1. M[b] = GrantRoll(Live, b, nd)[b]
      BY <2>2 DEF WithGrants
    <3>2. M[b] = [Live[b] EXCEPT !.grant = Grant(Cache[b].ver, d)]
      BY <2>0, <3>1 DEF GrantRoll, CRs
    <3>3. Live[b].grant.noDrain => d
      BY DEF GrantsSeen
    <3>4. HasUnexpiredRollGrant(Live[b])
      BY <2>2, VerdictCases DEF Rekeyed, Judged, Granted, Rollable, Listed, GrantsSeen,
         HasUnexpiredRollGrant
    <3> HIDE DEF d
    <3>5. /\ M[b].grant = Grant(Cache[b].ver, d)
          /\ M[b].decom = Live[b].decom /\ M[b].phase = Live[b].phase
      BY <2>0, <3>2 DEF CR
    <3> QED
      BY <3>3, <3>4, <3>5 DEF Grant
  <2>3. CASE b \notin B \cap Revoked /\ b \notin B \cap Rekeyed
    BY <2>3 DEF WithGrants
  <2> QED
    BY <2>1, <2>2, <2>3
<1> HIDE DEF M
<1> QED
  BY <1>1 DEF Refines, Good, MarkedClean, M

(* When the pass goes on to grant, every grant it found is gone.             *)
LEMMA NoneLeft ==
    ASSUME TypeOK, HistoryForward, Good(Live), GrantsSeen,
           Judged({"drop", "rekey", "switch", "hold"}) = {}, NEW b \in Broker
    PROVE  ~HasUnexpiredRollGrant(WithGrants(Live, Revoked \cup Rekeyed)[b])
<1> DEFINE M == WithGrants(Live, Revoked \cup Rekeyed)
<1>1. CASE ~HasUnexpiredRollGrant(Live[b])
  BY <1>1, GrantsRefine DEF Refines
<1>2. CASE HasUnexpiredRollGrant(Live[b])
  <2>1. b \in Granted
    BY <1>2, CacheForward DEF Granted, Rollable, Listed, Good, MarkedClean, GrantsSeen,
       Advances, MarkedFirst, HasUnexpiredRollGrant
  <2>2. Verdict(b) \in {"revoke"}
    BY <1>2, <2>1, VerdictCases DEF Judged, GrantsSeen, HasUnexpiredRollGrant
  <2>3. b \in Revoked
    BY <2>1, <2>2 DEF Revoked, Judged
  <2>4. M[b] = [Live[b] EXCEPT !.grant = NoGrant]
    BY <2>3 DEF WithGrants
  <2>5. M[b].grant = NoGrant
    BY <2>4, LiveTypes DEF CRs, CR
  <2> QED
    BY <2>5 DEF HasUnexpiredRollGrant, NoGrant
<1> QED
  BY <1>1, <1>2

(* A candidate's CR is not written before it is granted.                     *)
LEMMA CandidateUntouched ==
    ASSUME NEW b \in Candidates
    PROVE  b \in Rollable /\ WithGrants(Live, Revoked \cup Rekeyed)[b] = Live[b]
<1>1. b \in Rollable /\ b \in Broker
  BY CandidatesAreRollable
<1>2. b \notin Revoked /\ b \notin Rekeyed
  BY <1>1, VerdictCases DEF Candidates, Revoked, Rekeyed, Judged, Granted, Rollable
<1> QED
  BY <1>1, <1>2 DEF WithGrants

(* One grant, to a candidate, when nobody holds one: no-drain, or with no    *)
(* decommission in flight.                                                   *)
LEMMA GrantOneIsGood ==
    ASSUME TypeOK, HistoryForward, Good(Live), GrantsSeen,
           Judged({"drop", "rekey", "switch", "hold"}) = {},
           NEW b \in Candidates, NEW nd \in BOOLEAN, nd \/ ~DecommissionInFlight
    PROVE  Good(GrantRoll(WithGrants(Live, Revoked \cup Rekeyed), b, nd))
<1> DEFINE M == WithGrants(Live, Revoked \cup Rekeyed)
           d == IF Cache[b].grant.noDrain = nd THEN M[b].grant.noDrain ELSE nd
           g == Grant(Cache[b].ver, d)
           R == GrantRoll(M, b, nd)
<1>1. M \in CRs /\ Refines(M, Live)
  BY LiveTypes, WithGrantsTypes, GrantsRefine
<1>2. b \in Broker /\ ~Live[b].decom /\ M[b] = Live[b]
  BY CandidateUntouched, CandidatesAreRollable DEF Rollable, GrantsSeen
<1>3. \A c \in Broker : ~HasUnexpiredRollGrant(M[c])
  BY NoneLeft
<1>4. d = nd
  <2>1. Live[b].grant.noDrain \in BOOLEAN
    BY <1>2, LiveTypes DEF CRs, CR, Grants
  <2> QED
    BY <1>2, <2>1 DEF GrantsSeen
<1>5. g.noDrain = d
  BY DEF Grant
<1> HIDE DEF M, d, g
<1>6. R = [M EXCEPT ![b].grant = g]
  BY DEF GrantRoll, d, g
<1>7. ASSUME NEW c \in Broker
      PROVE  /\ R[c].decom = M[c].decom /\ R[c].phase = M[c].phase
             /\ R[c].grant = IF c = b THEN g ELSE M[c].grant
  BY <1>1, <1>2, <1>6 DEF CRs, CR
<1> HIDE DEF R
<1>8. ASSUME NEW c \in Broker, HasUnexpiredRollGrant(R[c]) PROVE c = b
  BY <1>3, <1>7, <1>8 DEF HasUnexpiredRollGrant
<1>9. Exclusive(R)
  BY <1>8 DEF Exclusive
<1>10. MarkedClean(R)
  BY <1>1, <1>2, <1>7, <1>8 DEF MarkedClean, Refines
<1>11. NoRollBeside(R)
  <2>1. CASE nd
    BY <1>2, <1>4, <1>5, <1>7, <1>8, <2>1 DEF NoRollBeside
  <2>2. CASE ~DecommissionInFlight
    <3>1. \A c \in Broker : ~Decommissioning(Live[c])
      BY <2>2, CacheForward DEF DecommissionInFlight, Listed, Decommissioning, GrantsSeen, Advances
    <3>2. \A c \in Broker : ~Decommissioning(R[c])
      BY <1>1, <1>7, <3>1 DEF Refines, Decommissioning
    <3> QED
      BY <3>2 DEF NoRollBeside
  <2> QED
    BY <2>1, <2>2
<1> QED
  BY <1>9, <1>10, <1>11 DEF Good, R, M

LEMMA EnsureRollGrantsGood ==
    ASSUME TypeOK, HistoryForward, Good(Live), GrantsSeen, EnsureRollGrants
    PROVE  Good(Live') /\ HistoryForward'
<1> DEFINE W(B) == WithGrants(Live, B)
           M == W(Revoked \cup Rekeyed)
<1>1. ASSUME NEW B PROVE W(B) \in CRs /\ Good(W(B)) /\ Advances(Live, W(B))
  BY LiveTypes, WithGrantsTypes, GrantsRefine, RefinedIsGood, RefinesAdvances
<1>2. Put(NewGrant(M)) \/ \E B : Put(W(B))
  BY Zenon DEF EnsureRollGrants
<1>3. ASSUME NEW B, Put(W(B)) PROVE Good(Live') /\ HistoryForward'
  <2> HIDE DEF W
  <2> QED BY <1>1, <1>3, PutGood
<1>4. NewGrant(M) \in CRs
  <2> HIDE DEF W
  <2> QED BY <1>1, NewGrantTypes
<1>5. Good(NewGrant(M))
  <2>1. CASE Judged({"drop", "rekey", "switch", "hold"}) # {} \/ Candidates = {}
    BY <1>1, <2>1 DEF NewGrant
  <2>2. CASE /\ Judged({"drop", "rekey", "switch", "hold"}) = {} /\ Candidates # {}
             /\ NoDrainCandidates # {}
    <3>1. FirstOf(NoDrainCandidates) \in Candidates
      BY <2>2, FirstOfIsMember, CandidatesAreRollable DEF NoDrainCandidates
    <3>2. NewGrant(M) = GrantRoll(M, FirstOf(NoDrainCandidates), TRUE)
      BY <2>2 DEF NewGrant
    <3> QED
      BY <2>2, <3>1, <3>2, GrantOneIsGood
  <2>3. CASE /\ Judged({"drop", "rekey", "switch", "hold"}) = {} /\ Candidates # {}
             /\ NoDrainCandidates = {} /\ ~GrantsHeldBack
    <3>1. FirstOf(Candidates) \in Candidates
      BY <2>3, FirstOfIsMember, CandidatesAreRollable
    <3>2. NewGrant(M) = GrantRoll(M, FirstOf(Candidates), FALSE)
      BY <2>3 DEF NewGrant
    <3>3. ~DecommissionInFlight
      BY <2>3 DEF GrantsHeldBack
    <3> QED
      BY <2>3, <3>1, <3>2, <3>3, GrantOneIsGood
  <2>4. CASE /\ Judged({"drop", "rekey", "switch", "hold"}) = {} /\ Candidates # {}
             /\ NoDrainCandidates = {} /\ GrantsHeldBack
    BY <1>1, <2>4 DEF NewGrant
  <2> QED
    BY <2>1, <2>2, <2>3, <2>4
<1>6. Advances(Live, NewGrant(M))
  <2>1. ASSUME NEW b \in Broker, NEW nd \in BOOLEAN PROVE Advances(Live, GrantRoll(M, b, nd))
    <3>1. M \in CRs /\ Advances(Live, M)
      BY <1>1
    <3> HIDE DEF M
    <3>2. ASSUME NEW c \in Broker
          PROVE  /\ GrantRoll(M, b, nd)[c].decom = M[c].decom
                 /\ GrantRoll(M, b, nd)[c].phase = M[c].phase
      BY <3>1 DEF GrantRoll, CRs, CR
    <3> QED
      BY <3>1, <3>2 DEF Advances
  <2>2. CASE NoDrainCandidates # {}
    <3>1. FirstOf(NoDrainCandidates) \in Broker
      BY <2>2, FirstOfIsMember, CandidatesAreRollable
    <3> QED
      BY <1>1, <2>1, <2>2, <3>1 DEF NewGrant
  <2>3. CASE NoDrainCandidates = {} /\ Candidates # {}
    <3>1. FirstOf(Candidates) \in Broker
      BY <2>3, FirstOfIsMember, CandidatesAreRollable
    <3> QED
      BY <1>1, <2>1, <2>3, <3>1 DEF NewGrant
  <2>4. CASE NoDrainCandidates = {} /\ Candidates = {}
    BY <1>1, <2>4 DEF NewGrant
  <2> QED
    BY <2>2, <2>3, <2>4
<1> HIDE DEF W, M
<1> QED
  BY <1>2, <1>3, <1>4, <1>5, <1>6, PutGood

-----------------------------------------------------------------------------
(* The Broker controller writes conditions and phases, never grants or marks;*)
(* the only phase it moves a CR to is Decommissioned, once it is marked.     *)
LEMMA SyncStatusGood ==
    ASSUME TypeOK, HistoryForward, Good(Live), NEW b \in Broker,
           NEW r \in {"no", "yes", "old"}, NEW p \in {"live", "Decommissioned", "gone"},
           p = "live" => Seen(b).phase = "live", p # "live" => Seen(b).decom,
           SyncStatus(b, r, p)
    PROVE  Good(Live') /\ HistoryForward'
<1> DEFINE M == [Live EXCEPT ![b].registered = r, ![b].phase = p]
<1>1. Live \in CRs
  BY LiveTypes
<1>2. M \in CRs
  BY <1>1, ZenonT(60) DEF CRs, CR
<1>3. Refines(Live, Live)
  BY DEF Refines, Good, MarkedClean
<1>4. ASSUME Current(b) PROVE Refines(M, Live)
  <2>0. Seen(b) = Live[b]
    BY <1>4, CacheAndLive DEF Seen
  <2>1. ASSUME NEW c \in Broker
        PROVE  /\ M[c].grant = Live[c].grant /\ M[c].decom = Live[c].decom
               /\ M[c].phase = IF c = b THEN p ELSE Live[c].phase
    BY <1>1 DEF CRs, CR
  <2> HIDE DEF M
  <2> QED
    BY <2>0, <2>1 DEF Refines, Good, MarkedClean, HasUnexpiredRollGrant
<1>5. (Current(b) /\ Put(M)) \/ Put(Live)
  BY DEF SyncStatus
<1> HIDE DEF M
<1> QED
  BY <1>1, <1>2, <1>3, <1>4, <1>5, PutRefined

LEMMA BrokerPassGood ==
    ASSUME TypeOK, HistoryForward, Good(Live), NEW b \in Broker, BrokerPass(b)
    PROVE  Good(Live') /\ HistoryForward'
<1>1. /\ Seen(b).phase \in {"live", "Decommissioned", "gone"}
      /\ Seen(b).phase # "live" => Seen(b).decom
  BY LiveTypes, CacheForward DEF Seen, CRs, CR, MarkedFirst
<1>2. CASE Unverified(b)
  <2>1. SyncStatus(b, "no", Seen(b).phase)
    BY <1>2 DEF Unverified
  <2> QED
    BY <1>1, <2>1, SyncStatusGood
<1>3. CASE Register(b)
  <2>1. PICK r \in {"no", "yes"} : SyncStatus(b, r, "live")
    BY <1>3, Zenon DEF Register
  <2>2. Seen(b).phase = "live"
    BY <1>3 DEF Register
  <2> QED
    BY <2>1, <2>2, SyncStatusGood
<1>4. CASE FinishDecommission(b)
  <2>1. SyncStatus(b, "no", "Decommissioned")
    BY <1>4 DEF FinishDecommission
  <2>2. Seen(b).decom
    BY <1>4 DEF FinishDecommission, Decommissioning
  <2> QED
    BY <2>1, <2>2, SyncStatusGood
<1>5. Unverified(b) \/ Register(b) \/ FinishDecommission(b)
  BY Zenon DEF BrokerPass, CreatePod, Park, ReplaceFailing, EnsureDrained, Rotate,
     AwaitPod, StartDecommission
<1> QED
  BY <1>2, <1>3, <1>4, <1>5

-----------------------------------------------------------------------------
(* Time and kubelet: a grant may run out, a condition may turn old, in every *)
(* copy.                                                                     *)
LEMMA ExpireEffect ==
    ASSUME TypeOK, NEW b \in Broker, Expire(b)
    PROVE  /\ DOMAIN crs' = DOMAIN crs
           /\ \A i \in DOMAIN crs : \A c \in Broker :
                /\ crs'[i][c].ver = crs[i][c].ver
                /\ crs'[i][c].decom = crs[i][c].decom /\ crs'[i][c].phase = crs[i][c].phase
                /\ crs'[i][c].registered = crs[i][c].registered
                /\ crs'[i][c].grant.held = crs[i][c].grant.held
                /\ crs'[i][c].grant.noDrain = crs[i][c].grant.noDrain
                /\ crs'[i][c].grant.fresh => crs[i][c].grant.fresh
<1>1. crs' = [i \in DOMAIN crs |-> [crs[i] EXCEPT ![b].grant.fresh = FALSE]]
  BY DEF Expire
<1>2. ASSUME NEW i \in DOMAIN crs, NEW c \in Broker
      PROVE  /\ crs'[i][c].ver = crs[i][c].ver
             /\ crs'[i][c].decom = crs[i][c].decom /\ crs'[i][c].phase = crs[i][c].phase
             /\ crs'[i][c].registered = crs[i][c].registered
             /\ crs'[i][c].grant.held = crs[i][c].grant.held
             /\ crs'[i][c].grant.noDrain = crs[i][c].grant.noDrain
             /\ crs'[i][c].grant.fresh => crs[i][c].grant.fresh
  <2>1. crs[i] \in CRs
    BY CacheAndLive
  <2>2. crs'[i] = [crs[i] EXCEPT ![b].grant.fresh = FALSE]
    BY <1>1
  <2> QED
    BY <2>1, <2>2 DEF CRs, CR, Grants
<1> QED
  BY <1>1, <1>2

LEMMA TerminatedEffect ==
    ASSUME TypeOK, NEW b \in Broker, Terminated(b)
    PROVE  /\ DOMAIN crs' = DOMAIN crs
           /\ \A i \in DOMAIN crs : \A c \in Broker :
                /\ crs'[i][c].ver = crs[i][c].ver
                /\ crs'[i][c].decom = crs[i][c].decom /\ crs'[i][c].phase = crs[i][c].phase
                /\ crs'[i][c].grant = crs[i][c].grant
                /\ \/ crs'[i][c].registered = crs[i][c].registered
                   \/ c = b /\ crs'[i][c].registered = "old"
<1>1. crs' = [i \in DOMAIN crs |-> IF crs[i][b].registered = "yes"
                                   THEN [crs[i] EXCEPT ![b].registered = "old"] ELSE crs[i]]
  BY DEF Terminated
<1>2. ASSUME NEW i \in DOMAIN crs, NEW c \in Broker
      PROVE  /\ crs'[i][c].ver = crs[i][c].ver
             /\ crs'[i][c].decom = crs[i][c].decom /\ crs'[i][c].phase = crs[i][c].phase
             /\ crs'[i][c].grant = crs[i][c].grant
             /\ \/ crs'[i][c].registered = crs[i][c].registered
                \/ c = b /\ crs'[i][c].registered = "old"
  <2>1. crs[i] \in CRs
    BY CacheAndLive
  <2>2. CASE crs'[i] = [crs[i] EXCEPT ![b].registered = "old"]
    BY <2>1, <2>2 DEF CRs, CR
  <2>3. CASE crs'[i] = crs[i]
    BY <2>3
  <2> QED
    BY <1>1, <2>2, <2>3
<1> QED
  BY <1>1, <1>2

LEMMA ExternalGood ==
    ASSUME TypeOK, TypeOK', HistoryForward, Good(Live), External
    PROVE  Good(Live') /\ HistoryForward'
<1>1. CASE UNCHANGED crs
  BY <1>1 DEF Live, HistoryForward
<1>2. ASSUME NEW b \in Broker, Expire(b) \/ Terminated(b) PROVE Good(Live') /\ HistoryForward'
  <2>1. /\ DOMAIN crs' = DOMAIN crs
        /\ \A i \in DOMAIN crs : \A c \in Broker :
              /\ crs'[i][c].decom = crs[i][c].decom /\ crs'[i][c].phase = crs[i][c].phase
              /\ crs'[i][c].grant.held = crs[i][c].grant.held
              /\ crs'[i][c].grant.noDrain = crs[i][c].grant.noDrain
              /\ crs'[i][c].grant.fresh => crs[i][c].grant.fresh
    BY <1>2, ExpireEffect, TerminatedEffect
  <2>2. HistoryForward' /\ Live' = crs'[Len(crs)]
    BY <2>1, MapForward
  <2>3. Len(crs) \in DOMAIN crs /\ Live = crs[Len(crs)]
    BY CacheAndLive
  <2>4. Refines(Live', Live)
    BY <2>1, <2>2, <2>3 DEF Refines, Good, MarkedClean, HasUnexpiredRollGrant
  <2> QED
    BY <2>2, <2>4, RefinedIsGood
<1>3. UNCHANGED crs \/ \E b \in Broker : Expire(b) \/ Terminated(b)
  BY Zenon DEF External, EditTemplate, ScaleDown, AdminToggles, Starts, DrainFinishes,
     DecommissionFinishes
<1> QED
  BY <1>1, <1>2, <1>3

LEMMA InitGood == Init => Good(Live) /\ HistoryForward
<1> SUFFICES ASSUME Init PROVE Good(Live) /\ HistoryForward
  OBVIOUS
<1>1. /\ Live = [b \in Broker |-> [ver |-> First, grant |-> NoGrant, decom |-> FALSE,
                                   phase |-> "live", registered |-> "yes"]]
      /\ DOMAIN crs = {1} /\ crs[1] = Live
  BY DEF Init, Live
<1>2. Good(Live)
  BY <1>1, GrantlessIsGood DEF HasUnexpiredRollGrant, NoGrant
<1> QED
  BY <1>1, <1>2 DEF HistoryForward, Advances, MarkedFirst

(* The inductive invariant of the arbitration.                               *)
ArbitrationInv == RollInv /\ HistoryForward

LEMMA ArbitrationStep ==
    ASSUME ArbitrationInv, [Next]_vars, [EnsureBrokers \/ EnsureRollGrants => GrantsSeen]_vars
    PROVE  ArbitrationInv'
<1>0. TypeOK /\ Good(Live) /\ HistoryForward
  BY RollInvParts DEF ArbitrationInv
<1>1. CASE UNCHANGED vars
  <2>1. TypeOK'
    BY <1>0, <1>1, TypeOKParts DEF vars, Parts, HistoryOK, OwnerOK, PassOK, PodsOK, RedpandaOK
  <2>2. Good(Live') /\ HistoryForward'
    BY <1>0, <1>1 DEF vars, Live, HistoryForward
  <2> QED
    BY <2>1, <2>2, RollInvParts DEF ArbitrationInv
<1>2. CASE Next /\ ~UNCHANGED vars
  <2>1. TypeOK'
    BY <1>0, <1>2, ClusterPassTypes, BrokerPassTypes, ExternalTypes DEF Next
  <2>2. EnsureBrokers \/ EnsureRollGrants => GrantsSeen
    BY <1>2
  <2>3. Good(Live') /\ HistoryForward'
    BY <1>0, <1>2, <2>1, <2>2, EnsureBrokersGood, EnsureRollGrantsGood, BrokerPassGood,
       ExternalGood, DeliverEffect DEF Next
  <2> QED
    BY <2>1, <2>3, RollInvParts DEF ArbitrationInv
<1> QED
  BY <1>1, <1>2

(* Whatever the cache's lag, as long as every arbitration sees the grants    *)
(* and marks as they are: grants are exclusive, a grant to roll a running    *)
(* broker excludes a decommission, a marked CR holds no live grant.          *)
THEOREM RollInvariant == Spec /\ FreshArbitration => []ArbitrationInv
<1>1. Init => ArbitrationInv
  BY InitTypes, InitGood, RollInvParts DEF ArbitrationInv
<1>2. ArbitrationInv /\ [Next]_vars /\ [EnsureBrokers \/ EnsureRollGrants => GrantsSeen]_vars
        => ArbitrationInv'
  BY ArbitrationStep
<1> QED
  BY <1>1, <1>2, PTL DEF Spec, FreshArbitration

(* The single-holder rule of EnsureRollGrants, for any number of Brokers,    *)
(* templates and edits and any lag of the cache, whatever order passes,      *)
(* failures and expiries take: two Brokers can come to hold unexpired        *)
(* roll-grants only through a pass of the cluster controller that reads a    *)
(* grant or a mark that is no longer the live one.                           *)
THEOREM GrantsAreExclusive == Spec /\ FreshArbitration => []AtMostOneGrant
<1>1. ArbitrationInv => AtMostOneGrant
  BY DEF ArbitrationInv, RollInv
<1> QED
  BY <1>1, RollInvariant, PTL

(* The two arbitration gates (RollGrantHeld in ensureBrokers, the in-flight  *)
(* decommission in EnsureRollGrants) exclude each other under any lag, with  *)
(* the same exception: only a pass that reads a grant or a mark that is no   *)
(* longer the live one can roll a Broker out of service while another is     *)
(* decommissioned.                                                           *)
THEOREM RollsExcludeDecommissions == Spec /\ FreshArbitration => []DecommissionExcludesRoll
<1>1. ArbitrationInv => DecommissionExcludesRoll
  BY DEF ArbitrationInv, RollInv
<1> QED
  BY <1>1, RollInvariant, PTL

=============================================================================
