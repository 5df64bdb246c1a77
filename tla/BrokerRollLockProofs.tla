------------------------ MODULE BrokerRollLockProofs ------------------------
(***************************************************************************)
(* Rolling restarts over roll-grants implement RollLock, for every number   *)
(* of Brokers, every sequence of template edits and any lag of the caches,  *)
(* up to three kinds of step, which are named here and left out of the      *)
(* behaviours the theorems speak of: an arbitration or a drained rotation   *)
(* that acts on a template, grant or mark that is no longer the live one,   *)
(* and a template given back to a Broker while the pod a rotation deleted   *)
(* for its successor is still terminating.  That pod counts as current, so  *)
(* its grant is released while it goes down.                                *)
(***************************************************************************)
EXTENDS BrokerRollProofs, FiniteSetTheorems

(* The reads a roll rests on are of the live CRs: the grants and marks every *)
(* arbitration reads, the templates EnsureRollGrants judges rolls by, and    *)
(* the grant and template of the Broker whose pod a rotation deletes.  All   *)
(* other passes, and all other fields, may be as stale as the cache allows.  *)
RollReadsLive ==
    /\ EnsureBrokers \/ EnsureRollGrants => GrantsSeen
    /\ EnsureRollGrants => \A b \in Broker : Cache[b].ver = Live[b].ver
    /\ \A b \in Broker :
          Rotate(b) => Cache[b].grant = Live[b].grant /\ Cache[b].ver = Live[b].ver
FreshRolls == [][RollReadsLive]_vars

(* A broker that a rotation took down gets the template of its terminating   *)
(* pod back.                                                                 *)
TakesBack ==
    \E b \in rolled : Up(b) /\ pod[b].ver # Live[b].ver /\ pod[b].ver = Live'[b].ver
NeverTakenBack == [][~TakesBack]_vars

(* Pods are created by passes whose status update is not lost.               *)
FreshCreates == [][\A b \in Broker : CreatePod(b) => Current(b)]_vars

(* A grant to roll a running broker; a grant, run out or not, of a Broker    *)
(* that may roll.                                                            *)
Drains(c) == HasUnexpiredRollGrant(c) /\ ~c.grant.noDrain
Held(c) == c.grant.held /\ ~c.decom

(* A broker that a rotation took down is not up, or is terminating in a pod  *)
(* of another template than its CR's.                                        *)
RolledIsDown == \A b \in rolled : Up(b) => pod[b].del /\ pod[b].ver # Live[b].ver

(* Who leaves the cluster is marked, and is not waited for once removed.     *)
MembersMarked ==
    \A b \in Broker :
        /\ member[b] # "active" => Live[b].decom
        /\ Live[b].phase # "live" => member[b] = "removed"
        /\ b \in rolled => member[b] # "removed"

(* The broker taken down is alone, nobody else has a grant to go down, and   *)
(* while it terminates it comes before every holder of a grant that ran out, *)
(* as does, before it goes down, the holder of the grant.                    *)
RolledAlone ==
    /\ \A b, c \in rolled : b = c
    /\ \A c \in rolled : \A b \in Broker \ {c} : ~Drains(Live[b])
RolledFirst ==
    \A c \in rolled : Up(c) /\ ~Live[c].decom
        => /\ Live[c].grant.held
           /\ \A b \in Broker \ {c} : Held(Live[b]) => c < b
HolderFirst ==
    \A c \in Broker : Drains(Live[c]) => \A b \in Broker \ {c} : Held(Live[b]) => c < b

DownInv == RolledIsDown /\ MembersMarked /\ RolledAlone /\ RolledFirst /\ HolderFirst

(* A BrokerRegistered condition is about an old pod only while there is no   *)
(* other.                                                                    *)
OldIsPodless == \A b \in Broker : Live[b].registered = "old" => ~HasPod(b)

-----------------------------------------------------------------------------
(* What ensureBrokers does to a CR: a new template, a mark, a deletion.      *)
LEMMA EnsureBrokersEffect ==
    ASSUME TypeOK, HistoryForward, EnsureBrokers, NEW b \in Broker
    PROVE  /\ Live'[b].grant = Live[b].grant
           /\ Live'[b].registered = Live[b].registered
           /\ Live[b].decom => Live'[b].decom
           /\ Live'[b].phase # "live" => Live[b].phase # "live"
<1> DEFINE w == {d \in TemplateWrites : \A c \in {e \in TemplateWrites : ~Current(e)} : d < c}
           t(B) == WithTemplates(Live, B)
           s == WithoutFinished(t(TemplateWrites))
           x == [s EXCEPT ![NextExcess].decom = TRUE]
           Effect(M) == /\ M[b].grant = Live[b].grant
                        /\ M[b].registered = Live[b].registered
                        /\ Live[b].decom => M[b].decom
                        /\ M[b].phase # "live" => Live[b].phase # "live"
<1>0. Live \in CRs /\ Live[b] \in CR
  BY LiveTypes DEF CRs
<1>1. ASSUME NEW B PROVE t(B) \in CRs /\ Effect(t(B))
  <2>1. t(B) \in CRs
    BY <1>0, TemplatesTypes
  <2>2. t(B)[b] = IF b \in B THEN [Live[b] EXCEPT !.ver = spec] ELSE Live[b]
    BY DEF WithTemplates
  <2> QED
    BY <1>0, <2>1, <2>2 DEF CR
<1>2. s \in CRs /\ Effect(s)
  <2> DEFINE u == t(TemplateWrites)
  <2>1. u \in CRs /\ Effect(u)
    BY <1>1
  <2> HIDE DEF u
  <2>2. WithoutFinished(u) \in CRs
    BY <2>1, WithoutFinishedTypes
  <2>3. WithoutFinished(u)[b] = IF b \in Finished THEN [u[b] EXCEPT !.phase = "gone"] ELSE u[b]
    BY DEF WithoutFinished
  <2>4. b \in Finished => Live[b].phase # "live"
    BY CacheForward DEF Finished, Excess, ExcessLive, Advances
  <2>5. u[b] \in CR
    BY <2>1 DEF CRs
  <2>6. Effect(WithoutFinished(u))
    BY <2>1, <2>3, <2>4, <2>5 DEF CR
  <2> QED
    BY <2>2, <2>6 DEF u
<1>3. Put(t(w)) \/ Put(s) \/ Put(x)
  BY Zenon DEF EnsureBrokers
<1>4. x \in CRs /\ Effect(x)
  <2> HIDE DEF s
  <2>1. x \in CRs
    BY <1>2, ZenonT(60) DEF CRs, CR
  <2>2. /\ x[b].grant = s[b].grant /\ x[b].registered = s[b].registered
        /\ x[b].ver = s[b].ver /\ x[b].phase = s[b].phase /\ (s[b].decom => x[b].decom)
    BY <1>2 DEF CRs, CR
  <2> HIDE DEF x
  <2> QED
    BY <1>2, <2>1, <2>2
<1>5. t(w) \in CRs /\ Effect(t(w))
  BY <1>1
<1> HIDE DEF t, s, x, w
<1>6. Live' = t(w) \/ Live' = s \/ Live' = x
  BY <1>2, <1>3, <1>4, <1>5, PutEffect
<1>7. Effect(Live')
  <2> HIDE DEF Effect
  <2> QED BY <1>2, <1>4, <1>5, <1>6
<1> QED
  BY <1>7

-----------------------------------------------------------------------------
(* What EnsureRollGrants does to the grants it finds: it takes back those of *)
(* marked Brokers and of Brokers whose roll is complete or may not go on,    *)
(* and renews others as they are or as no-drain grants.                      *)
LEMMA WithGrantsEffect ==
    ASSUME TypeOK, GrantsSeen, NEW B, NEW b \in Broker
    PROVE  LET M == WithGrants(Live, B)
           IN  /\ M[b].ver = Live[b].ver /\ M[b].decom = Live[b].decom
               /\ M[b].phase = Live[b].phase /\ M[b].registered = Live[b].registered
               /\ M[b].grant.held => Live[b].grant.held
               /\ Drains(M[b]) => Drains(Live[b])
               /\ M[b].grant.held \/ b \in B \cap Revoked \/ ~Live[b].grant.held
               /\ b \in B \cap Revoked => ~M[b].grant.held
<1> DEFINE M == WithGrants(Live, B)
<1>0. Live \in CRs /\ Live[b] \in CR /\ Cache[b].grant = Live[b].grant
  BY LiveTypes DEF CRs, GrantsSeen
<1>1. CASE b \in B \cap Revoked
  <2>1. M[b] = [Live[b] EXCEPT !.grant = NoGrant]
    BY <1>1 DEF WithGrants
  <2>2. /\ M[b].grant = NoGrant /\ M[b].ver = Live[b].ver /\ M[b].decom = Live[b].decom
        /\ M[b].phase = Live[b].phase /\ M[b].registered = Live[b].registered
    BY <1>0, <2>1 DEF CR
  <2> HIDE DEF M
  <2> QED
    BY <1>1, <2>2 DEF Drains, HasUnexpiredRollGrant, NoGrant, M
<1>2. CASE b \notin B \cap Revoked /\ b \in B \cap Rekeyed
  <2> DEFINE nd == Cache[b].grant.noDrain \/ ~NoDrainHold(b)
             d == IF Cache[b].grant.noDrain = nd THEN Live[b].grant.noDrain ELSE nd
  <2>1. M[b] = GrantRoll(Live, b, nd)[b]
    BY <1>2 DEF WithGrants
  <2>2. M[b] = [Live[b] EXCEPT !.grant = Grant(Cache[b].ver, d)]
    BY <1>0, <2>1 DEF GrantRoll, CRs
  <2>3. Live[b].grant.noDrain => d
    BY <1>0
  <2>4. HasUnexpiredRollGrant(Live[b])
    BY <1>0, <1>2, VerdictCases DEF Rekeyed, Judged, Granted, HasUnexpiredRollGrant
  <2> HIDE DEF d
  <2>5. /\ M[b].grant = Grant(Cache[b].ver, d)
        /\ M[b].ver = Live[b].ver /\ M[b].decom = Live[b].decom
        /\ M[b].phase = Live[b].phase /\ M[b].registered = Live[b].registered
    BY <1>0, <2>2 DEF CR
  <2> HIDE DEF M
  <2>6. M[b].grant.held /\ M[b].grant.noDrain = d
    BY <2>5 DEF Grant
  <2> QED
    BY <1>2, <2>3, <2>4, <2>5, <2>6 DEF Drains, HasUnexpiredRollGrant, M
<1>3. CASE b \notin B \cap Revoked /\ b \notin B \cap Rekeyed
  <2>1. M[b] = Live[b]
    BY <1>3 DEF WithGrants
  <2> QED
    BY <1>3, <2>1
<1> QED
  BY <1>1, <1>2, <1>3

-----------------------------------------------------------------------------
(* A broker taken down that has not gone yet is outdated: its grant is       *)
(* neither revoked nor dropped.                                              *)
LEMMA RolledKeepsGrant ==
    ASSUME TypeOK, GrantsSeen, DownInv, NEW c \in rolled, Cache[c].ver = Live[c].ver,
           Up(c), ~Live[c].decom
    PROVE  c \notin Revoked /\ (c \in Granted => Verdict(c) \notin {"revoke", "drop"})
<1>1. c \in Broker /\ ~Cache[c].decom
  BY DEF TypeOK, GrantsSeen
<1>2. pod[c].del /\ pod[c].ver # Cache[c].ver
  BY DEF DownInv, RolledIsDown
<1>3. ~RollComplete(c)
  BY <1>2 DEF RollComplete, OnCurrent, PodOutdated
<1>4. Verdict(c) \notin {"revoke", "drop"}
  BY <1>2, <1>3 DEF Verdict
<1> QED
  BY <1>1, <1>4 DEF Revoked, Judged

(* When the pass may grant, every Broker still holding a grant is a          *)
(* candidate.                                                                *)
LEMMA HeldIsCandidate ==
    ASSUME TypeOK, HistoryForward, GrantsSeen, Judged({"drop", "rekey", "switch", "hold"}) = {},
           NEW c \in Broker, Held(WithGrants(Live, Revoked \cup Rekeyed)[c])
    PROVE  c \in Candidates \cap Granted
<1> DEFINE M == WithGrants(Live, Revoked \cup Rekeyed)
<1>1. Cache[c].grant = Live[c].grant /\ Cache[c].decom = Live[c].decom
  BY DEF GrantsSeen
<1>2. M[c].grant.held /\ ~M[c].decom
  BY DEF Held
<1>3. Held(Live[c]) /\ c \notin Revoked
  BY <1>2, WithGrantsEffect DEF Held
<1>4. c \in Granted
  BY <1>1, <1>3, CacheForward DEF Granted, Rollable, Listed, MarkedFirst, Held
<1>5. Verdict(c) = "expired"
  BY <1>3, <1>4, VerdictCases DEF Judged, Revoked
<1> QED
  BY <1>4, <1>5 DEF Candidates, Judged

(* The two outcomes of EnsureRollGrants: grants taken back or renewed only,  *)
(* or, none being active, one more grant, no-drain or not.                   *)
Granting(b, nd) ==
    /\ Judged({"drop", "rekey", "switch", "hold"}) = {}
    /\ b \in Candidates
    /\ nd => NoDrainCandidates # {}
    /\ ~nd => b = FirstOf(Candidates) /\ ~GrantsHeldBack

LEMMA EnsureRollGrantsCases ==
    ASSUME TypeOK, EnsureRollGrants
    PROVE  \/ \E B : /\ Live' = WithGrants(Live, B)
                     /\ \A b \in B \cap Revoked : Current(b)
           \/ \E b \in Candidates, nd \in BOOLEAN :
                 /\ Granting(b, nd)
                 /\ \A c \in Revoked : Current(c)
                 /\ Live' = GrantRoll(WithGrants(Live, Revoked \cup Rekeyed), b, nd)
<1> DEFINE W(B) == WithGrants(Live, B)
           M == W(Revoked \cup Rekeyed)
<1>1. ASSUME NEW B PROVE W(B) \in CRs
  BY LiveTypes, WithGrantsTypes
<1>2. \/ Put(NewGrant(M)) /\ \A c \in Revoked : Current(c)
      \/ \E B : Put(W(B)) /\ \A c \in B \cap Revoked : Current(c)
  <2> DEFINE bad == {b \in Revoked : ~Current(b)}
  <2>1. \/ bad = {} /\ Put(NewGrant(M))
        \/ \E B \in SUBSET ((Revoked \cup Rekeyed) \ bad) : Put(W(B))
    BY Zenon DEF EnsureRollGrants
  <2>2. bad = {} => \A c \in Revoked : Current(c)
    OBVIOUS
  <2>3. \A B \in SUBSET ((Revoked \cup Rekeyed) \ bad) : \A c \in B \cap Revoked : Current(c)
    OBVIOUS
  <2> HIDE DEF bad, W, M
  <2> QED
    BY <2>1, <2>2, <2>3
<1>3. NewGrant(M) \in CRs
  <2> HIDE DEF W
  <2> QED BY <1>1, NewGrantTypes
<1>4. \/ Live' = NewGrant(M) /\ \A c \in Revoked : Current(c)
      \/ \E B : Live' = W(B) /\ \A c \in B \cap Revoked : Current(c)
  <2> HIDE DEF W
  <2>1. ASSUME NEW B, Put(W(B)) PROVE Live' = W(B)
    BY <1>1, <2>1, PutEffect
  <2> HIDE DEF M
  <2>2. Put(NewGrant(M)) => Live' = NewGrant(M)
    BY <1>3, PutEffect
  <2> QED
    BY <1>2, <2>1, <2>2
<1>5. \/ NewGrant(M) = M
      \/ \E b \in Candidates, nd \in BOOLEAN : Granting(b, nd) /\ NewGrant(M) = GrantRoll(M, b, nd)
  <2>1. CASE \/ Judged({"drop", "rekey", "switch", "hold"}) # {} \/ Candidates = {}
             \/ NoDrainCandidates = {} /\ GrantsHeldBack
    BY <2>1 DEF NewGrant
  <2>2. CASE /\ Judged({"drop", "rekey", "switch", "hold"}) = {} /\ Candidates # {}
             /\ NoDrainCandidates # {}
    <3> DEFINE b == FirstOf(NoDrainCandidates)
    <3>1. b \in Candidates
      BY <2>2, FirstOfIsMember, CandidatesAreRollable DEF NoDrainCandidates
    <3>2. NewGrant(M) = GrantRoll(M, b, TRUE)
      BY <2>2 DEF NewGrant
    <3>3. Granting(b, TRUE)
      BY <2>2, <3>1 DEF Granting
    <3> HIDE DEF b, M
    <3> QED
      BY <3>1, <3>2, <3>3
  <2>3. CASE /\ Judged({"drop", "rekey", "switch", "hold"}) = {} /\ Candidates # {}
             /\ NoDrainCandidates = {} /\ ~GrantsHeldBack
    <3> DEFINE b == FirstOf(Candidates)
    <3>1. b \in Candidates
      BY <2>3, FirstOfIsMember, CandidatesAreRollable
    <3>2. NewGrant(M) = GrantRoll(M, b, FALSE)
      BY <2>3 DEF NewGrant
    <3>3. Granting(b, FALSE)
      BY <2>3, <3>1 DEF Granting
    <3> HIDE DEF b, M
    <3> QED
      BY <3>1, <3>2, <3>3
  <2> QED
    BY <2>1, <2>2, <2>3
<1>6. CASE Live' = NewGrant(M) /\ NewGrant(M) = M /\ \A c \in Revoked : Current(c)
  BY <1>6
<1> HIDE DEF W, M
<1>7. CASE /\ \E b \in Candidates, nd \in BOOLEAN :
                 Granting(b, nd) /\ NewGrant(M) = GrantRoll(M, b, nd)
           /\ Live' = NewGrant(M) /\ \A c \in Revoked : Current(c)
  BY <1>7 DEF M, W
<1>8. CASE \E B : Live' = W(B) /\ \A c \in B \cap Revoked : Current(c)
  BY <1>8 DEF W
<1> QED
  BY <1>4, <1>5, <1>6, <1>7, <1>8

(* One more grant changes only the Broker granted.                           *)
LEMMA GrantRollEffect ==
    ASSUME TypeOK, GrantsSeen, NEW b \in Candidates, NEW nd \in BOOLEAN, NEW c \in Broker
    PROVE  LET M == WithGrants(Live, Revoked \cup Rekeyed)
               R == GrantRoll(M, b, nd)
           IN  /\ R[c].ver = Live[c].ver /\ R[c].decom = Live[c].decom
               /\ R[c].phase = Live[c].phase /\ R[c].registered = Live[c].registered
               /\ c # b => R[c].grant = M[c].grant
               /\ c = b => R[c].grant.held /\ (nd => R[c].grant.noDrain)
<1> DEFINE M == WithGrants(Live, Revoked \cup Rekeyed)
           d == IF Cache[b].grant.noDrain = nd THEN M[b].grant.noDrain ELSE nd
           g == Grant(Cache[b].ver, d)
           R == GrantRoll(M, b, nd)
<1>1. M \in CRs
  BY LiveTypes, WithGrantsTypes
<1>2. b \in Broker /\ M[b] = Live[b]
  BY CandidateUntouched, CandidatesAreRollable
<1>3. d = nd
  <2>1. Live[b].grant.noDrain \in BOOLEAN
    BY <1>2, LiveTypes DEF CRs, CR, Grants
  <2> QED
    BY <1>2, <2>1 DEF GrantsSeen
<1>4. g.noDrain = d /\ g.held
  BY DEF Grant
<1>5. /\ M[c].ver = Live[c].ver /\ M[c].decom = Live[c].decom
      /\ M[c].phase = Live[c].phase /\ M[c].registered = Live[c].registered
  BY WithGrantsEffect
<1> HIDE DEF M, d, g
<1>6. R = [M EXCEPT ![b].grant = g]
  BY DEF GrantRoll, d, g
<1>7. /\ R[c].ver = M[c].ver /\ R[c].decom = M[c].decom
      /\ R[c].phase = M[c].phase /\ R[c].registered = M[c].registered
      /\ R[c].grant = IF c = b THEN g ELSE M[c].grant
  BY <1>1, <1>2, <1>6 DEF CRs, CR
<1> HIDE DEF R
<1>8. /\ R[c].ver = Live[c].ver /\ R[c].decom = Live[c].decom
      /\ R[c].phase = Live[c].phase /\ R[c].registered = Live[c].registered
      /\ c # b => R[c].grant = M[c].grant
      /\ c = b => R[c].grant.held /\ (nd => R[c].grant.noDrain)
  BY <1>3, <1>4, <1>5, <1>7
<1> QED
  BY <1>8 DEF R, M

(* A grant to roll a running broker goes to the broker that is down already, *)
(* if there is one, and to the first holder of a grant that ran out.         *)
LEMMA DrainGrantIsFirst ==
    ASSUME TypeOK, HistoryForward, GrantsSeen, DownInv, NEW b \in Candidates, Granting(b, FALSE),
           NEW c \in Broker, Cache[c].ver = Live[c].ver
    PROVE  /\ c \in rolled => c = b
           /\ c # b /\ Held(WithGrants(Live, Revoked \cup Rekeyed)[c]) => b < c
<1> DEFINE M == WithGrants(Live, Revoked \cup Rekeyed)
           G == Candidates \cap Granted
<1>0. Broker \subseteq Nat /\ Candidates \subseteq Broker
  BY NAssumption, CandidatesAreRollable DEF NAssumption, Broker
<1>1. ASSUME NEW x \in G PROVE b \in Granted /\ b =< x
  <2>1. b = Min(G)
    BY <1>1 DEF Granting, FirstOf
  <2>2. G \in SUBSET Nat /\ G # {}
    BY <1>0, <1>1
  <2> HIDE DEF G
  <2>3. Min(G) \in G /\ Min(G) =< x
    BY <1>1, <2>2, MinIsMember
  <2> QED
    BY <2>1, <2>3 DEF G
<1>2. c # b /\ Held(M[c]) => b < c
  <2>1. ASSUME Held(M[c]) PROVE c \in G
    BY <2>1, HeldIsCandidate DEF Granting
  <2> QED
    BY <1>0, <1>1, <2>1
<1>3. ASSUME c \in rolled, c # b PROVE FALSE
  <2>1. Up(c)
    BY <1>3 DEF Granting, GrantsHeldBack, IsClusterHealthy, DownInv, MembersMarked
  <2>2. Live[c].phase = "live"
    BY <1>3 DEF DownInv, MembersMarked
  <2>3. ~Live[c].decom
    BY <2>2, CacheForward DEF Granting, GrantsHeldBack, DecommissionInFlight, Decommissioning,
       Listed, GrantsSeen, Advances
  <2>4. Live[c].grant.held /\ \A x \in Broker \ {c} : Held(Live[x]) => c < x
    BY <1>3, <2>1, <2>3 DEF DownInv, RolledFirst
  <2>5. c \notin Revoked
    BY <1>3, <2>1, <2>3, RolledKeepsGrant
  <2>6. M[c].grant.held /\ M[c].decom = Live[c].decom
    BY <2>4, <2>5, WithGrantsEffect
  <2>7. c \in G
    BY <2>3, <2>6, HeldIsCandidate DEF Held, Granting
  <2>8. b \in Granted /\ b =< c
    BY <1>1, <2>7
  <2>9. Held(Live[b])
    BY <1>0, <2>8 DEF Granted, Rollable, Held, GrantsSeen
  <2> QED
    BY <1>0, <1>3, <2>4, <2>8, <2>9
<1> HIDE DEF M
<1> QED
  BY <1>2, <1>3 DEF M

-----------------------------------------------------------------------------
(* What a write to the CRs alone must respect.                               *)
Respects(b) ==
    /\ Live[b].decom => Live'[b].decom
    /\ Live'[b].phase # "live" => Live[b].phase # "live" \/ member[b] = "removed"

(* Templates, marks and phases.                                              *)
LEMMA WriteKeepsWorld ==
    ASSUME TypeOK, DownInv, ~TakesBack, UNCHANGED <<pod, member, rolled>>,
           \A b \in Broker : Respects(b)
    PROVE  (RolledIsDown /\ MembersMarked)'
<1>1. RolledIsDown'
  BY DEF RolledIsDown, DownInv, TakesBack, Up
<1>2. MembersMarked'
  BY DEF MembersMarked, DownInv, Respects
<1> QED
  BY <1>1, <1>2

(* Grants taken back or renewed.                                             *)
LEMMA WriteKeepsOrder ==
    ASSUME TypeOK, DownInv,
           UNCHANGED <<pod, rolled>>, \A b \in Broker : Respects(b),
           \A b \in Broker : /\ Live'[b].grant.held => Live[b].grant.held
                             /\ Drains(Live'[b]) => Drains(Live[b]),
           \A c \in rolled : Up(c) /\ ~Live'[c].decom /\ Live[c].grant.held => Live'[c].grant.held
    PROVE  (RolledAlone /\ RolledFirst /\ HolderFirst)'
<1>1. ASSUME NEW b \in Broker, Held(Live'[b]) PROVE Held(Live[b])
  BY <1>1 DEF Held, Respects
<1>2. RolledAlone'
  BY DEF RolledAlone, DownInv
<1>3. RolledFirst'
  <2> SUFFICES ASSUME NEW c \in rolled, Up(c), ~Live'[c].decom
               PROVE  /\ Live'[c].grant.held
                      /\ \A b \in Broker \ {c} : Held(Live'[b]) => c < b
    BY DEF RolledFirst, Up
  <2>1. c \in Broker /\ ~Live[c].decom
    BY DEF TypeOK, Respects
  <2> QED
    BY <1>1, <2>1 DEF DownInv, RolledFirst
<1>4. HolderFirst'
  BY <1>1 DEF HolderFirst, DownInv
<1> QED
  BY <1>2, <1>3, <1>4

LEMMA EnsureBrokersDown ==
    ASSUME TypeOK, HistoryForward, DownInv, ~TakesBack, EnsureBrokers
    PROVE  DownInv'
<1>1. UNCHANGED <<pod, member, rolled>>
  BY DEF EnsureBrokers, owner, world
<1>2. \A b \in Broker : Respects(b) /\ Live'[b].grant = Live[b].grant
  BY EnsureBrokersEffect DEF Respects
<1>3. \A b \in Broker : Drains(Live'[b]) => Drains(Live[b])
  BY <1>2 DEF Drains, HasUnexpiredRollGrant
<1>4. \A c \in rolled : Live[c].grant.held => Live'[c].grant.held
  BY <1>2 DEF TypeOK
<1> QED
  BY <1>1, <1>2, <1>3, <1>4, WriteKeepsWorld, WriteKeepsOrder DEF DownInv

LEMMA EnsureRollGrantsDown ==
    ASSUME TypeOK, HistoryForward, Good(Live), GrantsSeen, DownInv, ~TakesBack,
           \A b \in Broker : Cache[b].ver = Live[b].ver, EnsureRollGrants
    PROVE  DownInv'
<1> DEFINE M == WithGrants(Live, Revoked \cup Rekeyed)
<1>1. UNCHANGED <<pod, member, rolled>>
  BY DEF EnsureRollGrants, owner, world
<1>2. ASSUME NEW B, Live' = WithGrants(Live, B) PROVE DownInv'
  <2>1. \A b \in Broker : /\ Respects(b)
                          /\ Live'[b].grant.held => Live[b].grant.held
                          /\ Drains(Live'[b]) => Drains(Live[b])
    BY <1>2, WithGrantsEffect DEF Respects
  <2>2. ASSUME NEW c \in rolled, Up(c), ~Live'[c].decom, Live[c].grant.held
        PROVE  Live'[c].grant.held
    <3>1. c \in Broker /\ ~Live[c].decom
      BY <2>1, <2>2 DEF TypeOK, Respects
    <3>2. c \notin Revoked
      BY <2>2, <3>1, RolledKeepsGrant
    <3> QED
      BY <1>2, <2>2, <3>1, <3>2, WithGrantsEffect
  <2> QED
    BY <1>1, <2>1, <2>2, WriteKeepsWorld, WriteKeepsOrder DEF DownInv
<1>3. ASSUME NEW b \in Candidates, NEW nd \in BOOLEAN, Granting(b, nd),
             Live' = GrantRoll(M, b, nd)
      PROVE  DownInv'
  <2>0. b \in Broker /\ Candidates \subseteq Broker
    BY CandidatesAreRollable
  <2>1. ASSUME NEW c \in Broker
        PROVE  /\ Live'[c].ver = Live[c].ver /\ Live'[c].decom = Live[c].decom
               /\ Live'[c].phase = Live[c].phase /\ Live'[c].registered = Live[c].registered
               /\ c # b => Live'[c].grant = M[c].grant
               /\ c = b => Live'[c].grant.held /\ (nd => Live'[c].grant.noDrain)
    <3> DEFINE R == GrantRoll(M, b, nd)
    <3>1. /\ R[c].ver = Live[c].ver /\ R[c].decom = Live[c].decom
          /\ R[c].phase = Live[c].phase /\ R[c].registered = Live[c].registered
          /\ c # b => R[c].grant = M[c].grant
          /\ c = b => R[c].grant.held /\ (nd => R[c].grant.noDrain)
      BY GrantRollEffect
    <3> HIDE DEF R
    <3>2. Live' = R
      BY <1>3 DEF R
    <3> QED
      BY <3>1, <3>2, Zenon
  <2>2. \A c \in Broker : Respects(c)
    BY <2>1 DEF Respects
  <2>3. (RolledIsDown /\ MembersMarked)'
    BY <1>1, <2>2, WriteKeepsWorld
  <2>4. ASSUME NEW c \in Broker
        PROVE  ~HasUnexpiredRollGrant(M[c]) /\ (M[c].grant.held => Live[c].grant.held)
               /\ M[c].decom = Live[c].decom
    BY <1>3, NoneLeft, WithGrantsEffect, ZenonT(60) DEF Granting
  <2>5. ASSUME NEW c \in Broker, Drains(Live'[c]) PROVE c = b /\ ~nd
    BY <2>1, <2>4, <2>5 DEF Drains, HasUnexpiredRollGrant
  <2>6. ASSUME NEW c \in Broker, c # b, Held(Live'[c]) PROVE Held(M[c]) /\ Held(Live[c])
    BY <2>1, <2>4, <2>6 DEF Held
  <2>7. ASSUME NEW c \in Broker, ~nd PROVE (c \in rolled => c = b) /\ (c # b /\ Held(M[c]) => b < c)
    BY <1>3, <2>7, DrainGrantIsFirst
  <2> HIDE DEF M
  <2>8. RolledAlone'
    <3>1. \A x, y \in rolled' : x = y
      BY <1>1 DEF DownInv, RolledAlone
    <3>2. ASSUME NEW x \in rolled', NEW y \in Broker \ {x}, Drains(Live'[y]) PROVE FALSE
      BY <1>1, <2>5, <2>7, <3>2 DEF TypeOK
    <3> QED
      BY <3>1, <3>2 DEF RolledAlone
  <2>9. HolderFirst'
    BY <2>5, <2>6, <2>7 DEF HolderFirst
  <2>10. RolledFirst'
    <3> SUFFICES ASSUME NEW c \in rolled, Up(c), ~Live'[c].decom
                 PROVE  /\ Live'[c].grant.held
                        /\ \A x \in Broker \ {c} : Held(Live'[x]) => c < x
      BY <1>1 DEF RolledFirst, Up
    <3>1. c \in Broker /\ ~Live[c].decom
      BY <2>1 DEF TypeOK
    <3>2. Live[c].grant.held /\ \A x \in Broker \ {c} : Held(Live[x]) => c < x
      BY <3>1 DEF DownInv, RolledFirst
    <3>3. Live'[c].grant.held
      <4>1. c \notin Revoked
        BY <3>1, RolledKeepsGrant
      <4>2. M[c].grant.held
        BY <3>1, <3>2, <4>1, WithGrantsEffect DEF M
      <4> QED
        BY <2>1, <3>1, <4>2
    <3>4. ~nd
      <4>1. HasPod(c) /\ pod[c].del /\ Cache[c].phase = "live"
        BY <3>1, CacheForward DEF DownInv, RolledIsDown, MembersMarked, Up, HasPod, Advances
      <4>2. Hold
        BY <3>1, <4>1 DEF Hold, Listed
      <4> QED
        BY <1>3, <4>2 DEF NoDrainCandidates, NoDrainHold, Granting
    <3>5. c = b
      BY <2>7, <3>1, <3>4
    <3> QED
      BY <2>6, <3>2, <3>3, <3>5
  <2> QED
    BY <2>3, <2>8, <2>9, <2>10 DEF DownInv
<1> HIDE DEF M
<1> QED
  BY <1>2, <1>3, EnsureRollGrantsCases DEF M

-----------------------------------------------------------------------------
(* What a pass of the Broker controller writes to the CRs: the condition of  *)
(* its Broker, about the pod it just saw, and the end of a decommission; or, *)
(* when the copy it acts on is stale, nothing.                               *)
LEMMA SyncStatusEffect ==
    ASSUME TypeOK, NEW b \in Broker, NEW r \in {"no", "yes"},
           NEW p \in {"live", "Decommissioned", "gone"}, SyncStatus(b, r, p), NEW c \in Broker
    PROVE  /\ Live'[c].grant = Live[c].grant /\ Live'[c].decom = Live[c].decom
           /\ Live'[c].ver = Live[c].ver
           /\ Live'[c].phase = IF c = b /\ Current(b) THEN p ELSE Live[c].phase
           /\ Live'[c].registered = IF c = b /\ Current(b) THEN r ELSE Live[c].registered
<1> DEFINE M == [Live EXCEPT ![b].registered = r, ![b].phase = p]
<1>1. Live \in CRs
  BY LiveTypes
<1>2. M \in CRs
  BY <1>1, ZenonT(60) DEF CRs, CR
<1>3. IF Current(b) THEN Put(M) ELSE Put(Live)
  BY DEF SyncStatus
<1>4. /\ M[c].grant = Live[c].grant /\ M[c].decom = Live[c].decom /\ M[c].ver = Live[c].ver
      /\ M[c].phase = IF c = b THEN p ELSE Live[c].phase
      /\ M[c].registered = IF c = b THEN r ELSE Live[c].registered
  BY <1>1 DEF CRs, CR
<1> HIDE DEF M
<1>5. Live' = IF Current(b) THEN M ELSE Live
  BY <1>1, <1>2, <1>3, PutEffect
<1> QED
  BY <1>4, <1>5

LEMMA BrokerPassEffect ==
    ASSUME TypeOK, NEW b \in Broker, BrokerPass(b), NEW c \in Broker
    PROVE  /\ Live'[c].grant = Live[c].grant /\ Live'[c].decom = Live[c].decom
           /\ Live'[c].ver = Live[c].ver
           /\ Live'[c].phase = Live[c].phase \/ (c = b /\ member[b] = "removed")
           /\ IF c = b /\ Current(b) THEN Live'[c].registered \in {"no", "yes"}
                                     ELSE Live'[c].registered = Live[c].registered
<1>1. /\ Seen(b).phase \in {"live", "Decommissioned", "gone"}
      /\ Current(b) => Seen(b) = Live[b]
  BY LiveTypes, CacheAndLive DEF Seen, CRs, CR
<1>2. CASE Unverified(b)
  <2>1. SyncStatus(b, "no", Seen(b).phase)
    BY <1>2 DEF Unverified
  <2> QED
    BY <1>1, <2>1, SyncStatusEffect
<1>3. CASE Register(b)
  <2>1. PICK r \in {"no", "yes"} : SyncStatus(b, r, "live")
    BY <1>3, Zenon DEF Register
  <2>2. Seen(b).phase = "live"
    BY <1>3 DEF Register
  <2> QED
    BY <1>1, <2>1, <2>2, SyncStatusEffect
<1>4. CASE FinishDecommission(b)
  <2>1. SyncStatus(b, "no", "Decommissioned") /\ member[b] = "removed"
    BY <1>4 DEF FinishDecommission
  <2> QED
    BY <2>1, SyncStatusEffect
<1>5. Unverified(b) \/ Register(b) \/ FinishDecommission(b)
  BY Zenon DEF BrokerPass, CreatePod, Park, ReplaceFailing, EnsureDrained, Rotate,
     AwaitPod, StartDecommission
<1> QED
  BY <1>2, <1>3, <1>4, <1>5

LEMMA BrokerPassDown ==
    ASSUME TypeOK, HistoryForward, Good(Live), DownInv, ~TakesBack, NEW b \in Broker, BrokerPass(b),
           Rotate(b) => Cache[b].grant = Live[b].grant /\ Cache[b].ver = Live[b].ver
    PROVE  DownInv'
<1>0. pod \in [Broker -> Pod] /\ rolled \subseteq Broker
      /\ member \in [Broker -> {"active", "draining", "removed"}]
  BY DEF TypeOK
<1>1. ASSUME NEW c \in Broker
      PROVE  /\ Live'[c].grant = Live[c].grant /\ Live'[c].decom = Live[c].decom
             /\ Live'[c].ver = Live[c].ver
             /\ Live'[c].phase = Live[c].phase \/ (c = b /\ member[b] = "removed")
  BY BrokerPassEffect
<1>2. ASSUME NEW c \in Broker
      PROVE  (Drains(Live'[c]) <=> Drains(Live[c])) /\ (Held(Live'[c]) <=> Held(Live[c]))
             /\ Respects(c)
  BY <1>1 DEF Drains, Held, HasUnexpiredRollGrant, Respects
<1>4. CASE UNCHANGED <<pod, member, rolled>>
  <2>1. \A c \in rolled : Live[c].grant.held => Live'[c].grant.held
    BY <1>0, <1>1
  <2> QED
    BY <1>1, <1>2, <1>4, <2>1, WriteKeepsWorld, WriteKeepsOrder DEF DownInv
<1>5. CASE CreatePod(b)
  <2>1. UNCHANGED <<member, rolled>>
        /\ pod' = [pod EXCEPT ![b] = [st |-> "pending", ver |-> Seen(b).ver, del |-> FALSE]]
    BY <1>5 DEF CreatePod, ControllerOnly
  <2>2. ASSUME NEW c \in Broker
        PROVE  IF c = b THEN ~Up(c)' ELSE pod'[c] = pod[c]
    BY <1>0, <2>1 DEF Up
  <2>4. RolledIsDown'
    BY <1>0, <1>1, <2>1, <2>2 DEF RolledIsDown, DownInv, Up
  <2>5. MembersMarked'
    BY <1>1, <2>1 DEF MembersMarked, DownInv
  <2>6. RolledAlone' /\ HolderFirst'
    BY <1>2, <2>1 DEF RolledAlone, HolderFirst, DownInv
  <2>7. RolledFirst'
    BY <1>0, <1>1, <1>2, <2>1, <2>2 DEF RolledFirst, DownInv, Up
  <2> QED
    BY <2>4, <2>5, <2>6, <2>7 DEF DownInv
<1>6. CASE StartDecommission(b)
  <2>0. Live[b].decom
    BY <1>6, CacheForward DEF StartDecommission, Decommissioning, Seen, Advances
  <2>1. UNCHANGED <<pod, rolled>> /\ member' = [member EXCEPT ![b] = "draining"]
        /\ member[b] = "active"
    BY <1>6 DEF StartDecommission
  <2>2. ASSUME NEW c \in Broker PROVE member'[c] = IF c = b THEN "draining" ELSE member[c]
    BY <1>0, <2>1
  <2>4. RolledIsDown'
    BY <1>0, <1>1, <2>1 DEF RolledIsDown, DownInv, Up
  <2>5. MembersMarked'
    BY <1>1, <2>0, <2>1, <2>2 DEF MembersMarked, DownInv
  <2>6. RolledAlone' /\ HolderFirst'
    BY <1>2, <2>1 DEF RolledAlone, HolderFirst, DownInv
  <2>7. RolledFirst'
    BY <1>0, <1>1, <1>2, <2>1 DEF RolledFirst, DownInv, Up
  <2> QED
    BY <2>4, <2>5, <2>6, <2>7 DEF DownInv
(* The pod is deleted: it was failing, or its broker has left, or it is      *)
(* outdated and its Broker holds the grant.                                  *)
<1>7. CASE /\ pod' = [pod EXCEPT ![b].del = TRUE]
           /\ UNCHANGED member
           /\ rolled' = rolled \/ (rolled' = rolled \cup {b} /\ Drains(Live[b]))
           /\ \/ rolled' = rolled /\ (member[b] = "removed" \/ ~Up(b))
              \/ pod[b].ver # Live[b].ver /\ member[b] # "removed"
  <2>1. ASSUME NEW c \in Broker
        PROVE  /\ pod'[c].st = pod[c].st /\ pod'[c].ver = pod[c].ver
               /\ pod'[c].del = IF c = b THEN TRUE ELSE pod[c].del
    BY <1>0, <1>7 DEF Pod
  <2>4. RolledIsDown'
    <3> SUFFICES ASSUME NEW c \in rolled', Up(c)
                 PROVE  pod'[c].del /\ pod'[c].ver # Live'[c].ver
      BY <1>0, <1>7, <2>1 DEF RolledIsDown, Up
    <3>1. CASE c = b
      BY <1>1, <1>7, <2>1, <3>1, ZenonT(60) DEF DownInv, MembersMarked
    <3>2. CASE c # b
      BY <1>0, <1>1, <1>7, <2>1, <3>2 DEF DownInv, RolledIsDown, Up
    <3> QED
      BY <3>1, <3>2
  <2>5. MembersMarked'
    BY <1>1, <1>7 DEF MembersMarked, DownInv
  <2>6. RolledAlone'
    BY <1>0, <1>2, <1>7 DEF RolledAlone, DownInv, Good, Exclusive, Drains
  <2>7. HolderFirst'
    BY <1>2 DEF HolderFirst, DownInv
  <2>8. RolledFirst'
    <3> SUFFICES ASSUME NEW c \in rolled', Up(c), ~Live[c].decom, c \in Broker
                 PROVE  /\ Live[c].grant.held
                        /\ \A x \in Broker \ {c} : Held(Live[x]) => c < x
      BY <1>0, <1>1, <1>2, <1>7, <2>1 DEF RolledFirst, Up
    <3>1. CASE c \in rolled
      BY <3>1 DEF DownInv, RolledFirst
    <3>2. CASE c = b /\ Drains(Live[b])
      BY <3>2 DEF DownInv, HolderFirst, Drains, HasUnexpiredRollGrant
    <3> QED
      BY <1>7, <3>1, <3>2
  <2> QED
    BY <2>4, <2>5, <2>6, <2>7, <2>8 DEF DownInv
<1>8. CASE ReplaceFailing(b)
  <2>1. UNCHANGED <<member, rolled>> /\ (UNCHANGED pod \/ pod' = [pod EXCEPT ![b].del = TRUE])
    BY <1>8, Zenon DEF ReplaceFailing, ControllerOnly
  <2>2. ~Up(b)
    BY <1>8 DEF ReplaceFailing, MayNotRotate, Failing, Up
  <2> QED
    BY <1>4, <1>7, <2>1, <2>2
<1>9. CASE Rotate(b)
  <2>1. pod' = [pod EXCEPT ![b].del = TRUE] /\ UNCHANGED member /\ rolled' = rolled \cup {b}
    BY <1>9 DEF Rotate, ControllerOnly
  <2>2. pod[b].ver # Live[b].ver /\ Drains(Live[b])
    BY <1>9 DEF Rotate, MayRotate, MayNotRotate, NeedsRotation, PodOutdated, Drains,
       HasValidRollGrant, HasUnexpiredRollGrant, Seen
  <2>3. member[b] # "removed"
    BY <2>2 DEF DownInv, MembersMarked, Good, MarkedClean, Drains
  <2> QED
    BY <1>7, <2>1, <2>2, <2>3
<1>10. CASE FinishDecommission(b)
  <2>1. UNCHANGED <<member, rolled>> /\ (UNCHANGED pod \/ pod' = [pod EXCEPT ![b].del = TRUE])
        /\ member[b] = "removed"
    BY <1>10, Zenon DEF FinishDecommission, ControllerOnly
  <2> QED
    BY <1>4, <1>7, <2>1
<1>11. \/ UNCHANGED <<pod, member, rolled>> \/ CreatePod(b) \/ StartDecommission(b)
       \/ ReplaceFailing(b) \/ Rotate(b) \/ FinishDecommission(b)
  BY Zenon DEF BrokerPass, Park, EnsureDrained, Register, AwaitPod, ControllerOnly
<1> QED
  BY <1>4, <1>5, <1>6, <1>8, <1>9, <1>10, <1>11

-----------------------------------------------------------------------------
(* The owner, kubelet, Redpanda and time.                                    *)
LEMMA ExternalEffect ==
    ASSUME TypeOK, TypeOK', HistoryForward, External, NEW c \in Broker
    PROVE  /\ Live'[c].ver = Live[c].ver /\ Live'[c].decom = Live[c].decom
           /\ Live'[c].phase = Live[c].phase
           /\ Live'[c].grant.held = Live[c].grant.held
           /\ Drains(Live'[c]) => Drains(Live[c])
           /\ Live'[c].registered = Live[c].registered
                \/ (Live'[c].registered = "old" /\ Terminated(c))
<1>1. CASE UNCHANGED crs
  BY <1>1 DEF Live
<1>2. Len(crs) \in DOMAIN crs /\ Live = crs[Len(crs)]
  BY CacheAndLive
<1>3. ASSUME NEW b \in Broker, Expire(b)
      PROVE  /\ Live'[c].ver = Live[c].ver /\ Live'[c].decom = Live[c].decom
             /\ Live'[c].phase = Live[c].phase /\ Live'[c].registered = Live[c].registered
             /\ Live'[c].grant.held = Live[c].grant.held
             /\ Drains(Live'[c]) => Drains(Live[c])
  <2>1. Live' = crs'[Len(crs)]
    BY <1>3, ExpireEffect, MapForward
  <2> QED
    BY <1>2, <1>3, <2>1, ExpireEffect DEF Drains, HasUnexpiredRollGrant
<1>4. ASSUME NEW b \in Broker, Terminated(b)
      PROVE  /\ Live'[c].ver = Live[c].ver /\ Live'[c].decom = Live[c].decom
             /\ Live'[c].phase = Live[c].phase /\ Live'[c].grant = Live[c].grant
             /\ Live'[c].registered = Live[c].registered
                  \/ (Live'[c].registered = "old" /\ c = b)
  <2>1. Live' = crs'[Len(crs)]
    BY <1>4, TerminatedEffect, MapForward
  <2> QED
    BY <1>2, <1>4, <2>1, TerminatedEffect
<1>5. \/ UNCHANGED crs \/ \E b \in Broker : Expire(b) \/ Terminated(b)
  BY Zenon DEF External, EditTemplate, ScaleDown, AdminToggles, Starts, DrainFinishes,
     DecommissionFinishes
<1>6. ASSUME NEW b \in Broker, Terminated(b), Live'[c].grant = Live[c].grant
      PROVE  Live'[c].grant.held = Live[c].grant.held /\ (Drains(Live'[c]) => Drains(Live[c]))
  BY <1>6 DEF Drains, HasUnexpiredRollGrant
<1> QED
  BY <1>1, <1>3, <1>4, <1>5, <1>6

LEMMA ExternalDown ==
    ASSUME TypeOK, TypeOK', HistoryForward, DownInv, External
    PROVE  DownInv'
<1>0. pod \in [Broker -> Pod] /\ rolled \subseteq Broker
      /\ member \in [Broker -> {"active", "draining", "removed"}]
  BY DEF TypeOK
<1>1. ASSUME NEW c \in Broker
      PROVE  /\ Live'[c].ver = Live[c].ver /\ Live'[c].decom = Live[c].decom
             /\ Live'[c].phase = Live[c].phase
             /\ Live'[c].grant.held = Live[c].grant.held
             /\ Drains(Live'[c]) => Drains(Live[c])
  BY ExternalEffect
<1>2. ASSUME NEW c \in Broker PROVE Held(Live'[c]) <=> Held(Live[c])
  BY <1>1 DEF Held
(* A grant may run out, a broker come back or leave: the order stays. *)
<1>5. ASSUME rolled' \subseteq rolled,
             \A c \in rolled' : Up(c)' => Up(c)
      PROVE  (RolledAlone /\ RolledFirst /\ HolderFirst)'
  <2>1. RolledAlone' /\ HolderFirst'
    BY <1>1, <1>2, <1>5 DEF RolledAlone, HolderFirst, DownInv
  <2>2. RolledFirst'
    BY <1>0, <1>1, <1>2, <1>5 DEF RolledFirst, DownInv
  <2> QED
    BY <2>1, <2>2
<1>6. CASE UNCHANGED <<pod, member, rolled>>
  <2>2. RolledIsDown' /\ MembersMarked'
    BY <1>0, <1>1, <1>6 DEF RolledIsDown, MembersMarked, DownInv, Up
  <2> QED
    BY <1>5, <1>6, <2>2 DEF DownInv, Up
<1>7. ASSUME NEW b \in Broker, Starts(b) PROVE DownInv'
  <2>1. UNCHANGED <<member, crs>>
    BY <1>7 DEF Starts
  <2>2. ASSUME NEW c \in Broker
        PROVE  /\ pod'[c].ver = pod[c].ver /\ pod'[c].del = pod[c].del
               /\ c # b => pod'[c].st = pod[c].st
    BY <1>0, <1>7 DEF Starts, Pod
  <2>3. rolled' \subseteq rolled /\ (Up(b)' => b \notin rolled')
    BY <1>7 DEF Starts, Up
  <2>5. RolledIsDown'
    BY <1>0, <1>1, <2>2, <2>3 DEF RolledIsDown, DownInv, Up
  <2>6. MembersMarked'
    BY <1>1, <2>1, <2>3 DEF MembersMarked, DownInv
  <2>8. \A c \in rolled' : Up(c)' => Up(c)
    BY <1>0, <2>2, <2>3 DEF Up
  <2> QED
    BY <1>5, <2>3, <2>5, <2>6, <2>8 DEF DownInv
<1>8. ASSUME NEW b \in Broker, Terminated(b) PROVE DownInv'
  <2>1. UNCHANGED <<member, rolled>>
    BY <1>8 DEF Terminated
  <2>2. ASSUME NEW c \in Broker
        PROVE  /\ pod'[c].ver = pod[c].ver
               /\ pod'[c].st = IF c = b THEN "none" ELSE pod[c].st
               /\ pod'[c].del = IF c = b THEN FALSE ELSE pod[c].del
    BY <1>0, <1>8 DEF Terminated, Pod
  <2>4. RolledIsDown'
    BY <1>0, <1>1, <2>1, <2>2, ZenonT(60) DEF RolledIsDown, DownInv, Up
  <2>5. MembersMarked'
    BY <1>1, <2>1 DEF MembersMarked, DownInv
  <2>8. \A c \in rolled' : Up(c)' => Up(c)
    BY <1>0, <2>1, <2>2 DEF Up
  <2> QED
    BY <1>5, <2>1, <2>4, <2>5, <2>8 DEF DownInv
<1>9. ASSUME NEW b \in Broker, DecommissionFinishes(b) PROVE DownInv'
  <2>1. UNCHANGED <<pod, crs>> /\ rolled' = rolled \ {b} /\ Live[b].decom
    BY <1>9 DEF DecommissionFinishes, DownInv, MembersMarked
  <2>2. ASSUME NEW c \in Broker PROVE member'[c] = IF c = b THEN "removed" ELSE member[c]
    BY <1>0, <1>9 DEF DecommissionFinishes
  <2>4. RolledIsDown'
    BY <1>0, <1>1, <2>1 DEF RolledIsDown, DownInv, Up
  <2>5. MembersMarked'
    BY <1>1, <2>1, <2>2 DEF MembersMarked, DownInv
  <2>7. \A c \in rolled' : Up(c)' => Up(c)
    BY <2>1 DEF Up
  <2> QED
    BY <1>5, <2>1, <2>4, <2>5, <2>7 DEF DownInv
<1>10. \/ UNCHANGED <<pod, member, rolled>>
       \/ \E b \in Broker : Starts(b) \/ Terminated(b) \/ DecommissionFinishes(b)
  BY Zenon DEF External, EditTemplate, ScaleDown, AdminToggles, Expire, DrainFinishes, world
<1> QED
  BY <1>6, <1>7, <1>8, <1>9, <1>10

-----------------------------------------------------------------------------
LEMMA InitDown ==
    ASSUME Init
    PROVE  DownInv /\ OldIsPodless
<1>1. ASSUME NEW b \in Broker
      PROVE  /\ Live[b] = [ver |-> First, grant |-> NoGrant, decom |-> FALSE,
                           phase |-> "live", registered |-> "yes"]
             /\ member[b] = "active"
  BY DEF Init, Live
<1>2. rolled = {}
  BY DEF Init
<1>3. ASSUME NEW b \in Broker PROVE ~Drains(Live[b])
  BY <1>1 DEF Drains, HasUnexpiredRollGrant, NoGrant
<1>4. RolledIsDown
  BY <1>2 DEF RolledIsDown
<1>5. MembersMarked /\ OldIsPodless
  BY <1>1, <1>2 DEF MembersMarked, OldIsPodless
<1>6. RolledAlone /\ RolledFirst /\ HolderFirst
  BY <1>2, <1>3 DEF RolledAlone, RolledFirst, HolderFirst
<1> QED
  BY <1>4, <1>5, <1>6 DEF DownInv

LEMMA DownInvStep ==
    ASSUME ArbitrationInv, ArbitrationInv', DownInv, [Next]_vars, [RollReadsLive]_vars,
           [~TakesBack]_vars
    PROVE  DownInv'
<1>1. TypeOK /\ TypeOK' /\ Good(Live) /\ HistoryForward
  BY RollInvParts DEF ArbitrationInv
<1>2. CASE UNCHANGED vars
  BY <1>2 DEF vars, Live, DownInv, RolledIsDown, MembersMarked, RolledAlone,
     RolledFirst, HolderFirst, Up
<1>3. CASE Deliver
  <2>1. Live' = Live /\ UNCHANGED <<pod, member, rolled>>
    BY <1>1, <1>3, DeliverEffect DEF Deliver, world
  <2> QED
    BY <2>1 DEF DownInv, RolledIsDown, MembersMarked, RolledAlone, RolledFirst, HolderFirst, Up
<1>4. CASE Next /\ ~Deliver /\ ~UNCHANGED vars
  <2>1. ~TakesBack /\ RollReadsLive
    BY <1>4
  <2> QED
    BY <1>1, <1>4, <2>1, EnsureBrokersDown, EnsureRollGrantsDown, BrokerPassDown, ExternalDown
       DEF Next, RollReadsLive
<1> QED
  BY <1>2, <1>3, <1>4

(* The inductive invariant: the broker a roll took down is alone, nobody     *)
(* else may go down, and while it terminates it is the first of the holders. *)
THEOREM DownInvariant ==
    Spec /\ FreshRolls /\ NeverTakenBack => [](ArbitrationInv /\ DownInv)
<1>1. Init => DownInv
  BY InitDown
<1>2. /\ ArbitrationInv /\ ArbitrationInv' /\ DownInv
      /\ [Next]_vars /\ [RollReadsLive]_vars /\ [~TakesBack]_vars
      => DownInv'
  BY DownInvStep
<1>3. [RollReadsLive]_vars => [EnsureBrokers \/ EnsureRollGrants => GrantsSeen]_vars
  BY DEF RollReadsLive
<1>4. FreshRolls => FreshArbitration
  BY <1>3, PTL DEF FreshRolls, FreshArbitration
<1>5. Spec /\ FreshRolls => []ArbitrationInv
  BY <1>4, RollInvariant, PTL
<1> QED
  BY <1>1, <1>2, <1>5, PTL DEF Spec, FreshRolls, NeverTakenBack

(* Rolling restarts take one broker down at a time, for every number of      *)
(* Brokers, any lag of the caches, and whatever passes, expiries, failures,  *)
(* edits and scale-downs happen: a second broker can be drained and deleted  *)
(* before the first is back only through an arbitration or a rotation that   *)
(* reads a CR that moved on in the fields it acts on, or once a Broker gets  *)
(* the template of its terminating pod back.                                 *)
THEOREM OneBrokerDownAtATime ==
    Spec /\ FreshRolls /\ NeverTakenBack => []OneBrokerDown
<1>1. ArbitrationInv /\ DownInv => OneBrokerDown
  <2> SUFFICES ASSUME DownInv PROVE Cardinality(rolled) <= 1
    BY DEF OneBrokerDown
  <2>1. CASE rolled = {}
    BY <2>1, FS_EmptySet
  <2>2. CASE rolled # {}
    <3>1. PICK b \in rolled : TRUE
      BY <2>2
    <3>2. rolled = {b}
      BY <3>1 DEF DownInv, RolledAlone
    <3>3. Cardinality({b}) = 1
      BY FS_Singleton
    <3> QED
      BY <3>2, <3>3
  <2> QED
    BY <2>1, <2>2
<1> QED
  BY <1>1, DownInvariant, PTL

(* The same as a refinement: the drained rotations of the two controllers,   *)
(* the returns of the brokers they took down and their decommissions are the *)
(* steps of RollLock, and nothing else touches it.                           *)
THEOREM RollsImplementLock ==
    Spec /\ FreshRolls /\ NeverTakenBack => ImplementsRollLock
<1>1. Init => Lock!Init
  BY DEF Init, Lock!Init
<1>2. ArbitrationInv /\ DownInv /\ DownInv' /\ [Next]_vars => [Lock!Next]_rolled
  <2> SUFFICES ASSUME TypeOK, DownInv, DownInv', [Next]_vars
               PROVE  [Lock!Next]_rolled
    BY DEF ArbitrationInv, RollInv
  <2>0. rolled \subseteq Broker
    BY DEF TypeOK
  <2>1. \/ UNCHANGED rolled
        \/ \E b \in Broker : rolled' = rolled \cup {b} \/ rolled' = rolled \ {b}
    BY Zenon DEF Next, vars, Deliver, EnsureBrokers, EnsureRollGrants, BrokerPass, CreatePod,
       Park, ReplaceFailing, EnsureDrained, Rotate, Register, AwaitPod, StartDecommission,
       FinishDecommission, External, EditTemplate, ScaleDown, AdminToggles, Expire, Starts,
       Terminated, DrainFinishes, DecommissionFinishes, ControllerOnly, world
  <2>2. ASSUME NEW b \in Broker, rolled' = rolled \cup {b}, rolled' # rolled
        PROVE  Lock!TakeDown(b)
    <3>1. rolled = {}
      BY <2>2 DEF DownInv, RolledAlone
    <3> QED
      BY <2>2, <3>1 DEF Lock!TakeDown
  <2>3. ASSUME NEW b \in Broker, rolled' = rolled \ {b}, rolled' # rolled
        PROVE  Lock!BringBack(b)
    <3>1. rolled = {b}
      BY <2>3 DEF DownInv, RolledAlone
    <3> QED
      BY <2>3, <3>1 DEF Lock!BringBack
  <2> QED
    BY <2>1, <2>2, <2>3 DEF Lock!Next
<1> QED
  BY <1>1, <1>2, DownInvariant, PTL DEF Spec, ImplementsRollLock, Lock!Spec

-----------------------------------------------------------------------------
(* A condition turns old only when its pod is gone, and a pass that creates  *)
(* a pod rewrites it.                                                        *)
LEMMA OldIsPodlessStep ==
    ASSUME TypeOK, TypeOK', HistoryForward, OldIsPodless, Next, GrantsSeen \/ ~EnsureRollGrants,
           \A b \in Broker : CreatePod(b) => Current(b)
    PROVE  OldIsPodless'
<1>0. pod \in [Broker -> Pod]
  BY DEF TypeOK
<1>1. ASSUME UNCHANGED pod, \A c \in Broker : Live'[c].registered = "old" => Live[c].registered = "old"
      PROVE  OldIsPodless'
  BY <1>1 DEF OldIsPodless, HasPod
<1>2. CASE Deliver
  BY <1>1, <1>2, DeliverEffect DEF Deliver, world
<1>3. CASE EnsureBrokers
  BY <1>1, <1>3, EnsureBrokersEffect DEF EnsureBrokers, world
<1>4. CASE EnsureRollGrants
  <2>1. ASSUME NEW c \in Broker PROVE Live'[c].registered = Live[c].registered
    <3>1. ASSUME NEW B, Live' = WithGrants(Live, B) PROVE Live'[c].registered = Live[c].registered
      BY <1>4, <3>1, WithGrantsEffect
    <3>2. ASSUME NEW b \in Candidates, NEW nd \in BOOLEAN,
                 Live' = GrantRoll(WithGrants(Live, Revoked \cup Rekeyed), b, nd)
          PROVE  Live'[c].registered = Live[c].registered
      BY <1>4, <3>2, GrantRollEffect
    <3> QED
      BY <1>4, <3>1, <3>2, EnsureRollGrantsCases
  <2> QED
    BY <1>1, <1>4, <2>1 DEF EnsureRollGrants, world
<1>5. ASSUME NEW b \in Broker, BrokerPass(b) PROVE OldIsPodless'
  <2>1. ASSUME NEW c \in Broker
        PROVE  IF c = b /\ Current(b) THEN Live'[c].registered \in {"no", "yes"}
                                      ELSE Live'[c].registered = Live[c].registered
    BY <1>5, BrokerPassEffect
  <2>2. \/ CreatePod(b) \/ UNCHANGED pod \/ pod' = [pod EXCEPT ![b].del = TRUE]
    BY <1>5, Zenon DEF BrokerPass, Park, ReplaceFailing, EnsureDrained, Rotate, Register,
       AwaitPod, StartDecommission, FinishDecommission
  <2>3. CASE CreatePod(b)
    <3>1. Current(b) /\ \A c \in Broker \ {b} : pod'[c] = pod[c]
      BY <1>0, <2>3 DEF CreatePod
    <3> QED
      BY <2>1, <3>1 DEF OldIsPodless, HasPod
  <2>4. CASE UNCHANGED pod \/ pod' = [pod EXCEPT ![b].del = TRUE]
    <3>1. \A c \in Broker : pod'[c].st = pod[c].st
      BY <1>0, <2>4 DEF Pod
    <3> QED
      BY <2>1, <3>1 DEF OldIsPodless, HasPod
  <2> QED
    BY <2>2, <2>3, <2>4
<1>6. CASE External
  <2>1. ASSUME NEW c \in Broker, HasPod(c)' PROVE HasPod(c) /\ ~Terminated(c)
    <3>1. pod'[c].st = pod[c].st \/ Starts(c) \/ pod'[c].st = "none"
      <4>1. \/ UNCHANGED pod
            \/ \E b \in Broker : Starts(b) \/ Terminated(b)
        BY <1>6, Zenon DEF External, EditTemplate, ScaleDown, AdminToggles, Expire, DrainFinishes,
           DecommissionFinishes, world
      <4>2. ASSUME NEW b \in Broker, Starts(b), b # c PROVE pod'[c] = pod[c]
        BY <1>0, <4>2 DEF Starts, Pod
      <4>3. ASSUME NEW b \in Broker, Terminated(b)
            PROVE  pod'[c].st \in {pod[c].st, "none"}
        BY <1>0, <4>3 DEF Terminated, Pod
      <4> QED
        BY <4>1, <4>2, <4>3
    <3>2. Starts(c) => HasPod(c)
      BY DEF Starts, HasPod
    <3>3. Terminated(c) => pod'[c].st = "none"
      BY <1>0 DEF Terminated, Pod
    <3> QED
      BY <2>1, <3>1, <3>2, <3>3 DEF HasPod
  <2> QED
    BY <1>6, <2>1, ExternalEffect DEF OldIsPodless
<1> QED
  BY <1>2, <1>3, <1>4, <1>5, <1>6 DEF Next

(* EnsureRollGrants takes a grant back from a Broker in service only once    *)
(* the broker runs again, in its new pod, and is registered from that pod,   *)
(* never on a condition left over from the pod it had before: under any lag, *)
(* if rolls read the live CRs, no terminating pod's template comes back and  *)
(* no pass that creates a pod loses its status update.                       *)
THEOREM GrantsReleasedWhenBack ==
    Spec /\ FreshRolls /\ NeverTakenBack /\ FreshCreates => ReleasedOnlyWhenBack
<1> DEFINE Released ==
             \A b \in Broker :
                /\ HasUnexpiredRollGrant(Live[b]) /\ ~Live[b].grant.noDrain
                /\ ~Live[b].decom /\ ~(Live[b].grant.held)'
                => b \notin rolled /\ Live[b].registered = "yes"
           Creates == \A b \in Broker : CreatePod(b) => Current(b)
<1>1. /\ ArbitrationInv /\ ArbitrationInv' /\ DownInv /\ OldIsPodless
      /\ [Next]_vars /\ [RollReadsLive]_vars
      => [Released]_vars
  <2> SUFFICES ASSUME ArbitrationInv, ArbitrationInv', DownInv, OldIsPodless, Next,
                      EnsureRollGrants => GrantsSeen, NEW b \in Broker,
                      HasUnexpiredRollGrant(Live[b]), ~Live[b].grant.noDrain,
                      ~Live[b].decom, ~Live'[b].grant.held
               PROVE  b \notin rolled /\ Live[b].registered = "yes"
    BY DEF RollReadsLive
  <2>1. TypeOK /\ TypeOK' /\ Good(Live) /\ HistoryForward /\ Live[b] \in CR
    BY RollInvParts, LiveTypes DEF CRs, ArbitrationInv
  <2>2. EnsureRollGrants
    <3>1. Live[b].grant.held
      BY DEF HasUnexpiredRollGrant
    <3>2. ~EnsureBrokers
      BY <2>1, <3>1, EnsureBrokersEffect
    <3>3. ASSUME NEW c \in Broker, BrokerPass(c) PROVE FALSE
      BY <2>1, <3>1, <3>3, BrokerPassEffect
    <3>4. ~External
      BY <2>1, <3>1, ExternalEffect
    <3>5. ~Deliver
      BY <2>1, <3>1, DeliverEffect
    <3> QED
      BY <3>2, <3>3, <3>4, <3>5 DEF Next
  <2>3. b \in Revoked /\ Current(b)
    <3>1. ASSUME NEW B, Live' = WithGrants(Live, B), \A c \in B \cap Revoked : Current(c)
          PROVE  b \in Revoked /\ Current(b)
      BY <2>1, <2>2, <3>1, WithGrantsEffect DEF HasUnexpiredRollGrant
    <3>2. ASSUME NEW c \in Candidates, NEW nd \in BOOLEAN, \A d \in Revoked : Current(d),
                 Live' = GrantRoll(WithGrants(Live, Revoked \cup Rekeyed), c, nd)
          PROVE  b \in Revoked /\ Current(b)
      <4> DEFINE M == WithGrants(Live, Revoked \cup Rekeyed)
                 R == GrantRoll(M, c, nd)
      <4>1. /\ b # c => R[b].grant = M[b].grant
            /\ b = c => R[b].grant.held
        BY <2>1, <2>2, GrantRollEffect
      <4>2. Live' = R
        BY <3>2
      <4> HIDE DEF R
      <4>3. ~M[b].grant.held
        BY <4>1, <4>2
      <4> QED
        BY <2>1, <2>2, <3>2, <4>3, WithGrantsEffect DEF HasUnexpiredRollGrant
    <3> QED
      BY <2>1, <2>2, <3>1, <3>2, EnsureRollGrantsCases
  <2>4. Cache[b] = Live[b]
    BY <2>1, <2>3, CacheAndLive
  <2>5. RollComplete(b)
    BY <2>3, <2>4 DEF Revoked, Judged, Verdict
  <2>6. Up(b) /\ HasPod(b) /\ pod[b].ver = Live[b].ver /\ Live[b].registered # "no"
    BY <2>4, <2>5 DEF RollComplete, IsPodReady, OnCurrent, PodOutdated
  <2>7. b \notin rolled
    BY <2>6 DEF DownInv, RolledIsDown
  <2>8. Live[b].registered = "yes"
    BY <2>1, <2>6 DEF OldIsPodless, CR
  <2> QED
    BY <2>7, <2>8
<1>2. /\ ArbitrationInv /\ ArbitrationInv' /\ OldIsPodless
      /\ [Next]_vars /\ [RollReadsLive]_vars /\ [Creates]_vars
      => OldIsPodless'
  <2> SUFFICES ASSUME ArbitrationInv, ArbitrationInv', OldIsPodless,
                      [Next]_vars, [RollReadsLive]_vars, [Creates]_vars
               PROVE  OldIsPodless'
    OBVIOUS
  <2>1. TypeOK /\ TypeOK' /\ HistoryForward
    BY DEF ArbitrationInv, RollInv
  <2>2. CASE UNCHANGED vars
    BY <2>2 DEF vars, OldIsPodless, Live, HasPod
  <2>3. CASE Next /\ RollReadsLive /\ Creates
    BY <2>1, <2>3, OldIsPodlessStep DEF RollReadsLive
  <2> QED
    BY <2>2, <2>3
<1>3. Init => OldIsPodless
  BY InitDown
<1> HIDE DEF Released, Creates
<1>4. FreshCreates => [][Creates]_vars
  BY DEF FreshCreates, Creates
<1>5. Spec /\ FreshRolls /\ NeverTakenBack /\ FreshCreates => [][Released]_vars
  BY <1>1, <1>2, <1>3, <1>4, DownInvariant, PTL DEF Spec, FreshRolls
<1> QED
  BY <1>5 DEF ReleasedOnlyWhenBack, Released
=============================================================================
