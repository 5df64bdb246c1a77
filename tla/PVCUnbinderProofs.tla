------------------------- MODULE PVCUnbinderProofs -------------------------
(***************************************************************************)
(* Why the PVC unbinder frees one broker at a time and loses no disk, for   *)
(* any brokers, nodes and volumes per broker, any node events, failed       *)
(* calls, restarts and half-way binds, however far the informers lag.       *)
(* Rebinding, which is deprecated, is off.  Of what the volume informer may *)
(* show one thing is ruled out, in the step that plans an unbind: a volume  *)
(* of the broker that it does not show yet, or one whose in-flight mark it  *)
(* still shows after the scan has cleared it.  Any other old copy is caught *)
(* by the resourceVersion of prepareForUnbind's patch.                      *)
(***************************************************************************)
EXTENDS PVCUnbinder, FiniteSetTheorems, TLAPS

ClaimRec == [uid: 0 .. MaxUid, vol: Id \cup {None}, del: BOOLEAN]
PVRec == [node: Node, ref: Id \cup {None}, retain: BOOLEAN, flight: Id \cup {None}, freed: BOOLEAN]
Reading == UNION {[S -> PVRec] : S \in SUBSET Id}
Gates == [pc: {"gates"}, b: Broker, blocked: BOOLEAN]
Act == [pc: {"act"}, b: Broker, claims: [Kind -> ClaimRec], vols: Reading, prepare: SUBSET Id,
        delete: SUBSET Kind, recycle: {{}}, missing: BOOLEAN]

Types ==
    /\ flags \in Flags
    /\ claim \in [Claim -> ClaimRec]
    /\ pv \in [Id -> {NoPV} \cup PVRec]
    /\ hit \subseteq Id
    /\ u \in {Idle} \cup Gates \cup Act

-----------------------------------------------------------------------------
(* A claim's id, and that of the volume made for it.                         *)
At(c, i) == <<c[1], c[2], i>>

(* A volume refers to the claim it was made for, bears no other mark, and is *)
(* retained once it is marked.                                               *)
VolumesAreOwn ==
    \A p \in Id : pv[p] # NoPV =>
        /\ pv[p].ref = p
        /\ pv[p].flight \in {None, p}
        /\ pv[p].flight # None => pv[p].retain

(* A claim is bound to the volume made for it, or that one is not made yet.  *)
ClaimsAreOwn ==
    \A c \in Claim : Exists(c) =>
        /\ claim[c].uid # 0
        /\ Bound(c) => claim[c].vol = ClaimId(c) /\ pv[ClaimId(c)] # NoPV
        /\ ~Bound(c) => pv[ClaimId(c)] = NoPV /\ ~claim[c].del

(* The claims that are being deleted are the ones the unbinder has deleted,  *)
(* and their volumes are retained.                                           *)
DeletedIsHit ==
    \A c \in Claim : Exists(c) =>
        /\ claim[c].del <=> ClaimId(c) \in hit
        /\ claim[c].del => pv[ClaimId(c)].retain

(* A claim is younger than every volume and every deletion of its name.      *)
Youngest ==
    \A c \in Claim : Exists(c) =>
        \A i \in 1 .. MaxUid : Used(c, i) => i <= claim[c].uid

(* While a broker waits for its disk the mark that says so is kept.          *)
Open(id) == LET c == claim[Name(id)] IN c.uid <= id[3] \/ c.del \/ c.vol = None
Marked(c) == \E i \in 1 .. MaxUid : /\ At(c, i) \in hit /\ pv[At(c, i)] # NoPV
                                    /\ pv[At(c, i)].flight # None
OpenIsMarked == \A id \in hit : Open(id) => Marked(Name(id))

(* A bound claim, once it has changed, does not come back.                   *)
Past(v, c) ==
    v.vol # None =>
        \/ v = claim[c]
        \/ /\ v.uid \in 1 .. MaxUid /\ At(c, v.uid) \in hit
           /\ v.del => claim[c].uid # v.uid
StaleClaims ==
    \A s \in stale : s.of = "claim" => /\ s.was \in [Claim -> ClaimRec]
                                       /\ \A c \in Claim : Past(s.was[c], c)

(* The volumes a lagging informer shows exist, and were always own ones.     *)
StaleVolumes ==
    \A s \in stale : s.of = "pv" =>
        /\ s.was \in [Id -> {NoPV} \cup PVRec]
        /\ \A p \in Id : s.was[p] # NoPV =>
              /\ pv[p] # NoPV /\ s.was[p].ref = p
              /\ s.was[p].flight # None => s.was[p].retain
StaleIsPast == StaleClaims /\ StaleVolumes

(* A reconcile past gate 0 is the only unbind; and what it will delete has   *)
(* its volume marked, or still to be marked from a copy that, if it shows    *)
(* the mark, shows it rightly.                                               *)
Alone == u.pc \in {"gates", "act"} => \A a \in Broker \ {u.b} : ~Unbinding(a)
ToPrepare ==
    u.pc = "act" => \A p \in u.prepare :
        /\ pv[p] # NoPV /\ u.vols[p] \in PVRec /\ u.vols[p].ref = p
        /\ u.vols[p].flight # None => u.vols[p].retain /\ pv[p].flight # None
ToDelete ==
    u.pc = "act" => \A k \in u.delete :
        LET c == <<u.b, k>>
            v == u.claims[k]
        IN  /\ v.vol # None /\ Past(v, c)
            /\ claim[c] = v => v.vol \in u.prepare \/ (pv[v.vol] # NoPV /\ pv[v.vol].flight # None)

Owned == VolumesAreOwn /\ ClaimsAreOwn /\ DeletedIsHit /\ Youngest
UnbindInv ==
    /\ Types /\ Owned /\ OpenIsMarked /\ StaleIsPast
    /\ Alone /\ ToPrepare /\ ToDelete /\ OneUnbindAtATime

-----------------------------------------------------------------------------
(* Names and ids are pairs and triples.                                      *)
LEMMA IdFacts ==
    /\ \A c \in Claim : /\ c = <<c[1], c[2]>> /\ c[1] \in Broker /\ c[2] \in Kind
                        /\ \A i \in 1 .. MaxUid :
                              At(c, i) \in Id /\ Name(At(c, i)) = c /\ At(c, i)[3] = i /\ At(c, i)[1] = c[1]
    /\ \A p \in Id : /\ Name(p) \in Claim /\ p[3] \in 1 .. MaxUid /\ p[1] = Name(p)[1] /\ p[1] \in Broker
                     /\ p = At(Name(p), p[3])
    /\ \A b \in Broker, k \in Kind : <<b, k>> \in Claim /\ <<b, k>>[1] = b /\ <<b, k>>[2] = k
  BY DEF Claim, Id, At, Name

(* Claims are told apart by their names, ids by their name and uid.          *)
LEMMA IdsDiffer ==
    \A c, d \in Claim : \A i, j \in 1 .. MaxUid : At(c, i) = At(d, j) => c = d /\ i = j
  BY IdFacts

(* The records of claims and volumes.                                        *)
LEMMA RecordFacts ==
    /\ NoClaim \in ClaimRec /\ NoClaim.uid = 0 /\ NoClaim.vol = None /\ ~NoClaim.del
    /\ NoPV \notin PVRec
    /\ None \notin Id
  BY UnbinderAssumption DEF NoClaim, ClaimRec, NoPV, PVRec

(* The next incarnation is younger than everything of that name.             *)
LEMMA NewIsYoungest ==
    ASSUME NEW c \in Claim
    PROVE  /\ NewUid(c) \in Nat \ {0}
           /\ \A i \in 1 .. MaxUid : Used(c, i) => i < NewUid(c)
  <1> DEFINE T == {i \in 1 .. MaxUid : \E j \in i .. MaxUid : Used(c, j)}
  <1>1. MaxUid \in Nat
    BY UnbinderAssumption
  <1>2. IsFiniteSet(1 .. MaxUid)
    BY <1>1, FS_Interval
  <1>3. IsFiniteSet(T) /\ Cardinality(T) \in Nat
    <2>1. T \subseteq 1 .. MaxUid
      OBVIOUS
    <2> QED
      BY <1>2, <2>1, FS_Subset, FS_CardinalityType
  <1>4. NewUid(c) = 1 + Cardinality(T)
    BY DEF NewUid
  <1>5. ASSUME NEW i \in 1 .. MaxUid, Used(c, i)
        PROVE  i <= Cardinality(T)
    <2>1. 1 .. i \subseteq T
      BY <1>5, <1>1
    <2>2. Cardinality(1 .. i) = i
      BY <1>1, FS_Interval
    <2>3. Cardinality(1 .. i) <= Cardinality(T)
      BY <2>1, <1>3, FS_Subset
    <2> QED
      BY <2>2, <2>3
  <1> QED
    BY <1>3, <1>4, <1>5

-----------------------------------------------------------------------------
(* The list of volumes from which an unbind is planned shows every volume of *)
(* the broker, and no in-flight mark on one that has been cleared.           *)
ListsOwnVolumes ==
    \A p \in PVs : p[1] = u.b =>
        /\ PVView[p] # NoPV
        /\ PVView[p].flight # None => pv[p].flight # None
TrueLists == [][PlanUnbind => ListsOwnVolumes]_vars

(* What the steps do to the claims, the volumes and the reconcile, once      *)
(* rebinding is off and unbinds are planned from true lists.                 *)
Rests == UNCHANGED <<flags, claim, pv, stale, u, hit>>

Ends == u' = Idle /\ UNCHANGED <<flags, claim, pv, stale, hit>>

ClaimsMade ==
    /\ claim' \in [Claim -> ClaimRec]
    /\ \A c \in Claim : \/ claim'[c] = claim[c]
                        \/ ~Exists(c) /\ NewUid(c) <= MaxUid /\ claim'[c] = Fresh(c)
    /\ UNCHANGED <<flags, pv, stale, u, hit>>

DisksBound ==
    /\ claim' \in [Claim -> ClaimRec]
    /\ \A c \in Claim : \/ claim'[c] = claim[c]
                        \/ /\ Exists(c) /\ ~Bound(c) /\ pv'[ClaimId(c)] # NoPV
                           /\ claim'[c] = [claim[c] EXCEPT !.vol = ClaimId(c)]
    /\ pv' \in [Id -> {NoPV} \cup PVRec]
    /\ \A p \in Id : \/ pv'[p] = pv[p]
                     \/ /\ pv[p] = NoPV /\ pv'[p] \in PVRec
                        /\ pv'[p].ref = p /\ pv'[p].flight = None
                        /\ p = ClaimId(Name(p)) /\ claim'[Name(p)].vol = p
    /\ UNCHANGED <<flags, stale, u, hit>>

ClaimLeft(c) ==
    /\ claim[c].del
    /\ claim' = [claim EXCEPT ![c] = NoClaim]
    /\ UNCHANGED <<flags, pv, stale, u, hit>>

ViewChanged ==
    /\ \/ stale' = {}
       \/ stale' = stale \cup {[of |-> "claim", was |-> claim]}
       \/ stale' = stale \cup {[of |-> "pv", was |-> pv]}
    /\ UNCHANGED <<flags, claim, pv, u, hit>>

MarksCleared ==
    /\ u = Idle
    /\ pv' \in [Id -> {NoPV} \cup PVRec]
    /\ \A p \in Id : \/ pv'[p] = pv[p]
                     \/ pv[p] # NoPV /\ pv'[p] = Cleared(p)
    /\ \/ UNCHANGED u
       \/ \E b \in Broker : ~UnbindInFlight(b) /\ u' \in Gates /\ u'.b = b
    /\ UNCHANGED <<flags, claim, stale, hit>>

Planned ==
    /\ u.pc = "gates" /\ ListsOwnVolumes /\ u' = Plan(u.b)
    /\ UNCHANGED <<flags, claim, pv, stale, hit>>

VolumePrepared(p) ==
    /\ u.pc = "act" /\ p \in u.prepare
    /\ pv' = [pv EXCEPT ![p] = Prepared(pv[p])]
    /\ u' = [u EXCEPT !.prepare = @ \ {p}]
    /\ UNCHANGED <<flags, claim, stale, hit>>

ClaimDeleted(k) ==
    LET c == <<u.b, k>>
    IN  /\ u.pc = "act" /\ u.prepare = {} /\ k \in u.delete
        /\ claim[c] = u.claims[k]
        /\ claim' = [claim EXCEPT ![c].del = TRUE]
        /\ hit' = hit \cup {ClaimId(c)}
        /\ u' = [u EXCEPT !.delete = @ \ {k}]
        /\ UNCHANGED <<flags, pv, stale>>

-----------------------------------------------------------------------------
LEMMA ClaimTyped ==
    ASSUME Types, NEW c \in Claim
    PROVE  /\ claim[c] \in ClaimRec /\ claim[c].uid \in 0 .. MaxUid
           /\ claim[c].vol \in Id \cup {None} /\ claim[c].del \in BOOLEAN
  BY DEF Types, ClaimRec

(* The ids the unbinder has deleted are ids of claims.                       *)
LEMMA HitTyped ==
    ASSUME Types, NEW id \in hit
    PROVE  id \in Id /\ Name(id) \in Claim /\ id[3] \in 1 .. MaxUid /\ id = At(Name(id), id[3])
  BY IdFacts DEF Types

(* A claim that exists has an id.                                            *)
LEMMA ExistingHasId ==
    ASSUME Types, Owned, NEW c \in Claim, Exists(c)
    PROVE  /\ claim[c].uid \in 1 .. MaxUid /\ ClaimId(c) = At(c, claim[c].uid) /\ ClaimId(c) \in Id
           /\ Name(ClaimId(c)) = c
  <1>1. claim[c].uid \in 0 .. MaxUid /\ claim[c].uid # 0
    BY ClaimTyped DEF Owned, ClaimsAreOwn
  <1>2. claim[c].uid \in 1 .. MaxUid
    BY <1>1, UnbinderAssumption
  <1>3. ClaimId(c) = At(c, claim[c].uid)
    BY DEF ClaimId, At
  <1> QED
    BY <1>2, <1>3, IdFacts

(* Fewer open ids, no more brokers being unbound.                            *)
LEMMA OpenShrinks ==
    ASSUME hit' = hit, \A id \in hit : Open(id)' => Open(id), NEW a, Unbinding(a)'
    PROVE  Unbinding(a)
  BY DEF Unbinding, Open

LEMMA StillAlone ==
    ASSUME Alone, OneUnbindAtATime, hit' = hit, u' = u,
           \A id \in hit : Open(id)' => Open(id)
    PROVE  Alone' /\ OneUnbindAtATime'
  <1>1. \A a : Unbinding(a)' => Unbinding(a)
    BY OpenShrinks
  <1> QED
    BY <1>1 DEF Alone, OneUnbindAtATime

LEMMA StillPast ==
    ASSUME StaleIsPast, stale' = stale,
           \A c \in Claim, v \in ClaimRec : Past(v, c) => Past(v, c)',
           \A p \in Id : pv[p] # NoPV => pv'[p] # NoPV
    PROVE  StaleIsPast'
  <1>1. StaleClaims'
    BY DEF StaleIsPast, StaleClaims
  <1>2. StaleVolumes'
    BY DEF StaleIsPast, StaleVolumes
  <1> QED
    BY <1>1, <1>2 DEF StaleIsPast

LEMMA StillToDelete ==
    ASSUME Types, ToDelete,
           u'.pc = "act" => /\ u.pc = "act" /\ u'.b = u.b /\ u'.claims = u.claims
                            /\ u'.delete \subseteq u.delete,
           \A c \in Claim, v \in ClaimRec : Past(v, c) => Past(v, c)',
           \A c \in Claim, v \in ClaimRec :
               claim'[c] = v /\ v.vol # None /\ Past(v, c) => claim[c] = v,
           \A p \in Id : (u.pc = "act" /\ p \in u.prepare) \/ (pv[p] # NoPV /\ pv[p].flight # None)
                        => p \in u'.prepare \/ (pv'[p] # NoPV /\ pv'[p].flight # None)
    PROVE  ToDelete'
  <1> SUFFICES ASSUME u'.pc = "act", NEW k \in u'.delete
               PROVE  LET c == <<u'.b, k>>
                          v == u'.claims[k]
                      IN  /\ v.vol # None
                          /\ v.vol # None => \/ v = claim'[c]
                                             \/ /\ v.uid \in 1 .. MaxUid /\ At(c, v.uid) \in hit'
                                                /\ v.del => claim'[c].uid # v.uid
                          /\ claim'[c] = v => v.vol \in u'.prepare \/ (pv'[v.vol] # NoPV /\ pv'[v.vol].flight # None)
    BY DEF ToDelete, Past, At
  <1>0. u \in Act
    BY DEF Types, Gates, Idle
  <1>1. PICK b \in Broker, v \in ClaimRec : b = u.b /\ v = u.claims[k] /\ k \in Kind
    BY <1>0 DEF Act
  <1>2. PICK c \in Claim : c = <<b, k>>
    BY <1>1, IdFacts
  <1>3. /\ v.vol # None /\ Past(v, c)
        /\ claim[c] = v => v.vol \in u.prepare \/ (pv[v.vol] # NoPV /\ pv[v.vol].flight # None)
    BY <1>1, <1>2 DEF ToDelete
  <1>4. Past(v, c)'
    BY <1>3
  <1>5. claim'[c] = v => claim[c] = v
    BY <1>3
  <1>6. v.vol \in Id
    BY <1>3 DEF ClaimRec
  <1>7. \/ v = claim'[c]
        \/ /\ v.uid \in 1 .. MaxUid /\ At(c, v.uid) \in hit'
           /\ v.del => claim'[c].uid # v.uid
    BY <1>3, <1>4 DEF Past, At
  <1>8. claim'[c] = v => v.vol \in u'.prepare \/ (pv'[v.vol] # NoPV /\ pv'[v.vol].flight # None)
    BY <1>3, <1>5, <1>6
  <1>9. <<u'.b, k>> = c /\ u'.claims[k] = v
    BY <1>1, <1>2
  <1> QED
    BY <1>3, <1>7, <1>8, <1>9

-----------------------------------------------------------------------------
(* The StatefulSet controller makes claims under uids nothing has used.      *)
LEMMA FreshFacts ==
    ASSUME Types, NEW c \in Claim, NewUid(c) <= MaxUid
    PROVE  /\ NewUid(c) \in 1 .. MaxUid
           /\ Fresh(c).uid = NewUid(c) /\ Fresh(c).vol = None /\ Fresh(c).del = FALSE
           /\ ~Used(c, NewUid(c))
           /\ pv[At(c, NewUid(c))] = NoPV /\ At(c, NewUid(c)) \notin hit
  <1>1. NewUid(c) \in 1 .. MaxUid
    BY NewIsYoungest, UnbinderAssumption
  <1>2. ~Used(c, NewUid(c))
    BY <1>1, NewIsYoungest
  <1> QED
    BY <1>1, <1>2 DEF Fresh, Used, At

LEMMA MadeKeeps ==
    ASSUME UnbindInv, ClaimsMade
    PROVE  UnbindInv'
  <1> USE DEF UnbindInv
  <1> DEFINE New(c) == ~Exists(c) /\ NewUid(c) <= MaxUid /\ claim'[c] = Fresh(c)
  <1>1. \A c \in Claim : claim'[c] = claim[c] \/ New(c)
    BY DEF ClaimsMade
  <1>2. pv' = pv /\ hit' = hit /\ u' = u /\ stale' = stale /\ flags' = flags
    BY DEF ClaimsMade
  <1>3. Types'
    BY <1>2 DEF Types, ClaimsMade
  <1>4. \A c \in Claim : New(c) =>
           /\ claim[c] = NoClaim
           /\ claim'[c].uid \in 1 .. MaxUid /\ claim'[c].uid = NewUid(c)
           /\ claim'[c].vol = None /\ claim'[c].del = FALSE
           /\ pv[At(c, claim'[c].uid)] = NoPV /\ At(c, claim'[c].uid) \notin hit
    BY FreshFacts DEF Exists
  <1>5. \A c \in Claim : ClaimId(c)' = At(c, claim'[c].uid) /\ ClaimId(c) = At(c, claim[c].uid)
    BY DEF ClaimId, At
  <1> HIDE DEF New
  <1>6. VolumesAreOwn'
    BY <1>2 DEF Owned, VolumesAreOwn
  <1>7. ClaimsAreOwn'
    <2> SUFFICES ASSUME NEW c \in Claim, Exists(c)'
                 PROVE  /\ claim'[c].uid # 0
                        /\ Bound(c)' => claim'[c].vol = ClaimId(c)' /\ pv'[ClaimId(c)'] # NoPV
                        /\ ~Bound(c)' => pv'[ClaimId(c)'] = NoPV /\ ~claim'[c].del
      BY DEF ClaimsAreOwn
    <2>1. CASE New(c)
      BY <2>1, <1>2, <1>4, <1>5 DEF Bound
    <2>2. CASE claim'[c] = claim[c]
      BY <2>2, <1>2, <1>5 DEF Owned, ClaimsAreOwn, Exists, Bound
    <2> QED
      BY <1>1, <2>1, <2>2
  <1>8. DeletedIsHit'
    <2> SUFFICES ASSUME NEW c \in Claim, Exists(c)'
                 PROVE  /\ claim'[c].del <=> ClaimId(c)' \in hit'
                        /\ claim'[c].del => pv'[ClaimId(c)'].retain
      BY DEF DeletedIsHit
    <2>1. CASE New(c)
      BY <2>1, <1>2, <1>4, <1>5
    <2>2. CASE claim'[c] = claim[c]
      BY <2>2, <1>2, <1>5 DEF Owned, DeletedIsHit, Exists
    <2> QED
      BY <1>1, <2>1, <2>2
  <1>9. Youngest'
    <2> SUFFICES ASSUME NEW c \in Claim, Exists(c)', NEW i \in 1 .. MaxUid, Used(c, i)'
                 PROVE  i <= claim'[c].uid
      BY DEF Youngest
    <2>0. Used(c, i)
      BY <1>2 DEF Used
    <2>1. CASE New(c)
      BY <2>0, <2>1, <1>4, NewIsYoungest
    <2>2. CASE claim'[c] = claim[c]
      BY <2>0, <2>2 DEF Owned, Youngest, Exists
    <2> QED
      BY <1>1, <2>1, <2>2
  <1>10. \A id \in hit : Open(id)' => Open(id)
    <2> SUFFICES ASSUME NEW id \in hit, Open(id)'
                 PROVE  Open(id)
      OBVIOUS
    <2>0. Name(id) \in Claim /\ id[3] \in 1 .. MaxUid
      BY HitTyped
    <2>1. CASE New(Name(id))
      <3>1. claim[Name(id)].uid = 0
        BY <2>0, <2>1, <1>4, RecordFacts
      <3> QED
        BY <3>1, <2>0 DEF Open
    <2>2. CASE claim'[Name(id)] = claim[Name(id)]
      BY <2>2 DEF Open, Name
    <2> QED
      BY <1>1, <2>0, <2>1, <2>2
  <1>11. OpenIsMarked'
    BY <1>2, <1>10 DEF OpenIsMarked, Marked, At, Name
  <1>12. \A c \in Claim, v \in ClaimRec : Past(v, c) => Past(v, c)'
    <2> SUFFICES ASSUME NEW c \in Claim, NEW v \in ClaimRec, Past(v, c), v.vol # None
                 PROVE  Past(v, c)'
      BY DEF Past
    <2>1. CASE New(c)
      <3>1. v # claim[c]
        BY <2>1, <1>4, RecordFacts
      <3>2. v.uid \in 1 .. MaxUid /\ At(c, v.uid) \in hit
        BY <3>1 DEF Past
      <3>3. v.uid < claim'[c].uid
        BY <3>2, <2>1, <1>4, NewIsYoungest DEF Used, At
      <3>4. v.uid # claim'[c].uid
        BY <3>2, <3>3
      <3> QED
        BY <3>2, <3>4, <1>2 DEF Past, At
    <2>2. CASE claim'[c] = claim[c]
      BY <2>2, <1>2 DEF Past, At
    <2> QED
      BY <1>1, <2>1, <2>2
  <1>13. StaleIsPast'
    BY <1>2, <1>12, StillPast
  <1>14. Alone' /\ OneUnbindAtATime'
    BY <1>2, <1>10, StillAlone
  <1>15. ToPrepare'
    BY <1>2 DEF ToPrepare
  <1>16. ToDelete'
    <2>1. \A c \in Claim, v \in ClaimRec : claim'[c] = v /\ v.vol # None /\ Past(v, c) => claim[c] = v
      BY <1>1, <1>4
    <2> QED
      BY <2>1, <1>2, <1>12, StillToDelete
  <1> QED
    BY <1>3, <1>6, <1>7, <1>8, <1>9, <1>11, <1>13, <1>14, <1>15, <1>16 DEF Owned

-----------------------------------------------------------------------------
(* The scheduler binds claims to the volumes made for them.                  *)
LEMMA BindKeeps ==
    ASSUME UnbindInv, DisksBound
    PROVE  UnbindInv'
  <1> USE DEF UnbindInv
  <1> DEFINE New(c) == /\ Exists(c) /\ ~Bound(c) /\ pv'[ClaimId(c)] # NoPV
                       /\ claim'[c] = [claim[c] EXCEPT !.vol = ClaimId(c)]
             Made(p) == /\ pv[p] = NoPV /\ pv'[p] \in PVRec
                        /\ pv'[p].ref = p /\ pv'[p].flight = None
                        /\ p = ClaimId(Name(p)) /\ claim'[Name(p)].vol = p
  <1>1. /\ \A c \in Claim : claim'[c] = claim[c] \/ New(c)
        /\ \A p \in Id : pv'[p] = pv[p] \/ Made(p)
    BY DEF DisksBound
  <1>2. hit' = hit /\ u' = u /\ stale' = stale /\ flags' = flags
    BY DEF DisksBound
  <1>3. Types'
    BY <1>2 DEF Types, DisksBound
  <1>4. \A c \in Claim : ClaimId(c)' = At(c, claim'[c].uid) /\ ClaimId(c) = At(c, claim[c].uid)
    BY DEF ClaimId, At
  <1>5. \A c \in Claim : claim'[c].uid = claim[c].uid /\ claim'[c].del = claim[c].del
    <2> SUFFICES ASSUME NEW c \in Claim
                 PROVE  claim'[c].uid = claim[c].uid /\ claim'[c].del = claim[c].del
      OBVIOUS
    <2>1. claim[c] \in ClaimRec
      BY ClaimTyped
    <2> QED
      BY <2>1, <1>1, ZenonT(60) DEF ClaimRec
  <1>6. \A c \in Claim : New(c) =>
           /\ claim[c].uid \in 1 .. MaxUid /\ ClaimId(c) \in Id
           /\ claim[c].vol = None /\ claim'[c].vol = ClaimId(c)
           /\ ~claim[c].del /\ ClaimId(c) \notin hit
    <2> SUFFICES ASSUME NEW c \in Claim, New(c)
                 PROVE  /\ claim[c].uid \in 1 .. MaxUid /\ ClaimId(c) \in Id
                        /\ claim[c].vol = None /\ claim'[c].vol = ClaimId(c)
                        /\ ~claim[c].del /\ ClaimId(c) \notin hit
      BY Zenon
    <2>1. claim[c].uid \in 1 .. MaxUid /\ ClaimId(c) \in Id
      BY ExistingHasId
    <2>2. ~claim[c].del /\ ClaimId(c) \notin hit
      BY DEF Owned, ClaimsAreOwn, DeletedIsHit
    <2>3. claim[c].vol = None /\ claim'[c].vol = ClaimId(c)
      BY ClaimTyped DEF Bound, ClaimRec
    <2> QED
      BY <2>1, <2>2, <2>3
  <1>7. \A p \in Id : pv[p] # NoPV => pv'[p] = pv[p]
    BY <1>1
  <1>8. \A c \in Claim : claim'[c] # claim[c] => New(c)
    BY <1>1
  <1>9. \A c \in Claim : New(c) => pv'[ClaimId(c)] # NoPV
    OBVIOUS
  <1>10. VolumesAreOwn'
    BY <1>1 DEF Owned, VolumesAreOwn
  <1>11. \A p \in Id : Made(p) => /\ Name(p) \in Claim /\ p = At(Name(p), claim[Name(p)].uid)
                                  /\ claim'[Name(p)].vol = p
    BY <1>4, IdFacts
  <1> HIDE DEF New, Made
  <1>12. ClaimsAreOwn'
    <2> SUFFICES ASSUME NEW c \in Claim, Exists(c)'
                 PROVE  /\ claim'[c].uid # 0
                        /\ Bound(c)' => claim'[c].vol = ClaimId(c)' /\ pv'[ClaimId(c)'] # NoPV
                        /\ ~Bound(c)' => pv'[ClaimId(c)'] = NoPV /\ ~claim'[c].del
      BY DEF ClaimsAreOwn
    <2>0. ClaimId(c)' = ClaimId(c)
      BY <1>4, <1>5
    <2>1. CASE New(c)
      <3>1. Bound(c)' /\ claim'[c].uid # 0
        BY <2>1, <1>5, <1>6, RecordFacts DEF Bound
      <3> QED
        BY <3>1, <2>0, <2>1, <1>6, <1>9
    <2>2. CASE claim'[c] = claim[c] /\ Bound(c)
      <3>1. Exists(c) /\ Bound(c)' /\ claim'[c].uid # 0 /\ claim'[c].vol = ClaimId(c)
            /\ pv[ClaimId(c)] # NoPV /\ ClaimId(c) \in Id
        BY <2>2, ExistingHasId DEF Owned, ClaimsAreOwn, Exists, Bound
      <3> QED
        BY <3>1, <2>0, <1>7
    <2>3. CASE claim'[c] = claim[c] /\ ~Bound(c)
      <3>1. /\ Exists(c) /\ ~Bound(c)' /\ claim'[c].uid # 0 /\ ~claim'[c].del
            /\ pv[ClaimId(c)] = NoPV /\ ClaimId(c) \in Id /\ Name(ClaimId(c)) = c
            /\ claim'[c].vol = None
        BY <2>3, ExistingHasId DEF Owned, ClaimsAreOwn, Exists, Bound
      <3>2. ~Made(ClaimId(c))
        BY <3>1, <1>11, RecordFacts
      <3> QED
        BY <3>1, <3>2, <2>0, <1>1
    <2> QED
      BY <1>1, <2>1, <2>2, <2>3
  <1>13. \A c \in Claim : Exists(c)' => Exists(c)
    BY <1>8 DEF New, Exists
  <1>14. DeletedIsHit'
    <2> SUFFICES ASSUME NEW c \in Claim, Exists(c)'
                 PROVE  /\ claim'[c].del <=> ClaimId(c)' \in hit'
                        /\ claim'[c].del => pv'[ClaimId(c)'].retain
      BY DEF DeletedIsHit
    <2>1. ClaimId(c)' = ClaimId(c) /\ Exists(c) /\ ClaimId(c) \in Id
      BY <1>4, <1>5, <1>13, ExistingHasId
    <2>2. claim[c].del => pv[ClaimId(c)] # NoPV
      BY <2>1 DEF Owned, ClaimsAreOwn
    <2>3. /\ claim[c].del <=> ClaimId(c) \in hit
          /\ claim[c].del => pv[ClaimId(c)].retain
      BY <2>1 DEF Owned, DeletedIsHit
    <2>4. claim'[c].del = claim[c].del
      BY <1>5
    <2>5. claim[c].del => pv'[ClaimId(c)] = pv[ClaimId(c)]
      BY <2>1, <2>2, <1>7
    <2> QED
      BY <2>1, <2>3, <2>4, <2>5, <1>2
  <1>15. Youngest'
    <2> SUFFICES ASSUME NEW c \in Claim, Exists(c)', NEW i \in 1 .. MaxUid, Used(c, i)'
                 PROVE  i <= claim'[c].uid
      BY DEF Youngest
    <2>0. Exists(c) /\ claim'[c].uid = claim[c].uid /\ At(c, i) \in Id /\ Name(At(c, i)) = c
          /\ claim[c].uid \in 1 .. MaxUid
      BY <1>13, <1>5, IdFacts, ExistingHasId
    <2>1. CASE Used(c, i)
      BY <2>0, <2>1 DEF Owned, Youngest
    <2>2. CASE ~Used(c, i)
      <3>1. pv'[At(c, i)] # pv[At(c, i)]
        BY <2>2, <1>2 DEF Used, At
      <3>2. At(c, i) = At(c, claim[c].uid)
        BY <3>1, <2>0, <1>1, <1>11
      <3> QED
        BY <3>2, <2>0, IdsDiffer
    <2> QED
      BY <2>1, <2>2
  <1>16. \A id \in hit : Open(id)' => Open(id)
    <2> SUFFICES ASSUME NEW id \in hit, Open(id)'
                 PROVE  Open(id)
      OBVIOUS
    <2>0. Name(id) \in Claim
      BY HitTyped
    <2>1. claim'[Name(id)].vol = None => claim[Name(id)].vol = None
      BY <2>0, <1>6, <1>8
    <2> QED
      BY <2>0, <2>1, <1>5 DEF Open, Name
  <1>17. OpenIsMarked'
    <2> SUFFICES ASSUME NEW id \in hit, Open(id)'
                 PROVE  Marked(Name(id))'
      BY <1>2 DEF OpenIsMarked
    <2>1. Marked(Name(id)) /\ Name(id) \in Claim
      BY <1>16, HitTyped DEF OpenIsMarked
    <2>2. PICK i \in 1 .. MaxUid : /\ At(Name(id), i) \in hit /\ pv[At(Name(id), i)] # NoPV
                                   /\ pv[At(Name(id), i)].flight # None
      BY <2>1 DEF Marked
    <2>3. pv'[At(Name(id), i)] = pv[At(Name(id), i)]
      BY <2>1, <2>2, <1>7, IdFacts
    <2> QED
      BY <2>2, <2>3, <1>2 DEF Marked, At, Name
  <1>18. \A c \in Claim, v \in ClaimRec : Past(v, c) => Past(v, c)'
    <2> SUFFICES ASSUME NEW c \in Claim, NEW v \in ClaimRec, Past(v, c), v.vol # None
                 PROVE  Past(v, c)'
      BY DEF Past
    <2>1. v = claim[c] => claim'[c] = v
      BY <1>6, <1>8
    <2> QED
      BY <2>1, <1>2, <1>5 DEF Past, At
  <1>19. StaleIsPast'
    BY <1>2, <1>7, <1>18, StillPast
  <1>20. Alone' /\ OneUnbindAtATime'
    BY <1>2, <1>16, StillAlone
  <1>21. ToPrepare'
    <2>1. u.pc = "act" => u.prepare \subseteq Id
      BY DEF Types, Act, Gates, Idle
    <2> QED
      BY <2>1, <1>2, <1>7 DEF ToPrepare
  <1>22. ToDelete'
    <2>1. \A c \in Claim, v \in ClaimRec : claim'[c] = v /\ v.vol # None /\ Past(v, c) => claim[c] = v
      <3> SUFFICES ASSUME NEW c \in Claim, NEW v \in ClaimRec, claim'[c] = v, v.vol # None, Past(v, c),
                          claim[c] # v
                   PROVE  FALSE
        BY Zenon
      <3>1. New(c)
        BY <1>8
      <3>2. At(c, v.uid) \in hit
        BY DEF Past
      <3>3. v.uid = claim[c].uid
        BY <1>5
      <3> QED
        BY <3>1, <3>2, <3>3, <1>4, <1>6
    <2>2. \A p \in Id : (u.pc = "act" /\ p \in u.prepare) \/ (pv[p] # NoPV /\ pv[p].flight # None)
                        => p \in u'.prepare \/ (pv'[p] # NoPV /\ pv'[p].flight # None)
      BY <1>2, <1>7
    <2> QED
      BY <2>1, <2>2, <1>2, <1>18, StillToDelete
  <1> QED
    BY <1>3, <1>10, <1>12, <1>14, <1>15, <1>17, <1>19, <1>20, <1>21, <1>22 DEF Owned

-----------------------------------------------------------------------------
(* A claim that is being deleted is bound, and its volume is retained.       *)
LEMMA DeletedFacts ==
    ASSUME Types, Owned, NEW c \in Claim, claim[c].del
    PROVE  /\ Exists(c) /\ claim[c].uid \in 1 .. MaxUid /\ ClaimId(c) = At(c, claim[c].uid)
           /\ ClaimId(c) \in Id /\ ClaimId(c) \in hit
           /\ pv[ClaimId(c)] # NoPV /\ pv[ClaimId(c)].retain
  <1>1. Exists(c)
    BY RecordFacts DEF Exists
  <1> QED
    BY <1>1, ExistingHasId DEF Owned, ClaimsAreOwn, DeletedIsHit

LEMMA LeftKeeps ==
    ASSUME UnbindInv, NEW c \in Claim, ClaimLeft(c)
    PROVE  UnbindInv'
  <1> USE DEF UnbindInv
  <1>1. pv' = pv /\ hit' = hit /\ u' = u /\ stale' = stale /\ flags' = flags
    BY DEF ClaimLeft
  <1>2. claim' = [claim EXCEPT ![c] = NoClaim] /\ claim[c].del
    BY DEF ClaimLeft
  <1>3. Types'
    BY <1>1, <1>2, RecordFacts DEF Types
  <1>4. /\ claim'[c] = NoClaim
        /\ \A d \in Claim : d # c => claim'[d] = claim[d]
    BY <1>2 DEF Types
  <1>5. \A d \in Claim : Exists(d)' => d # c /\ Exists(d) /\ claim'[d] = claim[d] /\ ClaimId(d)' = ClaimId(d)
    BY <1>4 DEF Exists, ClaimId
  <1>6. VolumesAreOwn'
    BY <1>1 DEF Owned, VolumesAreOwn
  <1>7. ClaimsAreOwn'
    BY <1>1, <1>5 DEF Owned, ClaimsAreOwn, Bound
  <1>8. DeletedIsHit'
    BY <1>1, <1>5 DEF Owned, DeletedIsHit
  <1>9. Youngest'
    BY <1>1, <1>5 DEF Owned, Youngest, Used
  <1>10. \A id \in hit : Open(id)' => Open(id)
    <2> SUFFICES ASSUME NEW id \in hit, Open(id)'
                 PROVE  Open(id)
      OBVIOUS
    <2>1. CASE Name(id) = c
      BY <2>1, <1>2 DEF Open
    <2>2. CASE Name(id) # c
      BY <2>2, <1>4, HitTyped DEF Open, Name
    <2> QED
      BY <2>1, <2>2
  <1>11. OpenIsMarked'
    BY <1>1, <1>10 DEF OpenIsMarked, Marked, At, Name
  <1>12. \A d \in Claim, v \in ClaimRec : Past(v, d) => Past(v, d)'
    <2> SUFFICES ASSUME NEW d \in Claim, NEW v \in ClaimRec, Past(v, d), v.vol # None
                 PROVE  Past(v, d)'
      BY DEF Past
    <2>1. CASE d = c
      <3>1. v.uid \in 1 .. MaxUid /\ At(c, v.uid) \in hit
        BY <2>1, <1>2, DeletedFacts DEF Past
      <3>2. claim'[c].uid = 0
        BY <1>4, RecordFacts
      <3> QED
        BY <2>1, <3>1, <3>2, <1>1 DEF Past, At
    <2>2. CASE d # c
      BY <2>2, <1>1, <1>4 DEF Past, At
    <2> QED
      BY <2>1, <2>2
  <1>13. StaleIsPast'
    BY <1>1, <1>12, StillPast
  <1>14. Alone' /\ OneUnbindAtATime'
    BY <1>1, <1>10, StillAlone
  <1>15. ToPrepare'
    BY <1>1 DEF ToPrepare
  <1>16. ToDelete'
    <2>1. \A d \in Claim, v \in ClaimRec : claim'[d] = v /\ v.vol # None /\ Past(v, d) => claim[d] = v
      BY <1>4, RecordFacts
    <2> QED
      BY <2>1, <1>1, <1>12, StillToDelete
  <1> QED
    BY <1>3, <1>6, <1>7, <1>8, <1>9, <1>11, <1>13, <1>14, <1>15, <1>16 DEF Owned

(* Steps that leave the claims, the volumes and the history alone.           *)
LEMMA OwnedRests ==
    ASSUME Owned, OpenIsMarked, OneUnbindAtATime, claim' = claim, pv' = pv, hit' = hit
    PROVE  Owned' /\ OpenIsMarked' /\ OneUnbindAtATime'
  <1>1. VolumesAreOwn'
    BY DEF Owned, VolumesAreOwn
  <1>2. ClaimsAreOwn'
    BY DEF Owned, ClaimsAreOwn, Exists, Bound, ClaimId
  <1>3. DeletedIsHit'
    BY DEF Owned, DeletedIsHit, Exists, ClaimId
  <1>4. Youngest'
    BY DEF Owned, Youngest, Exists, Used
  <1>5. OpenIsMarked'
    BY DEF OpenIsMarked, Open, Marked, Name, At
  <1>6. OneUnbindAtATime'
    <2>1. \A a : Unbinding(a)' => Unbinding(a)
      BY DEF Unbinding, Name
    <2> QED
      BY <2>1 DEF OneUnbindAtATime
  <1> QED
    BY <1>1, <1>2, <1>3, <1>4, <1>5, <1>6 DEF Owned

LEMMA PastRests ==
    ASSUME claim' = claim, hit' = hit
    PROVE  \A c \in Claim, v \in ClaimRec : Past(v, c) => Past(v, c)'
  BY DEF Past, At

LEMMA RestKeeps ==
    ASSUME UnbindInv, Rests \/ Ends
    PROVE  UnbindInv'
  <1> USE DEF UnbindInv
  <1>1. UNCHANGED <<flags, claim, pv, stale, hit>> /\ (u' = u \/ u' = Idle)
    BY DEF Rests, Ends
  <1>2. Types'
    BY <1>1 DEF Types
  <1>3. Owned' /\ OpenIsMarked' /\ OneUnbindAtATime'
    BY <1>1, OwnedRests
  <1>4. StaleIsPast'
    BY <1>1, PastRests, StillPast
  <1>5. CASE u' = u
    <2>1. Alone' /\ ToPrepare'
      BY <1>1, <1>5 DEF Alone, ToPrepare, Unbinding, Name
    <2>2. ToDelete'
      BY <1>1, <1>5 DEF ToDelete, Past, At
    <2> QED
      BY <2>1, <2>2, <1>2, <1>3, <1>4
  <1>6. CASE u' = Idle
    <2>1. u'.pc = "idle"
      BY <1>6 DEF Idle
    <2>2. Alone' /\ ToPrepare' /\ ToDelete'
      BY <2>1 DEF Alone, ToPrepare, ToDelete
    <2> QED
      BY <2>2, <1>2, <1>3, <1>4
  <1> QED
    BY <1>1, <1>5, <1>6

(* An informer falls behind, or all of them catch up.                        *)
LEMMA ViewKeeps ==
    ASSUME UnbindInv, ViewChanged
    PROVE  UnbindInv'
  <1> USE DEF UnbindInv
  <1>1. UNCHANGED <<flags, claim, pv, u, hit>>
    BY DEF ViewChanged
  <1>2. Types'
    BY <1>1 DEF Types
  <1>3. Owned' /\ OpenIsMarked' /\ OneUnbindAtATime'
    BY <1>1, OwnedRests
  <1>4. StaleIsPast'
    <2>1. \A s \in stale' : \/ s \in stale
                            \/ s.of = "claim" /\ s.was = claim
                            \/ s.of = "pv" /\ s.was = pv
      BY DEF ViewChanged
    <2>2. StaleClaims'
      <3> SUFFICES ASSUME NEW s \in stale', s.of = "claim"
                   PROVE  s.was \in [Claim -> ClaimRec] /\ \A c \in Claim : Past(s.was[c], c)'
        BY DEF StaleClaims
      <3>1. CASE s \in stale
        BY <3>1, <1>1, PastRests DEF StaleIsPast, StaleClaims
      <3>2. CASE s.was = claim
        BY <3>2, <1>1 DEF Past, Types
      <3> QED
        BY <2>1, <3>1, <3>2
    <2>3. StaleVolumes'
      <3>1. \A p \in Id : pv[p] # NoPV => pv[p].ref = p /\ (pv[p].flight # None => pv[p].retain)
        BY DEF Owned, VolumesAreOwn
      <3> QED
        BY <2>1, <3>1, <1>1 DEF StaleIsPast, StaleVolumes, Types
    <2> QED
      BY <2>2, <2>3 DEF StaleIsPast
  <1>5. Alone' /\ ToPrepare'
    BY <1>1 DEF Alone, ToPrepare, Unbinding, Name
  <1>6. ToDelete'
    BY <1>1 DEF ToDelete, Past, At
  <1> QED
    BY <1>2, <1>3, <1>4, <1>5, <1>6

-----------------------------------------------------------------------------
(* Gate 0 does not miss an unbind under way, nor clear its mark: a claim     *)
(* that is new and bound is younger than every deletion of its name.         *)
LEMMA OpenIsUnsettled ==
    ASSUME Types, Owned, NEW id \in hit, Open(id),
           NEW i \in 1 .. MaxUid, At(Name(id), i) \in hit, pv[At(Name(id), i)] # NoPV,
           pv[At(Name(id), i)].flight # None
    PROVE  ~InFlightClaimSettled(At(Name(id), i)) /\ pv[At(Name(id), i)].flight = At(Name(id), i)
  <1>1. PICK c \in Claim : c = Name(id)
    BY HitTyped
  <1> DEFINE p == At(c, i)
  <1>2. p \in Id /\ Name(p) = c /\ p[3] = i /\ id[3] \in 1 .. MaxUid /\ id = At(c, id[3])
    BY <1>1, IdFacts, HitTyped
  <1>3. pv[p].flight = p
    BY <1>1, <1>2 DEF Owned, VolumesAreOwn
  <1>4. ASSUME claim[c] # NoClaim, ~claim[c].del, claim[c].uid = i \/ claim[c].vol # None
        PROVE  FALSE
    <2>1. Exists(c) /\ claim[c].uid \in 1 .. MaxUid /\ ClaimId(c) = At(c, claim[c].uid)
      BY <1>4, ExistingHasId DEF Exists
    <2>2. At(c, claim[c].uid) \notin hit
      BY <2>1, <1>4 DEF Owned, DeletedIsHit
    <2>3. claim[c].vol # None
      BY <2>2, <1>1, <1>4
    <2>4. claim[c].uid <= id[3]
      BY <2>3, <1>1, <1>4 DEF Open
    <2>5. id[3] <= claim[c].uid
      BY <2>1, <1>2 DEF Owned, Youngest, Used, At
    <2>6. claim[c].uid = id[3]
      BY <2>1, <2>4, <2>5, <1>2
    <2> QED
      BY <2>2, <2>6, <1>2
  <1>5. ~InFlightClaimSettled(p)
    BY <1>2, <1>3, <1>4 DEF InFlightClaimSettled
  <1> QED
    BY <1>1, <1>3, <1>5

(* What the scan leaves of a volume.                                         *)
LEMMA ClearedFacts ==
    ASSUME NEW p, pv[p] \in PVRec
    PROVE  /\ Cleared(p).ref = pv[p].ref /\ Cleared(p).retain = pv[p].retain
           /\ Cleared(p).flight \in {None, pv[p].flight}
           /\ ~InFlightClaimSettled(p) => Cleared(p).flight = pv[p].flight
  BY DEF Cleared, PVRec

LEMMA ScanKeeps ==
    ASSUME UnbindInv, MarksCleared
    PROVE  UnbindInv'
  <1> USE DEF UnbindInv
  <1>1. UNCHANGED <<flags, claim, stale, hit>> /\ u = Idle
    BY DEF MarksCleared
  <1>2. Types'
    BY <1>1 DEF MarksCleared, Types
  <1>3. \A p \in Id : /\ pv'[p] = NoPV <=> pv[p] = NoPV
                      /\ pv[p] # NoPV =>
                            /\ pv'[p].ref = pv[p].ref /\ pv'[p].retain = pv[p].retain
                            /\ pv'[p].flight \in {None, pv[p].flight}
                            /\ ~InFlightClaimSettled(p) => pv'[p].flight = pv[p].flight
    <2> SUFFICES ASSUME NEW p \in Id
                 PROVE  /\ pv'[p] = NoPV <=> pv[p] = NoPV
                        /\ pv[p] # NoPV =>
                              /\ pv'[p].ref = pv[p].ref /\ pv'[p].retain = pv[p].retain
                              /\ pv'[p].flight \in {None, pv[p].flight}
                              /\ ~InFlightClaimSettled(p) => pv'[p].flight = pv[p].flight
      OBVIOUS
    <2>1. CASE pv'[p] = pv[p]
      BY <2>1
    <2>2. CASE pv[p] # NoPV /\ pv'[p] = Cleared(p)
      <3>1. pv[p] \in PVRec
        BY <2>2 DEF Types
      <3>2. DOMAIN Cleared(p) = DOMAIN pv[p]
        BY <3>1 DEF Cleared
      <3>3. "ref" \in DOMAIN pv[p] /\ "ref" \notin DOMAIN NoPV
        BY <3>1 DEF PVRec, NoPV
      <3>4. Cleared(p) # NoPV
        BY <3>2, <3>3
      <3> QED
        BY <3>1, <3>4, <2>2, ClearedFacts
    <2> QED
      BY <2>1, <2>2 DEF MarksCleared
  <1>4. \A c \in Claim : /\ ClaimId(c)' = ClaimId(c) /\ (Exists(c)' <=> Exists(c))
                         /\ (Bound(c)' <=> Bound(c)) /\ (Exists(c) => ClaimId(c) \in Id)
    BY <1>1, ExistingHasId DEF ClaimId, Exists, Bound
  <1>5. VolumesAreOwn'
    BY <1>3 DEF Owned, VolumesAreOwn
  <1>6. ClaimsAreOwn'
    BY <1>1, <1>3, <1>4 DEF Owned, ClaimsAreOwn
  <1>7. DeletedIsHit'
    <2> SUFFICES ASSUME NEW c \in Claim, Exists(c)
                 PROVE  /\ claim[c].del <=> ClaimId(c) \in hit
                        /\ claim[c].del => pv'[ClaimId(c)].retain
      BY <1>1, <1>4 DEF DeletedIsHit
    <2>1. claim[c].del => pv[ClaimId(c)].retain /\ pv[ClaimId(c)] # NoPV
      BY DeletedFacts
    <2> QED
      BY <2>1, <1>3, <1>4 DEF Owned, DeletedIsHit
  <1>8. Youngest'
    <2>1. \A c \in Claim, i \in 1 .. MaxUid : Used(c, i)' => Used(c, i)
      BY <1>1, <1>3, IdFacts DEF Used, At
    <2> QED
      BY <2>1, <1>1, <1>4 DEF Owned, Youngest
  <1>9. OpenIsMarked'
    <2> SUFFICES ASSUME NEW id \in hit, Open(id)
                 PROVE  Marked(Name(id))'
      BY <1>1 DEF OpenIsMarked, Open, Name
    <2>1. PICK i \in 1 .. MaxUid : /\ At(Name(id), i) \in hit /\ pv[At(Name(id), i)] # NoPV
                                   /\ pv[At(Name(id), i)].flight # None
      BY DEF Marked, OpenIsMarked
    <2>2. ~InFlightClaimSettled(At(Name(id), i)) /\ At(Name(id), i) \in Id
      BY <2>1, OpenIsUnsettled, HitTyped, IdFacts
    <2>3. pv'[At(Name(id), i)] # NoPV /\ pv'[At(Name(id), i)].flight # None
      BY <2>1, <2>2, <1>3
    <2> QED
      BY <2>1, <2>3, <1>1 DEF Marked, At, Name
  <1>10. StaleIsPast'
    BY <1>1, <1>3, PastRests, StillPast
  <1>11. OneUnbindAtATime'
    <2>1. \A a : Unbinding(a)' => Unbinding(a)
      BY <1>1 DEF Unbinding, Name
    <2> QED
      BY <2>1 DEF OneUnbindAtATime
  <1>12. ToPrepare' /\ ToDelete'
    <2>1. u'.pc # "act"
      BY <1>1 DEF MarksCleared, Gates, Idle
    <2> QED
      BY <2>1 DEF ToPrepare, ToDelete
  <1>13. Alone'
    <2>1. CASE u' = u
      BY <2>1, <1>1 DEF Alone, Idle
    <2>2. CASE \E b \in Broker : ~UnbindInFlight(b) /\ u' \in Gates /\ u'.b = b
      <3>1. PICK b \in Broker : ~UnbindInFlight(b) /\ u'.b = b
        BY <2>2
      <3> SUFFICES ASSUME NEW a \in Broker, a # b, Unbinding(a)
                   PROVE  FALSE
        BY <3>1, <1>1 DEF Alone, Unbinding, Name
      <3>2. PICK id \in hit : id[1] = a /\ Open(id)
        BY DEF Unbinding, Open
      <3>3. PICK i \in 1 .. MaxUid : /\ At(Name(id), i) \in hit /\ pv[At(Name(id), i)] # NoPV
                                     /\ pv[At(Name(id), i)].flight # None
        BY <3>2 DEF Marked, OpenIsMarked
      <3>4. /\ ~InFlightClaimSettled(At(Name(id), i))
            /\ pv[At(Name(id), i)].flight = At(Name(id), i)
        BY <3>2, <3>3, OpenIsUnsettled
      <3>5. At(Name(id), i) \in Id /\ At(Name(id), i)[1] = a
        BY <3>2, HitTyped, IdFacts
      <3>6. UnbindInFlight(b)
        BY <3>3, <3>4, <3>5 DEF UnbindInFlight, PVs, InFlightClaimOwnedBy
      <3> QED
        BY <3>1, <3>6
    <2> QED
      BY <2>1, <2>2 DEF MarksCleared
  <1> QED
    BY <1>2, <1>5, <1>6, <1>7, <1>8, <1>9, <1>10, <1>11, <1>12, <1>13 DEF Owned

-----------------------------------------------------------------------------
(* Volumes and claims are seen as they are or were.                          *)
LEMMA PVViewFacts ==
    ASSUME Types, StaleIsPast, VolumesAreOwn
    PROVE  /\ PVView \in [Id -> {NoPV} \cup PVRec]
           /\ \A p \in Id : PVView[p] # NoPV =>
                 /\ pv[p] # NoPV /\ PVView[p] \in PVRec /\ PVView[p].ref = p
                 /\ PVView[p].flight # None => PVView[p].retain
  <1>1. CASE \E s \in stale : s.of = "pv"
    <2>1. PICK s \in stale : s.of = "pv" /\ s = CHOOSE t \in stale : t.of = "pv"
      BY <1>1
    <2>2. PVView = s.was
      BY <2>1, <1>1 DEF PVView, View
    <2> QED
      BY <2>1, <2>2 DEF StaleIsPast, StaleVolumes
  <1>2. CASE ~\E s \in stale : s.of = "pv"
    <2>1. PVView = pv
      BY <1>2 DEF PVView, View
    <2> QED
      BY <2>1 DEF Types, VolumesAreOwn
  <1> QED
    BY <1>1, <1>2

LEMMA ViewFacts ==
    ASSUME Types, StaleIsPast
    PROVE  /\ ClaimView \in [Claim -> ClaimRec]
           /\ \A c \in Claim : Past(ClaimView[c], c)
  <1>2. CASE \E s \in stale : s.of = "claim"
    <2>1. PICK s \in stale : s.of = "claim" /\ s = CHOOSE t \in stale : t.of = "claim"
      BY <1>2
    <2>2. ClaimView = s.was
      BY <2>1, <1>2 DEF ClaimView, View
    <2>3. s.was \in [Claim -> ClaimRec] /\ \A c \in Claim : Past(s.was[c], c)
      BY <2>1 DEF StaleIsPast, StaleClaims
    <2> QED
      BY <2>2, <2>3
  <1>3. CASE ~\E s \in stale : s.of = "claim"
    <2>1. ClaimView = claim
      BY <1>3 DEF ClaimView, View
    <2> QED
      BY <2>1 DEF Types, Past
  <1> QED
    BY <1>2, <1>3

LEMMA PlanKeeps ==
    ASSUME UnbindInv, ~flags.rebind, Planned
    PROVE  UnbindInv'
  <1> USE DEF UnbindInv
  <1>1. UNCHANGED <<flags, claim, pv, stale, hit>>
    BY DEF Planned
  <1>2. PICK b \in Broker : b = u.b /\ u.pc = "gates" /\ u' = Plan(b)
    BY DEF Planned, Types, Gates, Act, Idle
  <1>3. /\ u'.pc = "act" /\ u'.b = b /\ u'.claims = [k \in Kind |-> ClaimView[<<b, k>>]]
        /\ u'.vols = [p \in Volumes(b) |-> PVView[p]] /\ u'.prepare = Volumes(b)
        /\ u'.delete = {k \in Kind : u'.claims[k].vol # None}
    BY <1>2 DEF Plan
  <1>a. /\ PVView \in [Id -> {NoPV} \cup PVRec]
        /\ \A p \in Id : PVView[p] # NoPV =>
              /\ pv[p] # NoPV /\ PVView[p] \in PVRec /\ PVView[p].ref = p
              /\ PVView[p].flight # None => PVView[p].retain
    BY PVViewFacts DEF Owned
  <1>4. Volumes(b) = {p \in Id : PVView[p] # NoPV /\ \E k \in Kind : Name(p) = <<b, k>>}
    <2>1. \A p \in Id, c \in Claim : Refers(p, c) <=> PVView[p] # NoPV /\ Name(p) = c
      <3> SUFFICES ASSUME NEW p \in Id, NEW c \in Claim
                   PROVE  Refers(p, c) <=> PVView[p] # NoPV /\ Name(p) = c
        OBVIOUS
      <3>1. PVView[p] # NoPV => PVView[p].ref = p /\ p # None
        BY <1>a, RecordFacts
      <3> QED
        BY <3>1 DEF Refers
    <2>2. \A k \in Kind : <<b, k>> \in Claim
      BY IdFacts
    <2>3. \A p \in Id : (\E k \in Kind : Refers(p, <<b, k>>))
                        <=> PVView[p] # NoPV /\ \E k \in Kind : Name(p) = <<b, k>>
      BY <2>1, <2>2, Zenon
    <2> QED
      BY <2>3, Zenon DEF Volumes
  <1>b. \A p \in Id : pv[p] # NoPV /\ p[1] = b =>
            PVView[p] # NoPV /\ (PVView[p].flight # None => pv[p].flight # None)
    BY <1>2 DEF Planned, ListsOwnVolumes, PVs
  <1>c. \A p \in Volumes(b) : p \in Id /\ p[1] = b
    BY <1>4, IdFacts
  <1>5. Types'
    <2>1. u'.claims \in [Kind -> ClaimRec]
      BY <1>3, ViewFacts, IdFacts
    <2>2. u'.vols \in [Volumes(b) -> PVRec]
      BY <1>3, <1>4, <1>a
    <2>3. Volumes(b) \in SUBSET Id
      BY <1>4
    <2>4. u'.vols \in Reading
      BY <2>2, <2>3 DEF Reading
    <2>5. Plan(b) \in Act
      <3> DEFINE claims == [k \in Kind |-> ClaimView[<<b, k>>]]
                 vols == [p \in Volumes(b) |-> PVView[p]]
                 bound == {k \in Kind : claims[k].vol # None}
                 missing == bound # {} \/ \E k \in Kind : claims[k] = NoClaim
      <3>1. Plan(b) = [pc |-> "act", b |-> b, claims |-> claims, vols |-> vols,
                       prepare |-> Volumes(b), delete |-> bound, recycle |-> {}, missing |-> missing]
        BY DEF Plan
      <3>2. claims \in [Kind -> ClaimRec] /\ vols \in Reading
        BY <2>1, <2>4, <1>3
      <3>3. bound \in SUBSET Kind /\ missing \in BOOLEAN
        OBVIOUS
      <3> HIDE DEF claims, vols, bound, missing
      <3> QED
        BY <3>1, <3>2, <3>3, <2>3 DEF Act
    <2> QED
      BY <2>5, <1>1, <1>2 DEF Types
  <1>6. Owned' /\ OpenIsMarked' /\ OneUnbindAtATime'
    BY <1>1, OwnedRests
  <1>7. StaleIsPast'
    BY <1>1, PastRests, StillPast
  <1>8. Alone'
    BY <1>1, <1>2, <1>3 DEF Alone, Unbinding, Name
  <1>9. ToPrepare'
    <2>1. \A p \in Volumes(b) : PVView[p] # NoPV /\ p \in Id /\ p[1] = b
      BY <1>4, <1>c
    <2>2. \A p \in Volumes(b) :
              /\ pv[p] # NoPV /\ PVView[p] \in PVRec /\ PVView[p].ref = p
              /\ PVView[p].flight # None => PVView[p].retain /\ pv[p].flight # None
      BY <2>1, <1>a, <1>b
    <2>3. \A p \in Volumes(b) : u'.vols[p] = PVView[p]
      BY <1>3
    <2>4. \A p \in u'.prepare :
              /\ pv'[p] # NoPV /\ u'.vols[p] \in PVRec /\ u'.vols[p].ref = p
              /\ u'.vols[p].flight # None => u'.vols[p].retain /\ pv'[p].flight # None
      BY <2>2, <2>3, <1>1, <1>3
    <2> QED
      BY <2>4 DEF ToPrepare
  <1>10. ToDelete'
    <2> SUFFICES ASSUME NEW k \in u'.delete
                 PROVE  LET c == <<u'.b, k>>
                            v == u'.claims[k]
                        IN  /\ v.vol # None
                            /\ v.vol # None => \/ v = claim'[c]
                                               \/ /\ v.uid \in 1 .. MaxUid /\ At(c, v.uid) \in hit'
                                                  /\ v.del => claim'[c].uid # v.uid
                            /\ claim'[c] = v => v.vol \in u'.prepare \/ (pv'[v.vol] # NoPV /\ pv'[v.vol].flight # None)
      BY <1>3 DEF ToDelete, Past, At
    <2>1. k \in Kind /\ u'.claims[k].vol # None
      BY <1>3
    <2>2. PICK c \in Claim : c = <<b, k>>
      BY <2>1, IdFacts
    <2>3. PICK v \in ClaimRec : v = ClaimView[c]
      BY ViewFacts
    <2>4. u'.claims[k] = v /\ <<u'.b, k>> = c
      BY <2>1, <2>2, <2>3, <1>3
    <2>5. v.vol # None /\ Past(v, c)
      BY <2>1, <2>3, <2>4, ViewFacts
    <2>6. claim[c] = v => v.vol \in Volumes(b)
      <3>1. SUFFICES ASSUME claim[c] = v
                     PROVE  v.vol \in Volumes(b)
        OBVIOUS
      <3>2. Exists(c) /\ Bound(c)
        BY <3>1, <2>5, RecordFacts DEF Exists, Bound
      <3>3. v.vol = ClaimId(c) /\ pv[ClaimId(c)] # NoPV /\ ClaimId(c) \in Id /\ Name(ClaimId(c)) = c
        BY <3>1, <3>2, ExistingHasId DEF Owned, ClaimsAreOwn
      <3> QED
        BY <3>3, <2>1, <2>2, <1>4, <1>b, IdFacts
    <2>7. \/ v = claim'[c]
          \/ /\ v.uid \in 1 .. MaxUid /\ At(c, v.uid) \in hit'
             /\ v.del => claim'[c].uid # v.uid
      BY <2>5, <1>1 DEF Past
    <2>8. claim'[c] = v => v.vol \in u'.prepare
      BY <2>6, <1>1, <1>3
    <2> QED
      BY <2>4, <2>5, <2>7, <2>8
  <1> QED
    BY <1>5, <1>6, <1>7, <1>8, <1>9, <1>10

-----------------------------------------------------------------------------
(* A volume is marked with the claim it refers to, and retained.             *)
LEMMA PreparedFacts ==
    ASSUME NEW r \in PVRec, r.ref # None
    PROVE  /\ Prepared(r) \in PVRec /\ Prepared(r).ref = r.ref /\ Prepared(r).retain
           /\ Prepared(r).flight # None /\ Prepared(r).flight \in {r.ref, r.flight}
  BY DEF Prepared, PVRec

LEMMA PrepareKeeps ==
    ASSUME UnbindInv, NEW p, VolumePrepared(p)
    PROVE  UnbindInv'
  <1> USE DEF UnbindInv
  <1>1. UNCHANGED <<flags, claim, stale, hit>>
    BY DEF VolumePrepared
  <1>2. u \in Act /\ p \in u.prepare /\ u' = [u EXCEPT !.prepare = @ \ {p}]
    BY DEF VolumePrepared, Types, Gates, Idle
  <1>3. /\ u' \in Act /\ u'.pc = "act" /\ u'.b = u.b /\ u'.claims = u.claims /\ u'.vols = u.vols
        /\ u'.delete = u.delete /\ u'.prepare = u.prepare \ {p}
    BY <1>2 DEF Act
  <1>4. p \in Id /\ pv[p] \in PVRec /\ pv[p].ref = p /\ p # None /\ pv[p] # NoPV
    <2>1. p \in Id
      BY <1>2 DEF Act
    <2>2. pv[p] # NoPV
      BY <1>2 DEF ToPrepare, Act
    <2> QED
      BY <2>1, <2>2, RecordFacts DEF Types, Owned, VolumesAreOwn
  <1>5. pv' = [pv EXCEPT ![p] = Prepared(pv[p])]
    BY DEF VolumePrepared
  <1>6. /\ pv'[p] \in PVRec /\ pv'[p].ref = p /\ pv'[p].retain
        /\ pv'[p].flight # None /\ pv'[p].flight \in {p, pv[p].flight}
    <2>1. pv'[p] = Prepared(pv[p])
      BY <1>4, <1>5 DEF Types
    <2> QED
      BY <2>1, <1>4, PreparedFacts
  <1>7. \A q \in Id : q # p => pv'[q] = pv[q]
    BY <1>4, <1>5 DEF Types
  <1>8. Types'
    <2>1. pv' \in [Id -> {NoPV} \cup PVRec]
      BY <1>4, <1>5, PreparedFacts DEF Types
    <2> QED
      BY <2>1, <1>1, <1>3 DEF Types
  <1>9. \A q \in Id : /\ pv'[q] = NoPV <=> pv[q] = NoPV
                      /\ pv[q] # NoPV =>
                            /\ pv[q].retain => pv'[q].retain
                            /\ pv[q].flight # None => pv'[q].flight # None
    BY <1>4, <1>6, <1>7, RecordFacts
  <1>10. \A c \in Claim : /\ ClaimId(c)' = ClaimId(c) /\ (Exists(c)' <=> Exists(c))
                          /\ (Bound(c)' <=> Bound(c)) /\ (Exists(c) => ClaimId(c) \in Id)
    BY <1>1, ExistingHasId DEF ClaimId, Exists, Bound
  <1>11. VolumesAreOwn'
    BY <1>4, <1>6, <1>7 DEF Owned, VolumesAreOwn
  <1>12. ClaimsAreOwn'
    BY <1>1, <1>9, <1>10 DEF Owned, ClaimsAreOwn
  <1>13. DeletedIsHit'
    <2> SUFFICES ASSUME NEW c \in Claim, Exists(c)
                 PROVE  /\ claim[c].del <=> ClaimId(c) \in hit
                        /\ claim[c].del => pv'[ClaimId(c)].retain
      BY <1>1, <1>10 DEF DeletedIsHit
    <2>1. claim[c].del => pv[ClaimId(c)].retain /\ pv[ClaimId(c)] # NoPV
      BY DeletedFacts
    <2> QED
      BY <2>1, <1>9, <1>10 DEF Owned, DeletedIsHit
  <1>14. Youngest'
    <2>1. \A c \in Claim, i \in 1 .. MaxUid : Used(c, i)' => Used(c, i)
      BY <1>1, <1>9, IdFacts DEF Used, At
    <2> QED
      BY <2>1, <1>1, <1>10 DEF Owned, Youngest
  <1>15. OpenIsMarked'
    <2> SUFFICES ASSUME NEW id \in hit, Open(id)
                 PROVE  Marked(Name(id))'
      BY <1>1 DEF OpenIsMarked, Open, Name
    <2>1. PICK i \in 1 .. MaxUid : /\ At(Name(id), i) \in hit /\ pv[At(Name(id), i)] # NoPV
                                   /\ pv[At(Name(id), i)].flight # None
      BY DEF Marked, OpenIsMarked
    <2>2. pv'[At(Name(id), i)] # NoPV /\ pv'[At(Name(id), i)].flight # None
      BY <2>1, <1>9, HitTyped, IdFacts
    <2> QED
      BY <2>1, <2>2, <1>1 DEF Marked, At, Name
  <1>16. StaleIsPast'
    BY <1>1, <1>9, PastRests, StillPast
  <1>17. Alone' /\ OneUnbindAtATime'
    <2>1. \A a : Unbinding(a)' => Unbinding(a)
      BY <1>1 DEF Unbinding, Name
    <2>2. u.pc = "act"
      BY <1>2 DEF Act
    <2> QED
      BY <2>1, <2>2, <1>3 DEF Alone, OneUnbindAtATime
  <1>18. ToPrepare'
    <2>1. u.prepare \subseteq Id /\ u.pc = "act"
      BY <1>2 DEF Act
    <2> QED
      BY <2>1, <1>3, <1>7 DEF ToPrepare
  <1>19. ToDelete'
    <2>1. u.pc = "act"
      BY <1>2 DEF Act
    <2>2. \A q \in Id : (u.pc = "act" /\ q \in u.prepare) \/ (pv[q] # NoPV /\ pv[q].flight # None)
                        => q \in u'.prepare \/ (pv'[q] # NoPV /\ pv'[q].flight # None)
      BY <1>3, <1>4, <1>6, <1>9
    <2>3. \A c \in Claim, v \in ClaimRec : claim'[c] = v /\ v.vol # None /\ Past(v, c) => claim[c] = v
      BY <1>1
    <2> QED
      BY <2>1, <2>2, <2>3, <1>1, <1>3, PastRests, StillToDelete
  <1> QED
    BY <1>8, <1>11, <1>12, <1>13, <1>14, <1>15, <1>16, <1>17, <1>18, <1>19 DEF Owned

(* A claim that is deleted is the one that was read, and its volume is       *)
(* marked and retained.                                                      *)
LEMMA DeleteKeeps ==
    ASSUME UnbindInv, NEW k, ClaimDeleted(k)
    PROVE  UnbindInv'
  <1> USE DEF UnbindInv
  <1>1. UNCHANGED <<flags, pv, stale>>
    BY DEF ClaimDeleted
  <1>2. u \in Act /\ u.pc = "act" /\ k \in u.delete /\ k \in Kind /\ u.prepare = {}
    BY DEF ClaimDeleted, Types, Gates, Idle, Act
  <1>3. PICK c \in Claim : c = <<u.b, k>>
    BY <1>2, IdFacts DEF Act
  <1>4. /\ claim[c] = u.claims[k] /\ claim' = [claim EXCEPT ![c].del = TRUE]
        /\ hit' = hit \cup {ClaimId(c)} /\ u' = [u EXCEPT !.delete = @ \ {k}]
    BY <1>3 DEF ClaimDeleted
  <1>5. /\ u' \in Act /\ u'.pc = "act" /\ u'.b = u.b /\ u'.claims = u.claims /\ u'.vols = u.vols
        /\ u'.prepare = {} /\ u'.delete = u.delete \ {k}
    BY <1>2, <1>4 DEF Act
  <1>6. Bound(c) /\ pv[claim[c].vol] # NoPV /\ pv[claim[c].vol].flight # None
    BY <1>2, <1>3, <1>4 DEF ToDelete, Bound
  <1>7. /\ Exists(c) /\ claim[c].uid \in 1 .. MaxUid /\ ClaimId(c) = At(c, claim[c].uid)
        /\ ClaimId(c) \in Id /\ claim[c].vol = ClaimId(c)
    <2>1. Exists(c)
      BY <1>6, RecordFacts DEF Exists, Bound
    <2> QED
      BY <2>1, <1>6, ExistingHasId DEF Owned, ClaimsAreOwn
  <1>8. pv[ClaimId(c)] # NoPV /\ pv[ClaimId(c)].flight # None /\ pv[ClaimId(c)].retain
    BY <1>6, <1>7 DEF Owned, VolumesAreOwn
  <1>9. /\ claim'[c].del /\ claim'[c].uid = claim[c].uid /\ claim'[c].vol = claim[c].vol
        /\ claim' \in [Claim -> ClaimRec]
        /\ \A d \in Claim : d # c => claim'[d] = claim[d]
        /\ claim[c].del => claim'[c] = claim[c]
    BY <1>4, ClaimTyped DEF Types, ClaimRec
  <1>10. Types'
    BY <1>1, <1>4, <1>5, <1>7, <1>9 DEF Types
  <1>11. \A d \in Claim : /\ ClaimId(d)' = ClaimId(d)
                          /\ Exists(d)' => Exists(d)
                          /\ Bound(d)' <=> Bound(d)
                          /\ claim'[d].uid = claim[d].uid /\ claim'[d].vol = claim[d].vol
    BY <1>7, <1>9 DEF ClaimId, Exists, Bound
  <1>12. VolumesAreOwn'
    BY <1>1 DEF Owned, VolumesAreOwn
  <1>13. ClaimsAreOwn'
    <2> SUFFICES ASSUME NEW d \in Claim, Exists(d)'
                 PROVE  /\ claim'[d].uid # 0
                        /\ Bound(d)' => claim'[d].vol = ClaimId(d)' /\ pv'[ClaimId(d)'] # NoPV
                        /\ ~Bound(d)' => pv'[ClaimId(d)'] = NoPV /\ ~claim'[d].del
      BY DEF ClaimsAreOwn
    <2>1. ~Bound(d) => claim'[d] = claim[d]
      BY <1>6, <1>9
    <2> QED
      BY <2>1, <1>1, <1>11 DEF Owned, ClaimsAreOwn
  <1>14. DeletedIsHit'
    <2> SUFFICES ASSUME NEW d \in Claim, Exists(d)'
                 PROVE  /\ claim'[d].del <=> ClaimId(d) \in hit'
                        /\ claim'[d].del => pv[ClaimId(d)].retain
      BY <1>1, <1>11 DEF DeletedIsHit
    <2>1. CASE d = c
      BY <2>1, <1>4, <1>8, <1>9
    <2>2. CASE d # c
      <3>1. Exists(d) /\ claim'[d] = claim[d] /\ ClaimId(d) # ClaimId(c)
        BY <2>2, <1>7, <1>9, <1>11, ExistingHasId
      <3> QED
        BY <3>1, <1>4 DEF Owned, DeletedIsHit
    <2> QED
      BY <2>1, <2>2
  <1>15. Youngest'
    <2> SUFFICES ASSUME NEW d \in Claim, Exists(d)', NEW i \in 1 .. MaxUid, Used(d, i)'
                 PROVE  i <= claim'[d].uid
      BY DEF Youngest
    <2>0. Exists(d) /\ claim'[d].uid = claim[d].uid /\ claim[d].uid \in 1 .. MaxUid
      BY <1>11, ExistingHasId
    <2>1. CASE Used(d, i)
      BY <2>0, <2>1 DEF Owned, Youngest
    <2>2. CASE ~Used(d, i)
      <3>1. At(d, i) = At(c, claim[c].uid)
        BY <2>2, <1>1, <1>4, <1>7 DEF Used, At
      <3>2. d = c /\ i = claim[c].uid
        BY <3>1, <1>7, IdsDiffer
      <3> QED
        BY <3>2, <2>0
    <2> QED
      BY <2>1, <2>2
  <1>16. \A id \in hit : Name(id) # c => (Open(id)' => Open(id))
    BY <1>9, HitTyped DEF Open, Name
  <1>17. Name(ClaimId(c)) = c /\ c[1] = u.b /\ ClaimId(c) \in hit'
    BY <1>2, <1>3, <1>4, <1>7, IdFacts, ExistingHasId DEF Act
  <1>18. OpenIsMarked'
    <2> SUFFICES ASSUME NEW id \in hit', Open(id)'
                 PROVE  Marked(Name(id))'
      BY DEF OpenIsMarked
    <2>1. CASE Name(id) = c
      <3>1. /\ At(c, claim[c].uid) \in hit' /\ pv'[At(c, claim[c].uid)] # NoPV
            /\ pv'[At(c, claim[c].uid)].flight # None
        BY <1>1, <1>7, <1>8, <1>17
      <3>2. PICK i \in 1 .. MaxUid : /\ At(c, i) \in hit' /\ pv'[At(c, i)] # NoPV
                                     /\ pv'[At(c, i)].flight # None
        BY <3>1, <1>7
      <3> QED
        BY <2>1, <3>2 DEF Marked, At, Name
    <2>2. CASE Name(id) # c
      <3>1. id \in hit
        BY <2>2, <1>4, <1>17
      <3>2. Marked(Name(id))
        BY <3>1, <2>2, <1>16 DEF OpenIsMarked
      <3> QED
        BY <3>2, <1>1, <1>4 DEF Marked, At, Name
    <2> QED
      BY <2>1, <2>2
  <1>19. \A d \in Claim, v \in ClaimRec : Past(v, d) => Past(v, d)'
    <2> SUFFICES ASSUME NEW d \in Claim, NEW v \in ClaimRec, Past(v, d), v.vol # None
                 PROVE  \/ v = claim'[d]
                        \/ /\ v.uid \in 1 .. MaxUid /\ At(d, v.uid) \in hit'
                           /\ v.del => claim'[d].uid # v.uid
      BY DEF Past, At
    <2>1. CASE v = claim[d] /\ d = c
      BY <2>1, <1>7, <1>9, <1>17
    <2>2. CASE v = claim[d] /\ d # c
      BY <2>2, <1>9
    <2>3. CASE v # claim[d]
      BY <2>3, <1>4, <1>11 DEF Past
    <2> QED
      BY <2>1, <2>2, <2>3
  <1>20. StaleIsPast'
    BY <1>1, <1>19, StillPast
  <1>21. \A a \in Broker \ {u.b} : ~Unbinding(a)'
    <2> SUFFICES ASSUME NEW a \in Broker \ {u.b}, Unbinding(a)'
                 PROVE  FALSE
      OBVIOUS
    <2>1. PICK id \in hit' : id[1] = a /\ Open(id)'
      BY DEF Unbinding, Open
    <2>2. id # ClaimId(c) /\ id \in hit
      BY <2>1, <1>4, <1>7, <1>17, IdFacts
    <2>3. Name(id) # c
      BY <2>1, <2>2, <1>17, HitTyped, IdFacts
    <2>4. Unbinding(a)
      BY <2>1, <2>2, <2>3, <1>16 DEF Unbinding, Open
    <2> QED
      BY <2>4, <1>2 DEF Alone
  <1>22. Alone' /\ OneUnbindAtATime'
    BY <1>5, <1>21 DEF Alone, OneUnbindAtATime
  <1>23. ToPrepare'
    BY <1>5 DEF ToPrepare
  <1>24. ToDelete'
    <2> SUFFICES ASSUME NEW m \in u'.delete
                 PROVE  LET d == <<u'.b, m>>
                            v == u'.claims[m]
                        IN  /\ v.vol # None
                            /\ v.vol # None => \/ v = claim'[d]
                                               \/ /\ v.uid \in 1 .. MaxUid /\ At(d, v.uid) \in hit'
                                                  /\ v.del => claim'[d].uid # v.uid
                            /\ claim'[d] = v => v.vol \in u'.prepare \/ (pv'[v.vol] # NoPV /\ pv'[v.vol].flight # None)
      BY <1>5 DEF ToDelete, Past, At
    <2>1. m \in u.delete /\ m # k /\ m \in Kind
      BY <1>2, <1>5 DEF Act
    <2>2. PICK d \in Claim : d = <<u.b, m>>
      BY <2>1, <1>2, IdFacts DEF Act
    <2>3. PICK v \in ClaimRec : v = u.claims[m]
      BY <2>1, <1>2 DEF Act
    <2>4. d # c
      BY <2>1, <2>2, <1>3
    <2>5. /\ v.vol # None /\ Past(v, d)
          /\ claim[d] = v => pv[v.vol] # NoPV /\ pv[v.vol].flight # None
      BY <2>1, <2>2, <2>3, <1>2 DEF ToDelete
    <2>6. Past(v, d)'
      BY <2>5, <1>19
    <2>7. \/ v = claim'[d]
          \/ /\ v.uid \in 1 .. MaxUid /\ At(d, v.uid) \in hit'
             /\ v.del => claim'[d].uid # v.uid
      BY <2>5, <2>6 DEF Past, At
    <2>8. claim'[d] = v => pv'[v.vol] # NoPV /\ pv'[v.vol].flight # None
      BY <2>4, <2>5, <1>1, <1>9
    <2>9. <<u'.b, m>> = d /\ u'.claims[m] = v
      BY <2>2, <2>3, <1>5
    <2> QED
      BY <2>5, <2>7, <2>8, <2>9
  <1> QED
    BY <1>10, <1>12, <1>13, <1>14, <1>15, <1>18, <1>20, <1>22, <1>23, <1>24 DEF Owned

-----------------------------------------------------------------------------
Effect ==
    \/ Rests \/ Ends \/ ClaimsMade \/ DisksBound \/ (\E c \in Claim : ClaimLeft(c))
    \/ ViewChanged \/ MarksCleared \/ Planned
    \/ (\E p \in Id : VolumePrepared(p)) \/ (\E k \in Kind : ClaimDeleted(k))

LEMMA StsMakes ==
    ASSUME UnbindInv, NEW b \in Broker, StsCreatesPod(b) \/ StsRecreatesClaims(b)
    PROVE  ClaimsMade
  <1>1. UNCHANGED <<flags, pv, stale, u, hit>>
    BY DEF StsCreatesPod, StsRecreatesClaims
  <1>2. claim \in [Claim -> ClaimRec]
    BY DEF UnbindInv, Types
  <1>3. \A c \in Claim : NewUid(c) <= MaxUid => Fresh(c) \in ClaimRec
    BY NewIsYoungest, UnbinderAssumption DEF Fresh, ClaimRec
  <1>4. CASE StsCreatesPod(b)
    <2>1. \A c \in Claim : c[1] = b /\ ~Exists(c) => NewUid(c) <= MaxUid
      <3> SUFFICES ASSUME NEW c \in Claim, c[1] = b, ~Exists(c)
                   PROVE  NewUid(c) <= MaxUid
        OBVIOUS
      <3>1. PICK k \in Kind : c = <<b, k>>
        BY IdFacts
      <3> QED
        BY <3>1, <1>4 DEF StsCreatesPod
    <2>2. claim' = [c \in Claim |-> IF c[1] = b /\ ~Exists(c) THEN Fresh(c) ELSE claim[c]]
      BY <1>4 DEF StsCreatesPod
    <2>3. claim' \in [Claim -> ClaimRec]
      BY <2>1, <2>2, <1>2, <1>3
    <2> QED
      BY <2>1, <2>2, <2>3, <1>1 DEF ClaimsMade
  <1>5. CASE StsRecreatesClaims(b)
    <2>1. claim' = [c \in Claim |-> IF c[1] = b /\ ~Exists(c) /\ NewUid(c) <= MaxUid
                                   THEN Fresh(c) ELSE claim[c]]
      BY <1>5 DEF StsRecreatesClaims
    <2>2. claim' \in [Claim -> ClaimRec]
      BY <2>1, <1>2, <1>3
    <2> QED
      BY <2>1, <2>2, <1>1 DEF ClaimsMade
  <1> QED
    BY <1>4, <1>5

LEMMA BindBinds ==
    ASSUME UnbindInv, NEW b \in Broker, NEW n \in Node, Bind(b, n)
    PROVE  DisksBound
  <1> USE DEF UnbindInv
  <1> DEFINE open == {c \in Claim : c[1] = b /\ ~Bound(c)}
             BoundTo(S, vol) ==
                /\ \A c \in S : vol[c] \in Choices(c, n)
                /\ claim' = [c \in Claim |-> IF c \in S THEN [claim[c] EXCEPT !.vol = vol[c]] ELSE claim[c]]
                /\ pv' = [p \in Id |->
                            IF \E c \in S : vol[c] = p
                            THEN LET c == CHOOSE d \in S : vol[d] = p
                                 IN  IF pv[p] = NoPV THEN NewPV(c, n) ELSE [pv[p] EXCEPT !.ref = ClaimId(c)]
                            ELSE pv[p]]
  <1>1. UNCHANGED <<flags, stale, u, hit>>
    BY DEF Bind
  <1>2. PICK S \in (SUBSET open) \ {{}} :
            \E vol \in [S -> UNION {Choices(c, n) : c \in S}] : BoundTo(S, vol)
    BY DEF Bind
  <1>3. PICK vol \in [S -> UNION {Choices(c, n) : c \in S}] : BoundTo(S, vol)
    BY <1>2
  <1>4. \A c \in S : /\ c \in Claim /\ Exists(c) /\ ~Bound(c)
                     /\ ClaimId(c) \in Id /\ Name(ClaimId(c)) = c /\ pv[ClaimId(c)] = NoPV
    <2> SUFFICES ASSUME NEW c \in S
                 PROVE  /\ c \in Claim /\ Exists(c) /\ ~Bound(c)
                        /\ ClaimId(c) \in Id /\ Name(ClaimId(c)) = c /\ pv[ClaimId(c)] = NoPV
      OBVIOUS
    <2>1. c \in Claim /\ c[1] = b /\ ~Bound(c)
      BY <1>2
    <2>2. PICK k \in Kind : c = <<b, k>>
      BY <2>1, IdFacts
    <2>3. Exists(c)
      BY <2>2 DEF Bind, Fits
    <2> QED
      BY <2>1, <2>3, ExistingHasId DEF Owned, ClaimsAreOwn
  <1>5. \A c : Choices(c, n) = {ClaimId(c)}
    <2>1. \A p \in PVs : pv[p].ref # None
      BY RecordFacts DEF PVs, Owned, VolumesAreOwn
    <2>2. \A c : Free(c, n) = {}
      BY <2>1 DEF Free, Available
    <2> QED
      BY <2>2 DEF Choices
  <1>6. \A c \in S : vol[c] = ClaimId(c)
    BY <1>3, <1>5
  <1>7. \A c \in Claim : \/ c \notin S /\ claim'[c] = claim[c]
                         \/ c \in S /\ claim'[c] = [claim[c] EXCEPT !.vol = ClaimId(c)]
    BY <1>3, <1>6
  <1>8. claim' \in [Claim -> ClaimRec]
    <2>1. \A c \in S : [claim[c] EXCEPT !.vol = vol[c]] \in ClaimRec
      BY <1>4, <1>6, ClaimTyped DEF ClaimRec
    <2>2. \A c \in Claim : claim[c] \in ClaimRec
      BY ClaimTyped
    <2> QED
      BY <1>3, <2>1, <2>2
  <1>9. \A c \in S : NewPV(c, n) \in PVRec /\ NewPV(c, n).ref = ClaimId(c) /\ NewPV(c, n).flight = None
    BY <1>4 DEF NewPV, PVRec
  <1>10. \A p \in Id : \/ (\A c \in S : ClaimId(c) # p) /\ pv'[p] = pv[p]
                       \/ \E c \in S : ClaimId(c) = p /\ pv'[p] = NewPV(c, n)
    <2> SUFFICES ASSUME NEW p \in Id
                 PROVE  \/ (\A c \in S : ClaimId(c) # p) /\ pv'[p] = pv[p]
                        \/ \E c \in S : ClaimId(c) = p /\ pv'[p] = NewPV(c, n)
      OBVIOUS
    <2>1. CASE \E c \in S : vol[c] = p
      <3>1. PICK c \in S : c = CHOOSE d \in S : vol[d] = p
        BY <2>1
      <3>2. vol[c] = p
        BY <2>1, <3>1
      <3>3. ClaimId(c) = p /\ pv[p] = NoPV
        BY <3>2, <1>4, <1>6
      <3>4. pv'[p] = NewPV(c, n)
        BY <2>1, <3>1, <3>3, <1>3
      <3> QED
        BY <3>3, <3>4
    <2>2. CASE ~\E c \in S : vol[c] = p
      BY <2>2, <1>3, <1>6
    <2> QED
      BY <2>1, <2>2
  <1>11. \A c \in S : pv'[ClaimId(c)] \in PVRec /\ pv'[ClaimId(c)] # NoPV
    BY <1>4, <1>9, <1>10, RecordFacts
  <1>12. \A c \in S : claim'[c].vol = ClaimId(c)
    <2> SUFFICES ASSUME NEW c \in S
                 PROVE  claim'[c].vol = ClaimId(c)
      OBVIOUS
    <2>1. claim[c] \in ClaimRec /\ c \in Claim
      BY <1>4, ClaimTyped
    <2>2. claim'[c] = [claim[c] EXCEPT !.vol = ClaimId(c)]
      BY <2>1, <1>7
    <2> QED
      BY <2>1, <2>2 DEF ClaimRec
  <1>13. pv' \in [Id -> {NoPV} \cup PVRec]
    <2>1. DOMAIN pv' = Id /\ pv' = [p \in Id |-> pv'[p]]
      BY <1>3
    <2>2. \A p \in Id : pv'[p] \in {NoPV} \cup PVRec
      BY <1>9, <1>10 DEF Types
    <2> QED
      BY <2>1, <2>2
  <1>14. \A p \in Id : \/ pv'[p] = pv[p]
                       \/ /\ pv[p] = NoPV /\ pv'[p] \in PVRec
                          /\ pv'[p].ref = p /\ pv'[p].flight = None
                          /\ p = ClaimId(Name(p)) /\ claim'[Name(p)].vol = p
    BY <1>4, <1>9, <1>10, <1>12
  <1>15. \A c \in Claim : \/ claim'[c] = claim[c]
                          \/ /\ Exists(c) /\ ~Bound(c) /\ pv'[ClaimId(c)] # NoPV
                             /\ claim'[c] = [claim[c] EXCEPT !.vol = ClaimId(c)]
    BY <1>4, <1>7, <1>11
  <1> HIDE DEF BoundTo, open
  <1> QED
    BY <1>1, <1>8, <1>13, <1>14, <1>15 DEF DisksBound

LEMMA GoneLeaves ==
    ASSUME UnbindInv, NEW c \in Claim, ClaimGone(c)
    PROVE  ClaimLeft(c)
  <1> USE DEF UnbindInv
  <1>1. claim[c].del /\ UNCHANGED <<flags, stale, u, hit>> /\ claim' = [claim EXCEPT ![c] = NoClaim]
    BY DEF ClaimGone
  <1>2. pv' = [p \in Id |-> IF pv[p] # NoPV /\ pv[p].ref = ClaimId(c) /\ ~pv[p].retain
                            THEN NoPV ELSE pv[p]]
    BY DEF ClaimGone
  <1>3. \A p \in Id : ~(pv[p] # NoPV /\ pv[p].ref = ClaimId(c) /\ ~pv[p].retain)
    BY <1>1, DeletedFacts DEF Owned, VolumesAreOwn
  <1>4. pv' = pv
    BY <1>2, <1>3 DEF Types
  <1> QED
    BY <1>1, <1>4 DEF ClaimLeft

LEMMA GatesClear ==
    ASSUME UnbindInv, NEW b \in Broker, GatesPass(b) \/ GatesDefer(b)
    PROVE  MarksCleared
  <1> USE DEF UnbindInv
  <1>1. ScanPVs(b) /\ UNCHANGED <<flags, claim, stale, hit>> /\ u = Idle
    BY DEF GatesPass, GatesDefer, ScanPVs
  <1>2. \A p \in Id : pv[p] # NoPV => Cleared(p) \in PVRec
    BY DEF Types, Cleared, PVRec
  <1>3. /\ pv' \in [Id -> {NoPV} \cup PVRec]
        /\ \A p \in Id : pv'[p] = pv[p] \/ (pv[p] # NoPV /\ pv'[p] = Cleared(p))
    <2>1. CASE pv' = pv
      BY <2>1 DEF Types
    <2>2. CASE pv' = [p \in Id |-> IF p \in PVs THEN Cleared(p) ELSE NoPV]
      BY <2>2, <1>2 DEF PVs
    <2> QED
      BY <1>1, <2>1, <2>2 DEF ScanPVs
  <1>4. \/ UNCHANGED u
        \/ \E a \in Broker : ~UnbindInFlight(a) /\ u' \in Gates /\ u'.b = a
    <2>1. CASE GatesPass(b)
      <3> DEFINE blocked == \E p \in PVs : FreedPVBlocking(p)
      <3>1. u' = [pc |-> "gates", b |-> b, blocked |-> blocked] /\ ~UnbindInFlight(b)
        BY <2>1 DEF GatesPass
      <3>2. blocked \in BOOLEAN
        OBVIOUS
      <3> HIDE DEF blocked
      <3>3. u' \in Gates /\ u'.b = b
        BY <3>1, <3>2 DEF Gates
      <3> QED
        BY <3>1, <3>3
    <2>2. CASE GatesDefer(b)
      BY <2>2 DEF GatesDefer
    <2> QED
      BY <2>1, <2>2
  <1> QED
    BY <1>1, <1>3, <1>4 DEF MarksCleared

(* A patch of prepareForUnbind made from an old copy meets a conflict, and   *)
(* one that is left out is of a volume that bears the mark.                  *)
LEMMA PreparePrepares ==
    ASSUME UnbindInv, PrepareForUnbind
    PROVE  Ends \/ \E p \in Id : VolumePrepared(p)
  <1> USE DEF UnbindInv
  <1>1. u \in Act /\ u.pc = "act" /\ u.prepare # {} /\ UNCHANGED <<flags, claim, stale, hit>>
    BY DEF PrepareForUnbind, Types, Gates, Idle
  <1>2. PICK p \in u.prepare : p = CHOOSE q \in u.prepare : TRUE
    BY <1>1
  <1>3. /\ p \in Id /\ pv[p] # NoPV /\ pv[p] \in PVRec /\ pv[p].ref = p
        /\ u.vols[p] \in PVRec /\ u.vols[p].ref = p /\ p # None
        /\ u.vols[p].flight # None => u.vols[p].retain /\ pv[p].flight # None
        /\ pv[p].flight # None => pv[p].retain
    BY <1>1, <1>2, RecordFacts DEF Act, ToPrepare, Types, Owned, VolumesAreOwn
  <1>4. CASE Prepared(u.vols[p]) = u.vols[p]
    <2>1. u.vols[p].flight # None
      BY <1>3, <1>4, PreparedFacts
    <2>2. Prepared(pv[p]) = pv[p]
      BY <2>1, <1>3 DEF Prepared, PVRec
    <2>3. pv' = pv /\ u' = [u EXCEPT !.prepare = @ \ {p}]
      BY <1>2, <1>4 DEF PrepareForUnbind
    <2>4. pv' = [pv EXCEPT ![p] = Prepared(pv[p])]
      BY <2>2, <2>3, <1>3 DEF Types
    <2> QED
      BY <2>3, <2>4, <1>1, <1>2, <1>3 DEF VolumePrepared
  <1>5. CASE Prepared(u.vols[p]) # u.vols[p] /\ pv[p] = u.vols[p]
    <2>1. pv' = [pv EXCEPT ![p] = Prepared(pv[p])] /\ u' = [u EXCEPT !.prepare = @ \ {p}]
      BY <1>2, <1>5 DEF PrepareForUnbind
    <2> QED
      BY <2>1, <1>1, <1>2, <1>3 DEF VolumePrepared
  <1>6. CASE Prepared(u.vols[p]) # u.vols[p] /\ pv[p] # u.vols[p]
    <2>1. u' = Idle /\ pv' = pv
      BY <1>2, <1>6 DEF PrepareForUnbind, End
    <2> QED
      BY <2>1, <1>1 DEF Ends
  <1> QED
    BY <1>4, <1>5, <1>6

LEMMA DeleteDeletes ==
    ASSUME UnbindInv, DeleteClaim
    PROVE  Ends \/ \E k \in Kind : ClaimDeleted(k)
  <1>1. u \in Act /\ u.pc = "act" /\ u.prepare = {} /\ UNCHANGED <<flags, pv, stale>>
    BY DEF DeleteClaim, UnbindInv, Types, Gates, Idle
  <1>2. PICK k \in u.delete :
            \/ /\ claim[<<u.b, k>>] = u.claims[k]
               /\ claim' = [claim EXCEPT ![<<u.b, k>>].del = TRUE]
               /\ hit' = hit \cup {ClaimId(<<u.b, k>>)}
               /\ u' = [u EXCEPT !.delete = @ \ {k}]
            \/ u' = Idle /\ UNCHANGED <<claim, hit>>
    BY DEF DeleteClaim, End
  <1>3. k \in Kind
    BY <1>1 DEF Act
  <1> QED
    BY <1>1, <1>2, <1>3 DEF Ends, ClaimDeleted

(* Every step is one of the effects.                                         *)
LEMMA StepsHaveEffects ==
    ASSUME UnbindInv, [Next]_vars, [PlanUnbind => ListsOwnVolumes]_vars
    PROVE  Effect
  <1>1. CASE UNCHANGED vars
    BY <1>1 DEF vars, world, Effect, Rests
  <1>2. CASE Cluster
    <2>1. ASSUME NEW b \in Broker, StsCreatesPod(b) \/ StsRecreatesClaims(b)
          PROVE  Effect
      BY <2>1, StsMakes DEF Effect
    <2>2. ASSUME NEW b \in Broker, NEW n \in Node, Bind(b, n)
          PROVE  Effect
      BY <2>2, BindBinds DEF Effect
    <2>3. ASSUME NEW b \in Broker, PodStarts(b) \/ TimesOut(b)
          PROVE  Effect
      BY <2>3 DEF PodStarts, TimesOut, Rests, Effect
    <2>4. ASSUME NEW c \in Claim, ClaimGone(c)
          PROVE  Effect
      BY <2>4, GoneLeaves DEF Effect
    <2>5. CASE CatchUp
      BY <2>5 DEF CatchUp, world, ViewChanged, Effect
    <2> QED
      BY <1>2, <2>1, <2>2, <2>3, <2>4, <2>5, Zenon DEF Cluster
  <1>3. CASE \E n \in Node : NodeFails(n) \/ NodeReturns(n)
    BY <1>3 DEF NodeFails, NodeReturns, Rests, Effect
  <1>4. CASE OwnerPauses
    BY <1>4 DEF OwnerPauses, world, Rests, Effect
  <1>5. CASE \E i \in Lagging : FallBehind(i)
    <2>1. PICK i \in Lagging : FallBehind(i)
      BY <1>5
    <2>2. i \in {"claim", "pv"}
      BY UnbinderAssumption
    <2> QED
      BY <2>1, <2>2 DEF FallBehind, world, ViewChanged, Effect
  <1>6. CASE \E b \in Broker : ShortOfCPU(b) \/ GatesPass(b) \/ GatesDefer(b)
    <2>1. PICK b \in Broker : ShortOfCPU(b) \/ GatesPass(b) \/ GatesDefer(b)
      BY <1>6
    <2>2. CASE ShortOfCPU(b)
      BY <2>2 DEF ShortOfCPU, Rests, Effect
    <2>3. CASE GatesPass(b) \/ GatesDefer(b)
      BY <2>3, GatesClear DEF Effect
    <2> QED
      BY <2>1, <2>2, <2>3
  <1>7. CASE Step
    <2>1. CASE PlanUnbind
      <3>1. UNCHANGED vars \/ ListsOwnVolumes
        BY <2>1
      <3> QED
        BY <2>1, <3>1, <1>1 DEF PlanUnbind, world, Planned, Effect
    <2>2. CASE RebindingDefers \/ DeletePod
      BY <2>2 DEF RebindingDefers, DeletePod, End, Ends, Effect
    <2>3. CASE PrepareForUnbind
      BY <2>3, PreparePrepares DEF Effect
    <2>4. CASE DeleteClaim
      BY <2>4, DeleteDeletes DEF Effect
    <2>5. CASE MaybeRecyclePersistentVolume
      <3>1. u \in Act /\ u.recycle # {}
        BY <2>5 DEF MaybeRecyclePersistentVolume, UnbindInv, Types, Gates, Idle
      <3> QED
        BY <3>1 DEF Act
    <2> QED
      BY <1>7, <2>1, <2>2, <2>3, <2>4, <2>5 DEF Step
  <1>8. CASE Fail
    BY <1>8 DEF Fail, End, Ends, Effect
  <1> QED
    BY <1>1, <1>2, <1>3, <1>4, <1>5, <1>6, <1>7, <1>8 DEF Next

-----------------------------------------------------------------------------
LEMMA InitUnbind == Init => UnbindInv
  <1> SUFFICES ASSUME Init
               PROVE  UnbindInv
    OBVIOUS
  <1>0. MaxUid \in Nat \ {0} /\ 1 \in 1 .. MaxUid /\ None \notin Id
    BY UnbinderAssumption
  <1>1. \A c \in Claim : /\ claim[c].uid = 1 /\ claim[c].vol = At(c, 1) /\ claim[c].del = FALSE
                         /\ At(c, 1) \in Id /\ At(c, 1)[3] = 1 /\ ClaimId(c) = At(c, 1)
                         /\ claim[c] \in ClaimRec
    <2> SUFFICES ASSUME NEW c \in Claim
                 PROVE  /\ claim[c].uid = 1 /\ claim[c].vol = At(c, 1) /\ claim[c].del = FALSE
                        /\ At(c, 1) \in Id /\ At(c, 1)[3] = 1 /\ ClaimId(c) = At(c, 1)
                        /\ claim[c] \in ClaimRec
      OBVIOUS
    <2>1. claim[c] = [uid |-> 1, vol |-> At(c, 1), del |-> FALSE]
      BY DEF Init, At
    <2>2. At(c, 1) \in Id /\ At(c, 1)[3] = 1
      BY <1>0, IdFacts
    <2>3. claim[c].uid = 1 /\ claim[c].vol = At(c, 1) /\ claim[c].del = FALSE
      BY <2>1
    <2>4. ClaimId(c) = At(c, 1)
      BY <2>3 DEF ClaimId, At
    <2>5. 1 \in 0 .. MaxUid
      BY <1>0
    <2>6. claim[c] \in ClaimRec
      BY <2>1, <2>2, <2>5 DEF ClaimRec
    <2> QED
      BY <2>2, <2>3, <2>4, <2>6
  <1>2. \A p \in Id : IF p[3] > 1 THEN pv[p] = NoPV
                      ELSE pv[p] = [node |-> Home[p[1]], ref |-> p, retain |-> FALSE,
                                    flight |-> None, freed |-> FALSE]
    BY DEF Init
  <1>3. \A p \in Id : p[3] = 1 =>
           pv[p] \in PVRec /\ pv[p].ref = p /\ pv[p].flight = None /\ pv[p] # NoPV
    <2> SUFFICES ASSUME NEW p \in Id, p[3] = 1
                 PROVE  pv[p] \in PVRec /\ pv[p].ref = p /\ pv[p].flight = None /\ pv[p] # NoPV
      OBVIOUS
    <2>1. Home[p[1]] \in Node
      BY IdFacts, UnbinderAssumption
    <2>2. pv[p] = [node |-> Home[p[1]], ref |-> p, retain |-> FALSE, flight |-> None, freed |-> FALSE]
      BY <1>2
    <2>3. pv[p] \in PVRec
      BY <2>1, <2>2 DEF PVRec
    <2>4. pv[p].ref = p /\ pv[p].flight = None
      BY <2>2
    <2> QED
      BY <2>3, <2>4, RecordFacts
  <1>4. \A p \in Id : p[3] = 1 \/ pv[p] = NoPV
    <2> SUFFICES ASSUME NEW p \in Id, p[3] # 1
                 PROVE  pv[p] = NoPV
      OBVIOUS
    <2>1. p[3] \in 1 .. MaxUid
      BY IdFacts
    <2>2. p[3] > 1
      BY <2>1, <1>0
    <2> QED
      BY <2>2, <1>2
  <1>5. hit = {} /\ stale = {} /\ u = Idle /\ flags \in Flags
    BY DEF Init
  <1>6. Types
    <2>1. claim \in [Claim -> ClaimRec]
      <3>1. claim = [c \in Claim |-> [uid |-> 1, vol |-> <<c[1], c[2], 1>>, del |-> FALSE]]
        BY DEF Init
      <3> QED
        BY <3>1, <1>1
    <2>2. pv \in [Id -> {NoPV} \cup PVRec]
      <3>1. \A p \in Id : pv[p] \in {NoPV} \cup PVRec
        BY <1>3, <1>4
      <3>2. pv = [p \in Id |-> IF p[3] > 1 THEN NoPV
                               ELSE [node |-> Home[p[1]], ref |-> p, retain |-> FALSE,
                                     flight |-> None, freed |-> FALSE]]
        BY DEF Init
      <3> QED
        BY <3>1, <3>2
    <2> QED
      BY <2>1, <2>2, <1>5 DEF Types
  <1>7. VolumesAreOwn
    BY <1>3, <1>4 DEF VolumesAreOwn
  <1>8. ClaimsAreOwn
    <2> SUFFICES ASSUME NEW c \in Claim
                 PROVE  claim[c].uid # 0 /\ Bound(c) /\ claim[c].vol = ClaimId(c) /\ pv[ClaimId(c)] # NoPV
      BY DEF ClaimsAreOwn
    <2>1. claim[c].uid # 0 /\ claim[c].vol = ClaimId(c) /\ ClaimId(c) \in Id /\ ClaimId(c)[3] = 1
      BY <1>1
    <2> QED
      BY <2>1, <1>0, <1>3 DEF Bound
  <1>9. DeletedIsHit
    BY <1>1, <1>5 DEF DeletedIsHit
  <1>10. Youngest
    <2> SUFFICES ASSUME NEW c \in Claim, NEW i \in 1 .. MaxUid, Used(c, i)
                 PROVE  i <= claim[c].uid
      BY DEF Youngest
    <2>1. pv[At(c, i)] # NoPV /\ At(c, i) \in Id /\ At(c, i)[3] = i
      BY <1>5, IdFacts DEF Used, At
    <2>2. i = 1 /\ claim[c].uid = 1
      BY <2>1, <1>1, <1>4
    <2> QED
      BY <2>2
  <1>11. OpenIsMarked /\ StaleIsPast /\ OneUnbindAtATime
    BY <1>5 DEF OpenIsMarked, StaleIsPast, StaleClaims, StaleVolumes, OneUnbindAtATime, Unbinding
  <1>12. Alone /\ ToPrepare /\ ToDelete
    <2>1. u.pc = "idle"
      BY <1>5 DEF Idle
    <2> QED
      BY <2>1 DEF Alone, ToPrepare, ToDelete
  <1> QED
    BY <1>6, <1>7, <1>8, <1>9, <1>10, <1>11, <1>12 DEF UnbindInv, Owned

(* The inductive invariant: volumes and claims belong to each other by name  *)
(* and uid, a broker waiting for its disk bears a mark gate 0 reads and the  *)
(* scan does not clear, and a reconcile past gate 0 is the only unbind.      *)
THEOREM UnbindInvariant ==
    ASSUME \A f \in Flags : ~f.rebind
    PROVE  Spec /\ TrueLists => []UnbindInv
  <1>1. Init => UnbindInv
    BY InitUnbind
  <1>2. UnbindInv /\ [Next]_vars /\ [PlanUnbind => ListsOwnVolumes]_vars => UnbindInv'
    <2> SUFFICES ASSUME UnbindInv, [Next]_vars, [PlanUnbind => ListsOwnVolumes]_vars
                 PROVE  UnbindInv'
      OBVIOUS
    <2>1. Effect
      BY StepsHaveEffects
    <2>2. CASE Rests \/ Ends
      BY <2>2, RestKeeps
    <2>3. CASE ClaimsMade
      BY <2>3, MadeKeeps
    <2>4. CASE DisksBound
      BY <2>4, BindKeeps
    <2>5. CASE \E c \in Claim : ClaimLeft(c)
      BY <2>5, LeftKeeps
    <2>6. CASE ViewChanged
      BY <2>6, ViewKeeps
    <2>7. CASE MarksCleared
      BY <2>7, ScanKeeps
    <2>8. CASE Planned
      <3>1. ~flags.rebind
        BY DEF UnbindInv, Types
      <3> QED
        BY <2>8, <3>1, PlanKeeps
    <2>9. CASE \E p \in Id : VolumePrepared(p)
      BY <2>9, PrepareKeeps
    <2>10. CASE \E k \in Kind : ClaimDeleted(k)
      BY <2>10, DeleteKeeps
    <2> QED
      BY <2>1, <2>2, <2>3, <2>4, <2>5, <2>6, <2>7, <2>8, <2>9, <2>10 DEF Effect
  <1> QED
    BY <1>1, <1>2, PTL DEF Spec, TrueLists

(* Gate 0: the brokers whose claims the unbinder has deleted and that are    *)
(* not yet bound to disks again are never more than one, whatever fails in   *)
(* the middle of an unbind and however old the cached claims and volumes     *)
(* are: the one thing that can break it is an unbind planned from a list     *)
(* that misses a volume of the broker or shows a mark that is gone.          *)
THEOREM OneUnbind ==
    ASSUME \A f \in Flags : ~f.rebind
    PROVE  Spec /\ TrueLists => []OneUnbindAtATime
  <1>1. UnbindInv => OneUnbindAtATime
    BY DEF UnbindInv
  <1> QED
    BY <1>1, UnbindInvariant, PTL

(* No step removes a volume: a claim that goes has its volume retained,      *)
(* because prepareForUnbind came before the deletion on every volume of it,  *)
(* under the same proviso and no other.                                      *)
THEOREM DisksAreRetained ==
    ASSUME \A f \in Flags : ~f.rebind
    PROVE  Spec /\ TrueLists => DataRetained
  <1>1. UnbindInv /\ [Next]_vars /\ [PlanUnbind => ListsOwnVolumes]_vars
            => [\A p \in PVs : pv'[p] # NoPV]_vars
    <2> SUFFICES ASSUME UnbindInv, [Next]_vars, [PlanUnbind => ListsOwnVolumes]_vars, NEW p \in Id, pv[p] # NoPV
                 PROVE  pv'[p] # NoPV
      BY DEF PVs
    <2>1. Effect
      BY StepsHaveEffects
    <2>2. pv[p] \in PVRec /\ pv[p].ref # None
      BY RecordFacts DEF UnbindInv, Types, Owned, VolumesAreOwn
    <2>3. CASE pv' = pv
      BY <2>3
    <2>4. CASE DisksBound
      BY <2>4 DEF DisksBound
    <2>5. CASE MarksCleared
      <3>1. Cleared(p) \in PVRec
        BY <2>2 DEF Cleared, PVRec
      <3> QED
        BY <2>5, <3>1, RecordFacts DEF MarksCleared
    <2>6. CASE \E q \in Id : VolumePrepared(q)
      <3>1. PICK q \in Id : pv' = [pv EXCEPT ![q] = Prepared(pv[q])]
        BY <2>6 DEF VolumePrepared
      <3>2. Prepared(pv[p]) \in PVRec
        BY <2>2, PreparedFacts
      <3> QED
        BY <3>1, <3>2, RecordFacts DEF UnbindInv, Types
    <2> QED
      BY <2>1, <2>3, <2>4, <2>5, <2>6
         DEF Effect, Rests, Ends, ClaimsMade, ClaimLeft, ViewChanged, Planned, ClaimDeleted
  <1> QED
    BY <1>1, UnbindInvariant, PTL DEF Spec, TrueLists, DataRetained
=============================================================================
