---------------------------- MODULE SafetyProofs ----------------------------
(* The reconciler deletes no EtcdCluster younger than the bootstrap timeout, no
   workload exists before the objects its pods mount, and when nothing is due and
   nothing on its way the service is what the user asked for. *)
EXTENDS RolloutProofs

-----------------------------------------------------------------------------
(* Streams of the versions of one child. *)

LEMMA OrderedStore ==
    ASSUME NEW s \in Seq(ChildVersion), s # <<>>, Ordered(s), NEW v \in ChildVersion,
           \/ v.uid = Current(s).uid /\ (v.exists => Current(s).exists)
           \/ v.uid > Current(s).uid
    PROVE  Ordered(Store(s, v))
<1> DEFINE t == Store(s, v)
<1>1. CASE v = Current(s)
  BY <1>1 DEF Store
<1>2. CASE v # Current(s)
  <2>1. /\ Len(t) = Len(s) + 1
        /\ \A i \in 1 .. Len(s) : t[i] = s[i]
        /\ t[Len(s) + 1] = v
    BY <1>2 DEF Store
  <2>2. Len(s) \in Nat /\ Len(s) > 0 /\ \A i \in 1 .. Len(s) : s[i] \in ChildVersion
    OBVIOUS
  <2> HIDE DEF t
  <2>3. \A w \in ChildVersion : w.uid \in Nat
    BY DEF ChildVersion
  <2>4. SUFFICES ASSUME NEW i \in 1 .. Len(t), NEW j \in 1 .. Len(t), i <= j
        PROVE  /\ t[i].uid <= t[j].uid
               /\ t[i].uid = t[j].uid /\ ~t[i].exists => ~t[j].exists
    BY DEF Ordered, t
  <2>5. CASE j <= Len(s)
    BY <2>1, <2>2, <2>4, <2>5 DEF Ordered
  <2>6. CASE i <= Len(s) /\ j = Len(s) + 1
    <3>1. /\ s[i].uid <= s[Len(s)].uid
          /\ s[i].uid = s[Len(s)].uid /\ ~s[i].exists => ~s[Len(s)].exists
      BY <2>2, <2>6 DEF Ordered
    <3> QED
      BY <2>1, <2>2, <2>3, <2>6, <3>1 DEF Current
  <2>7. CASE i = Len(s) + 1 /\ j = Len(s) + 1
    BY <2>1, <2>3, <2>7
  <2> QED
    BY <2>1, <2>2, <2>4, <2>5, <2>6, <2>7
<1> QED
  BY <1>1, <1>2

LEMMA OrderedShown ==
    ASSUME NEW s \in Seq(ChildVersion), s # <<>>, Ordered(s)
    PROVE  /\ Cached(s).uid <= Current(s).uid
           /\ Ordered(Relisted(s))
           /\ ~Synced(s) => /\ Ordered(Tail(s))
                            /\ Cached(s).uid <= Cached(Tail(s)).uid
           /\ \A w \in Versions(s) : /\ Cached(s).uid <= w.uid
                                     /\ w.uid <= Current(s).uid
                                     /\ w.uid = Cached(s).uid /\ w.exists => Cached(s).exists
<1>1. Len(s) \in Nat /\ Len(s) > 0 /\ \A i \in 1 .. Len(s) : s[i] \in ChildVersion
  OBVIOUS
<1>2. \A w \in ChildVersion : w.uid \in Nat
  BY DEF ChildVersion
<1>3. \A w \in Versions(s) : /\ Cached(s).uid <= w.uid
                             /\ w.uid <= Current(s).uid
                             /\ w.uid = Cached(s).uid /\ w.exists => Cached(s).exists
  BY <1>1 DEF Versions, Cached, Current, Ordered
<1>4. Cached(s).uid <= Current(s).uid
  BY <1>1 DEF Cached, Current, Ordered
<1>5. Ordered(Relisted(s))
  <2>1. Current(s) \in ChildVersion
    BY <1>1 DEF Current
  <2> QED
    BY <1>2, <2>1 DEF Ordered, Relisted
<1>6. ASSUME ~Synced(s)
      PROVE  Ordered(Tail(s)) /\ Cached(s).uid <= Cached(Tail(s)).uid
  <2> DEFINE t == Tail(s)
  <2>1. /\ Len(s) > 1 /\ Len(t) = Len(s) - 1
        /\ \A i \in 1 .. Len(s) - 1 : t[i] = s[i + 1]
    BY <1>6, DeliverFacts
  <2> HIDE DEF t
  <2>2. Ordered(t)
    BY <1>1, <2>1 DEF Ordered
  <2>3. Cached(s).uid <= Cached(t).uid
    BY <1>1, <2>1 DEF Ordered, Cached
  <2> QED
    BY <2>2, <2>3 DEF t
<1> QED
  BY <1>3, <1>4, <1>5, <1>6

-----------------------------------------------------------------------------
(* The EtcdCluster that is about to be deleted. *)

EtcdStreamInv == Ordered(children["etcd"]) /\ AgedKnown

LEMMA EtcdStream ==
    ASSUME ChildrenOK
    PROVE  /\ children["etcd"] \in Seq(ChildVersion) /\ children["etcd"] # <<>>
           /\ ChildCurrent("etcd") \in ChildVersion
           /\ ChildCached("etcd") \in ChildVersion
  BY ChildFacts DEF Child

(* A write to the current incarnation, or the creation of the next one when the
   cache shows none. *)
LEMMA EtcdWrite ==
    ASSUME ChildrenOK, aged \subseteq Nat, EtcdStreamInv, NEW v \in ChildVersion,
           PutChild("etcd", v), UNCHANGED aged,
           \/ /\ v.uid = ChildCurrent("etcd").uid
              /\ v.exists => ChildCurrent("etcd").exists
           \/ /\ v.uid > ChildCurrent("etcd").uid
              /\ ~ChildCached("etcd").exists
    PROVE  EtcdStreamInv' /\ ChildCurrent("etcd")'.uid = v.uid
<1> DEFINE s == children["etcd"]
           t == Store(s, v)
<1>1. s \in Seq(ChildVersion) /\ s # <<>>
  BY EtcdStream
<1>2. children'["etcd"] = t
  BY PutChildFacts DEF Child, ChildrenOK
<1>3. Ordered(s) /\ AgedKnown
  BY DEF EtcdStreamInv
<1>4. ChildCurrent("etcd") = Current(s) /\ ChildCached("etcd") = Cached(s)
  BY DEF ChildCurrent, ChildCached
<1>5. ChildCurrent("etcd")' = Current(t) /\ ChildCached("etcd")' = Cached(t)
  BY <1>2 DEF ChildCurrent, ChildCached
<1> HIDE DEF s
<1>6. Ordered(t)
  BY <1>1, <1>3, <1>4, OrderedStore
<1>7. Current(t) = v /\ Cached(t) = Cached(s) /\ Versions(t) \subseteq Versions(s) \cup {v}
  BY <1>1, StoreFacts
<1> HIDE DEF t
<1>8. \A w \in Versions(s) : /\ Cached(s).uid <= w.uid
                             /\ w.uid = Cached(s).uid /\ w.exists => Cached(s).exists
  BY <1>1, <1>3, OrderedShown
<1>9. Versions(s) \subseteq ChildVersion /\ Cached(s) \in ChildVersion
  BY <1>1, StreamEnds
<1>10. AgedKnown'
  <2>1. \A u \in aged' : u <= ChildCached("etcd")'.uid
    BY <1>3, <1>4, <1>5, <1>7 DEF AgedKnown
  <2>2. ASSUME NEW w \in Versions(t), w.exists, w.uid \in aged
        PROVE  Current(t).uid = w.uid
    <3>1. CASE w = v
      BY <1>7, <3>1
    <3>2. CASE w \in Versions(s)
      <4>1. Current(s).uid = w.uid
        BY <1>3, <1>4, <2>2, <3>2 DEF AgedKnown, s
      <4>2. w.uid <= Cached(s).uid
        BY <1>3, <1>4, <2>2 DEF AgedKnown
      <4>3. w.uid = Cached(s).uid
        BY <1>8, <1>9, <3>2, <4>2 DEF ChildVersion
      <4>4. Cached(s).exists
        BY <1>8, <2>2, <3>2, <4>3
      <4> QED
        BY <1>4, <1>7, <4>1, <4>4
    <3> QED
      BY <1>7, <2>2, <3>1, <3>2
  <2> QED
    BY <1>2, <1>5, <2>1, <2>2 DEF AgedKnown
<1> QED
  BY <1>2, <1>5, <1>6, <1>7, <1>10 DEF EtcdStreamInv

(* Steps that do not write the EtcdCluster. *)
LEMMA EtcdUntouched ==
    ASSUME EtcdStreamInv, children'["etcd"] = children["etcd"], UNCHANGED aged
    PROVE  EtcdStreamInv' /\ ChildCurrent("etcd")' = ChildCurrent("etcd")
  BY DEF EtcdStreamInv, AgedKnown, ChildCurrent, ChildCached

LEMMA OtherChildWrite ==
    ASSUME TypeOK, NEW o \in Child, o # "etcd", NEW v, PutChild(o, v)
    PROVE  children'["etcd"] = children["etcd"]
  BY DEF PutChild, TypeOK, ChildrenOK, Child

LEMMA EtcdShown ==
    ASSUME TypeOK, EtcdStreamInv, Restart \/ DeliverChild("etcd")
    PROVE  EtcdStreamInv' /\ ChildCurrent("etcd")' = ChildCurrent("etcd")
<1> DEFINE s == children["etcd"]
<1>1. s \in Seq(ChildVersion) /\ s # <<>> /\ aged \subseteq Nat /\ UNCHANGED aged
  BY EtcdStream DEF TypeOK, Restart, DeliverChild
<1>2. ChildCurrent("etcd") = Current(s) /\ ChildCached("etcd") = Cached(s)
  BY DEF ChildCurrent, ChildCached
<1>3. Ordered(s) /\ AgedKnown
  BY DEF EtcdStreamInv
<1>4. PICK t : /\ children'["etcd"] = t
               /\ Ordered(t) /\ Current(t) = Current(s)
               /\ Versions(t) \subseteq Versions(s)
               /\ Cached(s).uid <= Cached(t).uid /\ Cached(t) \in ChildVersion
  <2>1. CASE Restart
    <3>1. children'["etcd"] = Relisted(s)
      BY <2>1 DEF Restart, Child
    <3> HIDE DEF s
    <3>2. Current(s) \in ChildVersion
      BY <1>1, StreamEnds
    <3> QED
      BY <1>1, <1>3, <3>1, <3>2, OrderedShown, RelistFacts
  <2>2. CASE DeliverChild("etcd")
    <3>1. children'["etcd"] = Tail(s) /\ ~Synced(s)
      BY <2>2 DEF DeliverChild, TypeOK, ChildrenOK, Child
    <3> HIDE DEF s
    <3>2. Tail(s) \in Seq(ChildVersion) /\ Tail(s) # <<>>
      BY <1>1, <3>1, DeliverFacts
    <3>3. \A t \in Seq(ChildVersion) : t # <<>> => Cached(t) \in ChildVersion
      BY StreamEnds
    <3> QED
      BY <1>1, <1>3, <3>1, <3>2, <3>3, OrderedShown, DeliverFacts
  <2> QED
    BY <2>1, <2>2
<1>5. ChildCurrent("etcd")' = Current(t) /\ ChildCached("etcd")' = Cached(t)
  BY <1>4 DEF ChildCurrent, ChildCached
<1>6. Cached(s) \in ChildVersion
  BY <1>1, StreamEnds
<1>7. \A u \in aged : u <= Cached(t).uid
  BY <1>1, <1>2, <1>3, <1>4, <1>6 DEF AgedKnown, ChildVersion
<1>8. \A w \in Versions(t) : w.exists /\ w.uid \in aged => Current(t).uid = w.uid
  BY <1>2, <1>3, <1>4 DEF AgedKnown
<1> QED
  BY <1>1, <1>2, <1>4, <1>5, <1>7, <1>8 DEF EtcdStreamInv, AgedKnown

(* Everyone but the pass writes to the current incarnation. *)
LEMMA EtcdForeign ==
    ASSUME TypeOK, EtcdStreamInv, NEW o \in Child,
           \/ UserDeletesChild(o) \/ UserEditsDeployment(o) \/ StatusChanges(o)
           \/ BecomesUp(o) \/ Finalized(o) \/ Collected(o)
    PROVE  EtcdStreamInv' /\ ChildCurrent("etcd")'.uid = ChildCurrent("etcd").uid
<1> DEFINE c == ChildCurrent(o)
<1>1. c \in ChildVersion
  BY ChildFacts DEF TypeOK
<1>2. PICK v \in ChildVersion :
          ForeignChildWrite(o, v) /\ v.uid = c.uid /\ (v.exists => c.exists)
  <2> ChildrenOK
    BY DEF TypeOK
  <2>1. /\ Gone(c).uid = c.uid /\ ~Gone(c).exists
        /\ LET w == [c EXCEPT !.deleting = TRUE] IN w.uid = c.uid /\ w.exists = c.exists
        /\ \A image : LET w == [c EXCEPT !.image = image] IN w.uid = c.uid /\ w.exists = c.exists
        /\ \A available, ready :
             LET w == [c EXCEPT !.available = available, !.ready = ready] IN
             w.uid = c.uid /\ w.exists = c.exists
    BY <1>1 DEF ChildVersion, Gone, NeverCreated
  <2>2. Replicas(o) \in Nat /\ \A n \in 0 .. Replicas(o) : n \in Nat
    BY ReplicasAssumption DEF Replicas
  <2>3. CASE UserDeletesChild(o) \/ Finalized(o) \/ Collected(o)
    BY <2>1, <2>3, ChildVersions DEF UserDeletesChild, Finalized, Collected
  <2>4. CASE UserEditsDeployment(o)
    BY <2>1, <2>4, ChildVersions DEF UserEditsDeployment
  <2>5. CASE StatusChanges(o)
    BY <2>1, <2>2, <2>5, ChildVersions DEF StatusChanges
  <2>6. CASE BecomesUp(o)
    BY <2>1, <2>2, <2>6, ChildVersions DEF BecomesUp
  <2> QED
    BY <2>3, <2>4, <2>5, <2>6
<1> HIDE DEF c
<1>3. UNCHANGED aged /\ PutChild(o, v)
  BY <1>2 DEF ForeignChildWrite
<1>4. CASE o = "etcd"
  BY <1>2, <1>3, <1>4, EtcdWrite DEF c, TypeOK
<1>5. CASE o # "etcd"
  <2>1. children'["etcd"] = children["etcd"]
    BY <1>3, <1>5, OtherChildWrite
  <2> QED
    BY <1>3, <2>1, EtcdUntouched
<1> QED
  BY <1>4, <1>5

LEMMA EtcdApplied ==
    ASSUME TypeOK, EtcdStreamInv, ApplyEtcd \/ ApplyKas \/ ApplyKcm
    PROVE  EtcdStreamInv'
<1>1. UNCHANGED aged
  BY DEF ApplyEtcd, ApplyKas, ApplyKcm
<1>2. PICK o \in Child, plan \in {EtcdPlan, KasPlan, KcmPlan}, r \in Response :
          ApplyChild(o, plan, r)
  BY DEF ApplyEtcd, ApplyKas, ApplyKcm, Child
<1>3. CASE UNCHANGED children
  BY <1>1, <1>3, EtcdUntouched
<1>4. CASE o # "etcd" /\ PutChild(o, Wanted(o))
  <2>1. children'["etcd"] = children["etcd"]
    BY <1>4, OtherChildWrite
  <2> QED
    BY <1>1, <2>1, EtcdUntouched
<1>5. CASE o = "etcd" /\ PutChild("etcd", Wanted("etcd"))
  <2> DEFINE c == ChildCurrent("etcd")
  <2>1. c \in ChildVersion
    BY EtcdStream DEF TypeOK
  <2>2. CASE ChildCached("etcd").exists
    <3>1. PutChild("etcd", c)
      BY <1>5, <2>2 DEF Wanted
    <3> HIDE DEF c
    <3>2. c = ChildCurrent("etcd")
      BY DEF c
    <3> QED
      BY <1>1, <2>1, <3>1, <3>2, EtcdWrite DEF TypeOK
  <2>3. CASE ~ChildCached("etcd").exists
    <3> DEFINE v == Created(c, NoImage)
    <3>1. PutChild("etcd", v)
      BY <1>5, <2>3 DEF Wanted
    <3>2. v \in ChildVersion
      BY ChildVersions DEF TypeOK, Child
    <3>3. v.uid > c.uid
      <4>1. c.uid \in Nat
        BY <2>1 DEF ChildVersion
      <4>2. v.uid = c.uid + 1
        BY DEF Created, NeverCreated
      <4> HIDE DEF c, v
      <4> QED
        BY <4>1, <4>2
    <3> HIDE DEF v
    <3> QED
      BY <1>1, <2>3, <3>1, <3>2, <3>3, EtcdWrite DEF TypeOK
  <2> QED
    BY <2>2, <2>3
<1> QED
  BY <1>2, <1>3, <1>4, <1>5 DEF ApplyChild

LEMMA EtcdDeleted ==
    ASSUME TypeOK, EtcdStreamInv, EtcdDelete
    PROVE  EtcdStreamInv'
<1> DEFINE c == ChildCurrent("etcd")
           w == [c EXCEPT !.deleting = TRUE]
<1>1. c \in ChildVersion
  BY EtcdStream DEF TypeOK
<1>2. /\ Gone(c) \in ChildVersion /\ Gone(c).uid = c.uid /\ ~Gone(c).exists
      /\ w \in ChildVersion /\ w.uid = c.uid /\ w.exists = c.exists
  BY <1>1 DEF ChildVersion, Gone, NeverCreated
<1>3. UNCHANGED aged /\ (PutChild("etcd", Gone(c)) \/ PutChild("etcd", w) \/ UNCHANGED children)
  BY DEF EtcdDelete
<1>4. CASE UNCHANGED children
  BY <1>3, <1>4, EtcdUntouched
<1>5. CASE PutChild("etcd", Gone(c)) \/ PutChild("etcd", w)
  <2> HIDE DEF w
  <2> QED
    BY <1>2, <1>3, <1>5, EtcdWrite DEF TypeOK
<1> QED
  BY <1>3, <1>4, <1>5

LEMMA EtcdTimeout ==
    ASSUME TypeOK, EtcdStreamInv, BootstrapTimeout
    PROVE  EtcdStreamInv' /\ ChildCurrent("etcd")' = ChildCurrent("etcd")
<1> DEFINE s == children["etcd"]
<1>1. s \in Seq(ChildVersion) /\ s # <<>>
  BY EtcdStream DEF TypeOK
<1>2. /\ aged' = aged \cup {ChildCurrent("etcd").uid} /\ UNCHANGED children
      /\ ChildCached("etcd").uid = ChildCurrent("etcd").uid
      /\ ChildCurrent("etcd").uid \in Nat
  BY EtcdStream DEF BootstrapTimeout, TypeOK, ChildVersion
<1>3. ChildCurrent("etcd")' = ChildCurrent("etcd") /\ ChildCached("etcd")' = ChildCached("etcd")
  BY <1>2 DEF ChildCurrent, ChildCached
<1>4. Ordered(s)' /\ Versions(s)' = Versions(s)
  BY <1>2 DEF EtcdStreamInv, Ordered
<1>5. AgedKnown'
  BY <1>2, <1>3, <1>4 DEF EtcdStreamInv, AgedKnown
<1> QED
  BY <1>3, <1>4, <1>5 DEF EtcdStreamInv

(* What is judged to have failed is past the timeout, and it is what the API
   server has under that name. *)
LEMMA EtcdJudgement ==
    ASSUME TypeOK, EtcdStreamInv, UpdateEtcdCondition, pc' = "EtcdDelete",
           etcdClusterReplicas = 1
    PROVE  ChildCurrent("etcd").uid \in aged
<1> DEFINE c == ChildCached("etcd")
<1>1. EtcdJudged = "Failed"
  BY DEF UpdateEtcdCondition, Goto, Requeue
<1>2. EtcdClusterFailed(c, c.uid \in aged, terminatedPods # {})
  BY <1>1 DEF EtcdJudged, EtcdAvailable
<1>3. c.uid \in aged
  BY <1>2 DEF EtcdClusterFailed
<1>4. c.exists
  BY DEF UpdateEtcdCondition
<1>5. c \in Versions(children["etcd"])
  BY EtcdStream, StreamEnds DEF ChildCached, TypeOK
<1> QED
  BY <1>3, <1>4, <1>5 DEF EtcdStreamInv, AgedKnown

LEMMA EtcdStep ==
    ASSUME TypeOK, EtcdInv, [Next]_vars
    PROVE  EtcdInv'
<1> DEFINE Uid == ChildCurrent("etcd").uid
<1>1. EtcdStreamInv /\ EtcdDeleteHitsExpired
  BY DEF EtcdInv, EtcdStreamInv
<1>2. SUFFICES EtcdStreamInv' /\ EtcdDeleteHitsExpired'
  BY DEF EtcdInv, EtcdStreamInv
<1>3. CASE EtcdStreamInv' /\ pc' # "EtcdDelete"
  BY <1>3 DEF EtcdDeleteHitsExpired
<1>4. CASE EtcdStreamInv' /\ pc' = pc /\ Uid' = Uid /\ aged \subseteq aged'
  BY <1>1, <1>4 DEF EtcdDeleteHitsExpired
<1>5. CASE children'["etcd"] = children["etcd"] /\ UNCHANGED <<aged, pc>>
  BY <1>1, <1>4, <1>5, EtcdUntouched
<1>6. CASE EtcdStatus
  <2>1. children'["etcd"] = children["etcd"] /\ UNCHANGED <<children, aged>>
    BY <1>6 DEF EtcdStatus
  <2>2. EtcdStreamInv' /\ Uid' = Uid
    BY <1>1, <2>1, EtcdUntouched
  <2>3. CASE pc' = "EtcdDelete" /\ etcdClusterReplicas = 1
    <3>1. UpdateEtcdCondition
      BY <1>6, <2>3 DEF EtcdStatus, WaitForDeletion, SkipMissing, Goto, Requeue
    <3>2. Uid \in aged
      BY <1>1, <2>3, <3>1, EtcdJudgement
    <3> QED
      BY <2>1, <2>2, <3>2 DEF EtcdDeleteHitsExpired
  <2>4. CASE ~(pc' = "EtcdDelete" /\ etcdClusterReplicas = 1)
    BY <2>2, <2>4 DEF EtcdDeleteHitsExpired
  <2> QED
    BY <2>3, <2>4
<1>7. CASE Start \/ KasStatus \/ KcmStatus \/ KsStatus \/ ReleaseImage
  <2>1. children'["etcd"] = children["etcd"] /\ UNCHANGED aged
    BY <1>7 DEF Start, KasStatus, KcmStatus, KsStatus, ReleaseImage, world
  <2>2. pc' # "EtcdDelete"
    <3>1. \A o \in Child : WaitForDeletion(o) => pc' = "idle"
      BY DEF WaitForDeletion, Requeue
    <3> QED
      BY <1>7, <3>1 DEF Start, KasStatus, KcmStatus, KsStatus, ReleaseImage, SkipMissing,
         UpdateKasCondition, UpdateKcmCondition, Goto, Requeue, Done, Child
  <2> QED
    BY <1>1, <1>3, <2>1, <2>2, EtcdUntouched
<1>8. CASE ApplyEtcd \/ ApplyKas \/ ApplyKcm
  <2>1. pc' # "EtcdDelete"
    BY <1>8 DEF ApplyEtcd, ApplyKas, ApplyKcm, EtcdGate, KasGate, Goto, Requeue, Done
  <2> QED
    BY <1>1, <1>3, <1>8, <2>1, EtcdApplied
<1>9. CASE EtcdDelete
  <2>1. pc' # "EtcdDelete"
    BY <1>9 DEF EtcdDelete, Requeue
  <2> QED
    BY <1>1, <1>3, <1>9, <2>1, EtcdDeleted
<1>10. CASE Restart
  <2>1. pc' # "EtcdDelete"
    BY <1>10 DEF Restart
  <2> QED
    BY <1>1, <1>3, <1>10, <2>1, EtcdShown
<1>11. ASSUME NEW o \in Child, DeliverChild(o)
       PROVE  EtcdStreamInv' /\ EtcdDeleteHitsExpired'
  <2>1. UNCHANGED <<pc, aged>>
    BY <1>11 DEF DeliverChild
  <2>2. CASE o = "etcd"
    BY <1>1, <1>4, <1>11, <2>1, <2>2, EtcdShown
  <2>3. CASE o # "etcd"
    <3>1. children'["etcd"] = children["etcd"]
      BY <1>11, <2>3 DEF DeliverChild, TypeOK, ChildrenOK, Child
    <3> QED
      BY <1>5, <2>1, <3>1
  <2> QED
    BY <2>2, <2>3
<1>12. ASSUME NEW o \in Child,
              \/ UserDeletesChild(o) \/ UserEditsDeployment(o) \/ StatusChanges(o)
              \/ BecomesUp(o) \/ Finalized(o) \/ Collected(o)
       PROVE  EtcdStreamInv' /\ EtcdDeleteHitsExpired'
  <2>1. UNCHANGED <<pc, aged>>
    BY <1>12 DEF UserDeletesChild, UserEditsDeployment, StatusChanges, BecomesUp, Finalized,
       Collected, ForeignChildWrite
  <2>2. EtcdStreamInv' /\ Uid' = Uid
    BY <1>1, <1>12, EtcdForeign
  <2> QED
    BY <1>4, <2>1, <2>2
<1>13. CASE BootstrapTimeout
  <2>1. pc' = pc /\ aged \subseteq aged'
    BY <1>13 DEF BootstrapTimeout
  <2> QED
    BY <1>1, <1>4, <1>13, <2>1, EtcdTimeout
<1>14. CASE \/ UserEditsSpec \/ UserDeletesKs \/ KsFinalized
            \/ DeliverKs \/ DelayExpires
            \/ PodTerminates \/ PodsReplaced \/ Resync \/ UNCHANGED vars
  BY <1>5, <1>14 DEF UserEditsSpec, UserDeletesKs, KsFinalized, ForeignKsWrite, DeliverKs,
     DelayExpires, PodTerminates, PodsReplaced, PodsRemoved, Resync, world, vars
<1> QED
  BY <1>6, <1>7, <1>8, <1>9, <1>10, <1>11, <1>12, <1>13, <1>14
     DEF Next, Controller, Reconcile, Disruption, Cluster

LEMMA EtcdInit == Init => EtcdInv
<1> SUFFICES ASSUME Init PROVE EtcdInv
  OBVIOUS
<1>1. children["etcd"] = <<NeverCreated>> /\ aged = {} /\ pc = "idle"
  BY DEF Init, Child
<1>2. Ordered(<<NeverCreated>>)
  BY DEF Ordered, NeverCreated
<1> QED
  BY <1>1, <1>2 DEF EtcdInv, AgedKnown, EtcdDeleteHitsExpired

(* The reconciler decides on a cached EtcdCluster and deletes by name: with the
   single replica of the code it never hits one younger than the bootstrap
   timeout, recreated ones included. *)
THEOREM EtcdDeletionSafe == SafetySpec => []EtcdDeleteHitsExpired
<1>1. TypeOK /\ EtcdInv /\ [Next]_vars => EtcdInv'
  BY EtcdStep
<1>2. EtcdInv => EtcdDeleteHitsExpired
  BY DEF EtcdInv
<1> QED
  BY <1>1, <1>2, EtcdInit, TypeCorrect, PTL DEF SafetySpec

-----------------------------------------------------------------------------
(* The objects that the pods of a workload mount. *)

(* Only applying a child brings it into being. *)
LEMMA PutExists ==
    ASSUME TypeOK, NEW o \in Child, NEW v \in ChildVersion, PutChild(o, v)
    PROVE  /\ ChildCurrent(o)' = v
           /\ \A p \in Child : p # o => ChildCurrent(p)' = ChildCurrent(p)
<1>1. children' = [children EXCEPT ![o] = Store(children[o], v)]
  BY PutChildFacts DEF TypeOK
<1>2. \A s \in Seq(ChildVersion) : s # <<>> => Current(Store(s, v)) = v
  BY StoreFacts
<1> QED
  BY <1>1, <1>2, ChildFacts DEF ChildCurrent, TypeOK, ChildrenOK

NoneCreated == \A p \in Child : ChildCurrent(p)'.exists => ChildCurrent(p).exists

LEMMA ForeignCreatesNone ==
    ASSUME TypeOK, NEW o \in Child,
           \/ UserDeletesChild(o) \/ UserEditsDeployment(o) \/ StatusChanges(o)
           \/ BecomesUp(o) \/ Finalized(o) \/ Collected(o)
    PROVE  NoneCreated
<1>1. PICK v \in ChildVersion : ForeignChildWrite(o, v) /\ ChildCurrent(o).exists
  <2> ChildrenOK
    BY DEF TypeOK
  <2>1. Replicas(o) \in Nat /\ \A n \in 0 .. Replicas(o) : n \in Nat
    BY ReplicasAssumption DEF Replicas
  <2>2. CASE UserDeletesChild(o) \/ Finalized(o) \/ Collected(o)
    BY <2>2, ChildVersions DEF UserDeletesChild, Finalized, Collected
  <2>3. CASE UserEditsDeployment(o)
    BY <2>3, ChildVersions DEF UserEditsDeployment
  <2>4. CASE StatusChanges(o)
    BY <2>1, <2>4, ChildVersions DEF StatusChanges
  <2>5. CASE BecomesUp(o)
    BY <2>1, <2>5, ChildVersions DEF BecomesUp
  <2> QED
    BY <2>2, <2>3, <2>4, <2>5
<1> QED
  BY <1>1, PutExists DEF ForeignChildWrite, NoneCreated

LEMMA ShowingCreatesNone ==
    ASSUME TypeOK, Restart \/ EtcdDelete \/ \E o \in Child : DeliverChild(o)
    PROVE  NoneCreated
<1>1. CASE Restart
  <2>1. \A s \in Seq(ChildVersion) : s # <<>> => Current(Relisted(s)) = Current(s)
    BY RelistFacts
  <2> QED
    BY <1>1, <2>1, ChildFacts DEF Restart, ChildCurrent, TypeOK, NoneCreated
<1>2. CASE \E o \in Child : DeliverChild(o)
  <2>1. \A s \in Seq(ChildVersion) :
            s # <<>> /\ ~Synced(s) => Current(Tail(s)) = Current(s)
    BY DeliverFacts
  <2> QED
    BY <1>2, <2>1, ChildFacts DEF DeliverChild, ChildCurrent, TypeOK, ChildrenOK, NoneCreated
<1>3. CASE EtcdDelete
  <2> DEFINE c == ChildCurrent("etcd")
             w == [c EXCEPT !.deleting = TRUE]
  <2>1. c \in ChildVersion
    BY EtcdStream DEF TypeOK
  <2>2. /\ Gone(c) \in ChildVersion /\ ~Gone(c).exists
        /\ w \in ChildVersion /\ w.exists = c.exists
    BY <2>1 DEF ChildVersion, Gone, NeverCreated
  <2>3. PutChild("etcd", Gone(c)) \/ PutChild("etcd", w) \/ UNCHANGED children
    BY <1>3 DEF EtcdDelete
  <2>4. CASE UNCHANGED children
    BY <2>4 DEF NoneCreated, ChildCurrent
  <2>5. CASE PutChild("etcd", Gone(c)) \/ PutChild("etcd", w)
    <3> HIDE DEF w
    <3> QED
      BY <2>2, <2>5, PutExists DEF NoneCreated, Child
  <2> QED
    BY <2>3, <2>4, <2>5
<1> QED
  BY <1>1, <1>2, <1>3

Stages == {"ReleaseImage", "ApplyKas", "ApplyKcm"}

(* Steps that create nothing and stay outside the stages, or do not move. *)
LEMMA MountsKept ==
    ASSUME MountsInv, NoneCreated, UNCHANGED objects, pc' = pc \/ pc' \notin Stages
    PROVE  MountsInv'
  BY DEF MountsInv, NoneCreated, Stages

(* The plans hold what the volumes show. *)
LEMMA WorkloadMounts ==
    /\ EtcdMounts \subseteq Objects(EtcdPlan)
    /\ KasMounts \subseteq Objects(EtcdPlan) \cup Objects(KasPlan)
    /\ KcmMounts \subseteq Objects(EtcdPlan) \cup Objects(KasPlan) \cup Objects(KcmPlan)
<1>1. EtcdMounts \subseteq Objects(EtcdPlan)
  BY DEF EtcdMounts, Objects, EtcdPlan
<1>2. KasMounts \subseteq Objects(EtcdPlan) \cup Objects(KasPlan)
  BY DEF KasMounts, Shown, KasVolumes, Scratch, Objects, EtcdPlan, KasPlan
<1>3. KcmMounts \subseteq Objects(EtcdPlan) \cup Objects(KasPlan) \cup Objects(KcmPlan)
  BY DEF KcmMounts, Shown, KcmVolumes, Scratch, Objects, EtcdPlan, KasPlan, KcmPlan
<1> QED
  BY <1>1, <1>2, <1>3

LEMMA MountsApplied ==
    ASSUME TypeOK, MountsInv, ApplyEtcd \/ ApplyKas \/ ApplyKcm
    PROVE  MountsInv'
<1> DEFINE etcdObjects == Objects(EtcdPlan)
           kasObjects == Objects(KasPlan)
           kcmObjects == Objects(KcmPlan)
<1>1. /\ EtcdMounts \subseteq etcdObjects
      /\ KasMounts \subseteq etcdObjects \cup kasObjects
      /\ KcmMounts \subseteq etcdObjects \cup kasObjects \cup kcmObjects
  BY WorkloadMounts
<1>2. PICK o \in Child, plan \in {EtcdPlan, KasPlan, KcmPlan}, r \in Response :
          /\ ApplyChild(o, plan, r)
          /\ o = "etcd" => plan = EtcdPlan /\ pc = "ApplyEtcd"
          /\ o = "kas" => plan = KasPlan /\ pc = "ApplyKas"
          /\ o = "kcm" => plan = KcmPlan /\ pc = "ApplyKcm"
          /\ pc' \in Stages => /\ Applied(o, r)
                               /\ o = "etcd" => pc' = "ReleaseImage"
                               /\ o = "kas" => pc' = "ApplyKcm"
                               /\ o # "kcm"
  BY DEF ApplyEtcd, ApplyKas, ApplyKcm, EtcdGate, KasGate, Goto, Requeue, Done, Child, Stages
<1>3. objects \subseteq objects' /\ (r # "refused" => Objects(plan) \subseteq objects')
  BY <1>2 DEF ApplyChild
<1>4. MountsExist'
  <2>1. CASE UNCHANGED children
    BY <1>3, <2>1 DEF MountsInv, MountsExist, ChildCurrent
  <2>2. CASE PutChild(o, Wanted(o)) /\ r # "refused"
    <3>1. Wanted(o) \in ChildVersion
      BY WantedType
    <3>2. \A p \in Child : p # o => ChildCurrent(p)' = ChildCurrent(p)
      BY <2>2, <3>1, PutExists
    <3>3. Mounts(o) \subseteq objects'
      BY <1>1, <1>2, <1>3, <2>2 DEF MountsInv, Mounts, Child
    <3> QED
      BY <1>3, <3>2, <3>3 DEF MountsInv, MountsExist
  <2> QED
    BY <1>2, <2>1, <2>2 DEF ApplyChild
<1>5. pc' \in Stages => r # "refused"
  BY <1>2 DEF Applied
<1> QED
  BY <1>2, <1>3, <1>4, <1>5 DEF MountsInv, MountsExist, Stages, Child

LEMMA MountsStep ==
    ASSUME TypeOK, MountsInv, [Next]_vars
    PROVE  MountsInv'
<1>1. CASE UNCHANGED <<children, objects>> /\ (pc' = pc \/ pc' \notin Stages)
  BY <1>1, MountsKept DEF NoneCreated, ChildCurrent
<1>2. CASE Start \/ EtcdStatus \/ KasStatus \/ KcmStatus \/ KsStatus
  <2>1. UNCHANGED <<children, objects>>
    BY <1>2 DEF Start, EtcdStatus, KasStatus, KcmStatus, KsStatus, world
  <2>2. pc' \notin Stages
    <3>1. \A o \in Child : WaitForDeletion(o) => pc' = "idle"
      BY DEF WaitForDeletion, Requeue
    <3> QED
      BY <1>2, <3>1 DEF Start, EtcdStatus, KasStatus, KcmStatus, KsStatus, SkipMissing,
         UpdateEtcdCondition, UpdateKasCondition, UpdateKcmCondition, Goto, Requeue,
         Done, Child, Stages
  <2> QED
    BY <1>1, <2>1, <2>2
<1>3. CASE EtcdDelete
  <2>1. UNCHANGED objects /\ pc' \notin Stages
    BY <1>3 DEF EtcdDelete, Requeue, Stages
  <2> QED
    BY <1>3, <2>1, MountsKept, ShowingCreatesNone
<1>4. CASE ReleaseImage
  <2>1. pc = "ReleaseImage" /\ pc' \in {"ApplyKas", "idle"} /\ UNCHANGED <<children, objects>>
    BY <1>4 DEF ReleaseImage, Goto, Requeue, world
  <2> QED
    BY <2>1 DEF MountsInv, ChildCurrent
<1>5. CASE ApplyEtcd \/ ApplyKas \/ ApplyKcm
  BY <1>5, MountsApplied
<1>6. CASE Restart \/ \E o \in Child : DeliverChild(o)
  <2>1. UNCHANGED objects /\ (pc' = pc \/ pc' \notin Stages)
    BY <1>6 DEF Restart, DeliverChild, Stages
  <2> QED
    BY <1>6, <2>1, MountsKept, ShowingCreatesNone
<1>7. ASSUME NEW o \in Child,
             \/ UserDeletesChild(o) \/ UserEditsDeployment(o) \/ StatusChanges(o)
             \/ BecomesUp(o) \/ Finalized(o) \/ Collected(o)
      PROVE  MountsInv'
  <2>1. UNCHANGED <<objects, pc>>
    BY <1>7 DEF UserDeletesChild, UserEditsDeployment, StatusChanges, BecomesUp, Finalized,
       Collected, ForeignChildWrite
  <2> QED
    BY <1>7, <2>1, MountsKept, ForeignCreatesNone
<1>8. CASE \/ UserEditsSpec \/ UserDeletesKs \/ KsFinalized
           \/ DeliverKs \/ DelayExpires \/ BootstrapTimeout
           \/ PodTerminates \/ PodsReplaced \/ Resync \/ UNCHANGED vars
  BY <1>1, <1>8 DEF UserEditsSpec, UserDeletesKs, KsFinalized, ForeignKsWrite, DeliverKs,
     DelayExpires, BootstrapTimeout, PodTerminates, PodsReplaced, PodsRemoved, Resync, world, vars
<1> QED
  BY <1>2, <1>3, <1>4, <1>5, <1>6, <1>7, <1>8
     DEF Next, Controller, Reconcile, Disruption, Cluster

LEMMA MountsInit == Init => MountsInv
  BY DEF Init, MountsInv, ChildCurrent, Current, NeverCreated

(* Whichever calls fail, whatever is deleted and however often the operator
   restarts, no EtcdCluster and no Deployment is there before the objects that
   its pods mount. *)
THEOREM MountsAlwaysExist == SafetySpec => []MountsExist
<1>1. TypeOK /\ MountsInv /\ [Next]_vars => MountsInv'
  BY MountsStep
<1>2. MountsInv => MountsExist
  BY DEF MountsInv, MountsExist
<1> QED
  BY <1>1, <1>2, MountsInit, TypeCorrect, PTL DEF SafetySpec

-----------------------------------------------------------------------------
(* The files of the workloads. *)

LEMMA KasFilesMounted ==
    ASSUME NEW f \in KasFiles
    PROVE  f[1] \in KasMounts /\ f[2] \in Entries(f[1])
<1>1. CASE f \in FilesIn(KasVolumes, ApplyBootstrapDirs, ApplyBootstrapFiles)
  <2>1. f = <<"localhost-kubeconfig", "kubeconfig">>
    BY <1>1 DEF FilesIn, KasVolumes, ApplyBootstrapDirs, ApplyBootstrapFiles
  <2> QED
    BY <2>1 DEF KasMounts, Shown, KasVolumes, Scratch, Entries
<1>2. CASE f \in FilesIn(KasVolumes, KubeApiServerDirs,
                          KubeApiServerArgs \cup KubeApiServerConfig)
  <2>1. PICK g \in KubeApiServerArgs \cup KubeApiServerConfig :
            f = <<KasVolumes[KubeApiServerDirs[g[1]]], g[2]>>
    BY <1>2 DEF FilesIn
  <2>2. \/ f[1] = "kas-config" /\ f[2] = "config.json"
        \/ f[1] = "kas-audit-config" /\ f[2] = "policy.yaml"
        \/ f[1] = "root-ca" /\ f[2] = "ca.crt"
        \/ f[1] = "etcd-client-tls"
           /\ f[2] \in {"etcd-client-ca.crt", "etcd-client.crt", "etcd-client.key"}
        \/ f[1] \in {"kas-aggregator-crt", "kas-server-crt"} /\ f[2] \in TlsEntries
        \/ f[1] = "kas-sa-key" /\ f[2] \in {"service-account.key", "service-account.pub"}
        \/ f[1] = "oauth-metadata" /\ f[2] = "oauthMetadata.json"
    BY <2>1 DEF KubeApiServerArgs, KubeApiServerConfig, KasVolumes, KubeApiServerDirs,
       TlsEntries
  <2>3. f[1] \in KasMounts
    BY <2>2 DEF KasMounts, Shown, KasVolumes, Scratch
  <2>4. f[2] \in Entries(f[1])
    BY <2>2 DEF Entries, TlsEntries, CaEntries
  <2> QED
    BY <2>3, <2>4
<1> QED
  BY <1>1, <1>2 DEF KasFiles

LEMMA KcmFilesMounted ==
    ASSUME NEW f \in KcmFiles
    PROVE  f[1] \in KcmMounts /\ f[2] \in Entries(f[1])
<1>1. PICK g \in KcmArgs : f = <<KcmVolumes[KcmDirs[g[1]]], g[2]>>
  BY DEF KcmFiles, FilesIn
<1>2. \/ f[1] = "kcm-config" /\ f[2] = "config.json"
      \/ f[1] = "kubeconfig" /\ f[2] = "kubeconfig"
      \/ f[1] \in {"root-ca", "cluster-signer"} /\ f[2] \in CaEntries
      \/ f[1] = "kas-sa-key" /\ f[2] = "service-account.key"
  BY <1>1 DEF KcmArgs, KcmVolumes, KcmDirs, CaEntries
<1>3. f[1] \in KcmMounts
  BY <1>2, <1>1 DEF KcmMounts, Shown, KcmVolumes, Scratch, KcmArgs, KcmDirs
<1>4. f[2] \in Entries(f[1])
  BY <1>2 DEF Entries, CaEntries
<1> QED
  BY <1>3, <1>4

(* Every file that a workload is told to read is an entry of an object that was
   there before the workload. *)
THEOREM FilesAlwaysReadable == SafetySpec => []FilesReadable
<1>1. MountsExist => FilesReadable
  <2> SUFFICES ASSUME MountsExist, NEW o \in Child, ChildCurrent(o).exists,
                      NEW f \in FilesOf(o)
               PROVE  f[1] \in objects /\ f[2] \in Entries(f[1])
    BY DEF FilesReadable
  <2>1. f[1] \in Mounts(o) /\ f[2] \in Entries(f[1])
    BY KasFilesMounted, KcmFilesMounted DEF FilesOf, Mounts, Child
  <2> QED
    BY <2>1 DEF MountsExist
<1> QED
  BY <1>1, MountsAlwaysExist, PTL

-----------------------------------------------------------------------------
(* No lost wakeup. *)

(* A write after which nothing is on its way to the cache changed nothing. *)
LEMMA SyncedStore ==
    ASSUME NEW V, NEW s \in Seq(V), s # <<>>, NEW v \in V, Synced(Store(s, v))
    PROVE  Store(s, v) = s /\ v = Current(s) /\ Synced(s)
<1>1. CASE v = Current(s)
  BY <1>1 DEF Store
<1>2. CASE v # Current(s)
  <2>1. Store(s, v) = Append(s, v)
    BY <1>2 DEF Store
  <2>2. Len(Append(s, v)) = Len(s) + 1 /\ Len(s) \in Nat /\ Len(s) > 0
    BY AppendFacts, StreamEnds
  <2> QED
    BY <2>1, <2>2 DEF Synced
<1> QED
  BY <1>1, <1>2

StreamsSynced == Synced(kubeService) /\ \A o \in Child : Synced(children[o])

LEMMA SyncedPut ==
    ASSUME TypeOK, StreamsSynced', NEW o \in Child, NEW v \in ChildVersion, PutChild(o, v)
    PROVE  children' = children /\ v = ChildCurrent(o)
<1>1. /\ children' = [children EXCEPT ![o] = Store(children[o], v)]
      /\ children \in [Child -> Seq(ChildVersion)]
  BY PutChildFacts DEF TypeOK, ChildrenOK
<1>2. Synced(Store(children[o], v))
  BY <1>1 DEF StreamsSynced
<1>3. \A s \in Seq(ChildVersion) : s # <<>> /\ Synced(Store(s, v))
          => Store(s, v) = s /\ v = Current(s)
  BY SyncedStore
<1>4. Store(children[o], v) = children[o] /\ v = Current(children[o])
  BY <1>2, <1>3, ChildFacts DEF TypeOK
<1> QED
  BY <1>1, <1>4 DEF ChildCurrent

LEMMA SyncedKsWrite ==
    ASSUME TypeOK, StreamsSynced', NEW v \in KsVersion, kubeService' = Store(kubeService, v)
    PROVE  kubeService' = kubeService /\ v = KsCurrent
  BY SyncedStore DEF TypeOK, KubeServiceOK, StreamsSynced, KsCurrent

(* In calm the cache shows what is stored. *)
LEMMA CalmCached ==
    ASSUME TypeOK, StreamsSynced
    PROVE  /\ Cached(kubeService) = KsCurrent
           /\ \A o \in Child : ChildCached(o) = ChildCurrent(o)
<1>1. Cached(kubeService) = KsCurrent
  BY StreamEnds DEF TypeOK, KubeServiceOK, StreamsSynced, KsCurrent
<1>2. \A s \in Seq(ChildVersion) : s # <<>> /\ Synced(s) => Cached(s) = Current(s)
  BY StreamEnds
<1> QED
  BY <1>1, <1>2, ChildFacts DEF StreamsSynced, ChildCached, ChildCurrent, TypeOK

-----------------------------------------------------------------------------
(* A step into calm either starts a pass or changes no object. *)

Still == ~dirty /\ ~delayed /\ UNCHANGED <<kubeService, children>>

LEMMA CalmStatus ==
    ASSUME TypeOK, Calm', EtcdStatus \/ KasStatus \/ KcmStatus \/ KsStatus
    PROVE  Still
<1>1. UNCHANGED <<children, dirty>>
  BY DEF EtcdStatus, KasStatus, KcmStatus, KsStatus
<1>2. ~delayed
  BY DEF EtcdStatus, KasStatus, KcmStatus, KsStatus, WaitForDeletion, SkipMissing,
     UpdateEtcdCondition, UpdateKasCondition, UpdateKcmCondition, Goto, Requeue, Calm
<1>3. mem.conds \in [ConditionType -> ConditionStatus]
  BY DEF TypeOK, OperatorOK
<1>4. \/ UNCHANGED kubeService
      \/ \E conds \in [ConditionType -> ConditionStatus], r \in Response : StatusUpdate(conds, r)
  <2>1. \A next : \A o \in Child : WaitForDeletion(o) \/ SkipMissing(o, next) =>
            UNCHANGED kubeService
    BY DEF WaitForDeletion, SkipMissing
  <2>2. /\ SetConditionByType(mem.conds, "etcd", EtcdJudged)
             \in [ConditionType -> ConditionStatus]
        /\ \A t \in {"kas", "kcm"} :
             SetConditionByType(mem.conds, t, DeploymentAvailable(ChildCached(t)))
                 \in [ConditionType -> ConditionStatus]
        /\ SetConditionByType(mem.conds, "ks", KubeServiceAvailable(mem.conds))
             \in [ConditionType -> ConditionStatus]
    BY <1>3, ConditionTypes DEF ConditionType, Child, ConditionStatus
  <2> QED
    BY <2>1, <2>2 DEF EtcdStatus, KasStatus, KcmStatus, KsStatus, UpdateEtcdCondition,
       UpdateKasCondition, UpdateKcmCondition, Child
<1>5. UNCHANGED kubeService
  <2>1. ASSUME NEW conds \in [ConditionType -> ConditionStatus], NEW r \in Response,
               StatusUpdate(conds, r)
        PROVE  UNCHANGED kubeService
    <3>1. [KsCurrent EXCEPT !.conds = conds] \in KsVersion
      BY KsFacts DEF TypeOK, KsVersion
    <3> QED
      BY <2>1, <3>1, SyncedKsWrite DEF StatusUpdate, Calm, StreamsSynced
  <2> QED
    BY <1>4, <2>1
<1> QED
  BY <1>1, <1>2, <1>5 DEF Still, Calm

LEMMA CalmApply ==
    ASSUME TypeOK, Calm', ApplyEtcd \/ ApplyKas \/ ApplyKcm
    PROVE  Still
<1>1. UNCHANGED <<kubeService, dirty>>
  BY DEF ApplyEtcd, ApplyKas, ApplyKcm
<1>2. ~delayed
  BY DEF ApplyEtcd, ApplyKas, ApplyKcm, EtcdGate, KasGate, Done, Goto, Requeue, Calm
<1>3. UNCHANGED children \/ \E o \in Child : PutChild(o, Wanted(o))
  BY DEF ApplyEtcd, ApplyKas, ApplyKcm, ApplyChild, Child
<1> QED
  BY <1>1, <1>2, <1>3, WantedType, SyncedPut DEF Still, Calm, StreamsSynced

LEMMA CalmWorld ==
    ASSUME TypeOK, Calm', NEW o \in Child,
           \/ UserDeletesChild(o) \/ UserEditsDeployment(o) \/ StatusChanges(o)
           \/ BecomesUp(o) \/ Finalized(o) \/ Collected(o)
    PROVE  Still /\ UNCHANGED <<pc, mem>>
<1>1. PICK v \in ChildVersion : ForeignChildWrite(o, v)
  BY ForeignWrites
<1> QED
  BY <1>1, SyncedPut DEF ForeignChildWrite, Still, Calm, StreamsSynced, queue

LEMMA CalmService ==
    ASSUME TypeOK, Calm', UserEditsSpec \/ UserDeletesKs \/ KsFinalized
    PROVE  /\ Still /\ pc' = pc
           /\ mem'.image = mem.image /\ mem'.conds = mem.conds
<1>1. KsCurrent \in KsVersion
  BY KsFacts DEF TypeOK
<1>2. /\ \A image \in Images : [KsCurrent EXCEPT !.image = image] \in KsVersion
      /\ [KsCurrent EXCEPT !.deleting = TRUE] \in KsVersion
      /\ [KsCurrent EXCEPT !.exists = FALSE] \in KsVersion
  BY <1>1 DEF KsVersion
<1>3. PICK v \in KsVersion : ForeignKsWrite(v)
  BY <1>2 DEF UserEditsSpec, UserDeletesKs, KsFinalized
<1>4. mem'.image = mem.image /\ mem'.conds = mem.conds
  BY <1>3 DEF ForeignKsWrite, TypeOK, OperatorOK
<1> QED
  BY <1>3, <1>4, SyncedKsWrite DEF ForeignKsWrite, Still, Calm, StreamsSynced, queue

LEMMA StillCalm ==
    ASSUME TypeOK, Calm', Still
    PROVE  /\ Calm /\ StreamsSynced
           /\ KsCurrent' = KsCurrent /\ KsLive' = KsLive
           /\ \A o \in Child : ChildCurrent(o)' = ChildCurrent(o)
  BY DEF Still, Calm, StreamsSynced, KsCurrent, KsLive, ChildCurrent

(* A step that leaves the objects, the pass and what it carries as they are. *)
LEMMA WakeupKept ==
    ASSUME TypeOK, WakeupInv, Calm', Still, pc' = pc,
           mem'.image = mem.image, mem'.conds = mem.conds
    PROVE  WakeupInv'
<1>1. /\ Calm
      /\ KsCurrent' = KsCurrent /\ KsLive' = KsLive
      /\ \A o \in Child : ChildCurrent(o)' = ChildCurrent(o)
  BY StillCalm
<1>2. QuiescentConverged'
  BY <1>1 DEF WakeupInv, QuiescentConverged, Quiescent, IsUp, Child
<1>3. pc # "idle" => PassCurrent'
  BY <1>1 DEF WakeupInv, PassCurrent, Judged, IsUp, KubeServiceAvailable, Child
<1> QED
  BY <1>2, <1>3 DEF WakeupInv

-----------------------------------------------------------------------------
(* The steps of a pass. *)

(* What the conditions say after one of them was set. *)
LEMMA SetFacts ==
    ASSUME TypeOK, NEW t \in ConditionType, NEW x
    PROVE  LET conds == SetConditionByType(mem.conds, t, x) IN
           /\ conds[t] = x
           /\ \A p \in ConditionType : p # t => conds[p] = mem.conds[p]
  BY DEF TypeOK, OperatorOK, SetConditionByType

(* The status of an existing workload that a pass in calm reads is the stored one. *)
LEMMA JudgementCurrent ==
    ASSUME TypeOK, StreamsSynced
    PROVE  /\ ChildCurrent("etcd").exists =>
                  (EtcdJudged = "True" <=> IsUp("etcd", ChildCurrent("etcd")))
           /\ \A o \in {"kas", "kcm"} : ChildCurrent(o).exists =>
                  (DeploymentAvailable(ChildCached(o)) = "True" <=> IsUp(o, ChildCurrent(o)))
<1>1. \A o \in Child : ChildCached(o) = ChildCurrent(o) /\ ChildCurrent(o) \in ChildVersion
  BY CalmCached, ChildFacts DEF TypeOK
<1>2. ChildCurrent("etcd").exists =>
          (EtcdJudged = "True" <=> IsUp("etcd", ChildCurrent("etcd")))
  BY <1>1 DEF EtcdJudged, EtcdAvailable, IsUp, Child, ChildVersion
<1>3. \A o \in {"kas", "kcm"} : ChildCurrent(o).exists =>
          (DeploymentAvailable(ChildCached(o)) = "True" <=> IsUp(o, ChildCurrent(o)))
  BY <1>1 DEF DeploymentAvailable, IsDeploymentUp, IsUp, Child, ChildVersion
<1> QED
  BY <1>2, <1>3

(* A status step that goes on has judged its workload and kept the rest. *)
JudgedStep(o) ==
    /\ mem'.image = mem.image
    /\ \A p \in ConditionType : p # o => mem'.conds[p] = mem.conds[p]
    /\ Judged(o)'

LEMMA SkipJudges ==
    ASSUME TypeOK, Calm', Still, NEW o \in Child, NEW next, SkipMissing(o, next)
    PROVE  JudgedStep(o)
<1>1. ~ChildCurrent(o)'.exists
  BY StillCalm, CalmCached DEF SkipMissing
<1> QED
  BY <1>1 DEF SkipMissing, JudgedStep, Judged

LEMMA UpdateJudges ==
    ASSUME TypeOK, Calm', Still, NEW o \in Child, NEW x \in ConditionStatus, NEW r \in Response,
           ChildCurrent(o).exists => (x = "True" <=> IsUp(o, ChildCurrent(o))),
           mem' = AfterUpdate(SetConditionByType(mem.conds, o, x), r)
    PROVE  JudgedStep(o)
<1> DEFINE conds == SetConditionByType(mem.conds, o, x)
<1>1. o \in ConditionType
  BY DEF ConditionType
<1>2. conds \in [ConditionType -> ConditionStatus]
  BY <1>1, ConditionTypes DEF TypeOK, OperatorOK, SetConditionByType
<1>3. mem'.image = mem.image /\ mem'.conds = conds
  BY <1>2, AfterUpdateType
<1>4. conds[o] = x /\ \A p \in ConditionType : p # o => conds[p] = mem.conds[p]
  BY <1>1, SetFacts
<1>5. ChildCurrent(o)' = ChildCurrent(o)
  BY StillCalm
<1> HIDE DEF conds
<1>6. Judged(o)'
  BY <1>3, <1>4, <1>5 DEF Judged, IsUp
<1> QED
  BY <1>3, <1>4, <1>6 DEF JudgedStep

LEMMA StatusJudges ==
    ASSUME TypeOK, Calm', Still
    PROVE  /\ EtcdStatus => JudgedStep("etcd") /\ pc' \in {"EtcdDelete", "KasStatus"}
           /\ KasStatus => JudgedStep("kas") /\ pc' = "KcmStatus"
           /\ KcmStatus => JudgedStep("kcm") /\ pc' = "KsStatus"
<1>1. \A o : ~WaitForDeletion(o)
  BY DEF WaitForDeletion, Requeue, Calm
<1>2. StreamsSynced
  BY StillCalm
<1>3. ASSUME EtcdStatus
      PROVE  JudgedStep("etcd") /\ pc' \in {"EtcdDelete", "KasStatus"}
  <2>1. CASE SkipMissing("etcd", "KasStatus")
    BY <2>1, SkipJudges DEF SkipMissing, Goto, Child
  <2>2. CASE UpdateEtcdCondition
    <3>1. PICK r \in Response :
              /\ mem' = AfterUpdate(SetConditionByType(mem.conds, "etcd", EtcdJudged), r)
              /\ pc' \in {"EtcdDelete", "KasStatus"}
      BY <2>2 DEF UpdateEtcdCondition, Goto, Requeue, Calm
    <3>2. EtcdJudged \in ConditionStatus
      BY DEF EtcdJudged, EtcdAvailable, ConditionStatus
    <3> QED
      BY <1>2, <3>1, <3>2, JudgementCurrent, UpdateJudges DEF Child
  <2> QED
    BY <1>1, <1>3, <2>1, <2>2 DEF EtcdStatus
<1>4. ASSUME KasStatus
      PROVE  JudgedStep("kas") /\ pc' = "KcmStatus"
  <2>1. CASE SkipMissing("kas", "KcmStatus")
    BY <2>1, SkipJudges DEF SkipMissing, Goto, Child
  <2>2. CASE UpdateKasCondition
    <3>1. PICK r \in Response :
              /\ mem' = AfterUpdate(SetConditionByType(mem.conds, "kas",
                                        DeploymentAvailable(ChildCached("kas"))), r)
              /\ pc' = "KcmStatus"
      BY <2>2 DEF UpdateKasCondition, Goto
    <3>2. DeploymentAvailable(ChildCached("kas")) \in ConditionStatus
      BY DEF DeploymentAvailable, ConditionStatus
    <3> QED
      BY <1>2, <3>1, <3>2, JudgementCurrent, UpdateJudges DEF Child
  <2> QED
    BY <1>1, <1>4, <2>1, <2>2 DEF KasStatus
<1>5. ASSUME KcmStatus
      PROVE  JudgedStep("kcm") /\ pc' = "KsStatus"
  <2>1. CASE SkipMissing("kcm", "KsStatus")
    BY <2>1, SkipJudges DEF SkipMissing, Goto, Child
  <2>2. CASE UpdateKcmCondition
    <3>1. PICK r \in Response :
              /\ mem' = AfterUpdate(SetConditionByType(mem.conds, "kcm",
                                        DeploymentAvailable(ChildCached("kcm"))), r)
              /\ pc' = "KsStatus"
      BY <2>2 DEF UpdateKcmCondition, Goto, Requeue, Calm
    <3>2. DeploymentAvailable(ChildCached("kcm")) \in ConditionStatus
      BY DEF DeploymentAvailable, ConditionStatus
    <3> QED
      BY <1>2, <3>1, <3>2, JudgementCurrent, UpdateJudges DEF Child
  <2> QED
    BY <1>1, <1>5, <2>1, <2>2 DEF KcmStatus
<1> QED
  BY <1>3, <1>4, <1>5

(* The Available condition is written with what the workloads' conditions say. *)
LEMMA KsStatusWrites ==
    ASSUME TypeOK, Calm', Still, KsStatus
    PROVE  /\ pc' = "ApplyEtcd" /\ mem'.image = mem.image
           /\ \A o \in Child : mem'.conds[o] = mem.conds[o]
           /\ KsCurrent.conds = mem'.conds
           /\ mem'.conds["ks"] = KubeServiceAvailable(mem'.conds)
<1> DEFINE conds == SetConditionByType(mem.conds, "ks", KubeServiceAvailable(mem.conds))
<1>1. conds \in [ConditionType -> ConditionStatus]
  BY ConditionTypes DEF TypeOK, OperatorOK, ConditionType, ConditionStatus
<1>2. /\ conds["ks"] = KubeServiceAvailable(mem.conds)
      /\ \A o \in Child : conds[o] = mem.conds[o]
  BY SetFacts DEF ConditionType, Child
<1>3. KubeServiceAvailable(conds) = KubeServiceAvailable(mem.conds)
  BY <1>2 DEF KubeServiceAvailable
<1>4. PICK r \in Response :
          /\ StatusUpdate(conds, r) /\ Acknowledged(r)
          /\ mem' = AfterUpdate(conds, r)
          /\ pc' = "ApplyEtcd"
  BY DEF KsStatus, Goto, Requeue, Calm
<1> HIDE DEF conds
<1>5. mem'.image = mem.image /\ mem'.conds = conds
  BY <1>1, <1>4, AfterUpdateType
<1>6. KsCurrent.conds = conds
  <2> DEFINE v == [KsCurrent EXCEPT !.conds = conds]
  <2>1. v \in KsVersion /\ v.conds = conds
    BY <1>1, KsFacts DEF TypeOK, KsVersion
  <2>2. kubeService' = Store(kubeService, v)
    BY <1>4 DEF StatusUpdate, Acknowledged, Committed
  <2> HIDE DEF v
  <2> QED
    BY <2>1, <2>2, SyncedKsWrite DEF Calm, StreamsSynced
<1> QED
  BY <1>2, <1>3, <1>4, <1>5, <1>6

(* A child that was applied and did not change is there as it was wanted. *)
LEMMA AppliedExists ==
    ASSUME TypeOK, Calm', Still, NEW o \in Child, NEW plan, NEW r \in Response,
           ApplyChild(o, plan, r), Applied(o, r)
    PROVE  /\ ChildCurrent(o).exists
           /\ o # "etcd" => ChildCurrent(o).image = mem.image
<1>1. ChildCurrent(o) \in ChildVersion /\ ChildCached(o) \in ChildVersion
  BY ChildFacts DEF TypeOK
<1>2. PutChild(o, Wanted(o))
  BY DEF ApplyChild, Applied
<1>3. children' = children /\ Wanted(o) = ChildCurrent(o)
  BY <1>2, WantedType, SyncedPut DEF Calm, StreamsSynced
<1>4. ChildCached(o) = ChildCurrent(o)
  BY StillCalm, CalmCached
<1>5. \A image : Created(ChildCurrent(o), image) # ChildCurrent(o)
  <2>1. \A image : Created(ChildCurrent(o), image).uid = ChildCurrent(o).uid + 1
    BY DEF Created, NeverCreated
  <2>2. ChildCurrent(o).uid \in Nat
    BY <1>1 DEF ChildVersion
  <2>3. ChildCurrent(o).uid + 1 # ChildCurrent(o).uid
    BY <2>2
  <2> QED
    BY <2>1, <2>3
<1>6. ChildCurrent(o).exists
  BY <1>3, <1>4, <1>5 DEF Wanted
<1>7. o # "etcd" => ChildCurrent(o).image = mem.image
  <2>1. [ChildCurrent(o) EXCEPT !.image = mem.image].image = mem.image
    BY <1>1 DEF ChildVersion
  <2> QED
    BY <1>3, <1>4, <1>6, <2>1 DEF Wanted
<1> QED
  BY <1>6, <1>7

(* A pass begun in calm read the service and knows nothing yet. *)
LEMMA StartReads ==
    ASSUME TypeOK, Start, Calm'
    PROVE  WakeupInv'
<1>1. UNCHANGED <<kubeService, children>>
  BY DEF Start, world
<1>2. Cached(kubeService) = KsCurrent
  <2>1. StreamsSynced
    BY <1>1 DEF Calm, StreamsSynced
  <2> QED
    BY <2>1, CalmCached
<1>3. KsCurrent' = KsCurrent
  BY <1>1 DEF KsCurrent
<1>4. CASE KsLive
  <2>1. pc' = "EtcdStatus" /\ mem'.image = KsCurrent.image
    BY <1>2, <1>4 DEF Start, Goto, KsLive
  <2> QED
    BY <1>3, <1>4, <2>1 DEF WakeupInv, PassCurrent, QuiescentConverged, Quiescent, KsLive
<1>5. CASE ~KsLive
  <2>1. pc' = "idle"
    BY <1>2, <1>5 DEF Start, Done, KsLive
  <2> QED
    BY <1>3, <1>5, <2>1 DEF WakeupInv, QuiescentConverged, KsLive
<1> QED
  BY <1>4, <1>5

LEMMA StatusWakes ==
    ASSUME TypeOK, Calm', Still, PassCurrent,
           EtcdStatus \/ KasStatus \/ KcmStatus \/ KsStatus
    PROVE  WakeupInv'
<1>1. /\ KsCurrent' = KsCurrent /\ KsLive' = KsLive
      /\ \A o \in Child : ChildCurrent(o)' = ChildCurrent(o)
  BY StillCalm
<1>2. ASSUME NEW o \in Child, JudgedStep(o), NEW p \in Child \ {o}, Judged(p)
      PROVE  Judged(p)'
  BY <1>1, <1>2 DEF JudgedStep, Judged, IsUp, ConditionType
<1>3. CASE EtcdStatus
  <2>1. JudgedStep("etcd") /\ pc' \in {"EtcdDelete", "KasStatus"}
    BY <1>3, StatusJudges
  <2> QED
    BY <1>1, <2>1 DEF JudgedStep, WakeupInv, PassCurrent, QuiescentConverged, Quiescent
<1>4. CASE KasStatus
  <2>1. JudgedStep("kas") /\ pc' = "KcmStatus" /\ pc = "KasStatus"
    BY <1>4, StatusJudges DEF KasStatus
  <2>2. Judged("etcd")'
    BY <1>2, <2>1 DEF PassCurrent, Child
  <2> QED
    BY <1>1, <2>1, <2>2 DEF JudgedStep, WakeupInv, PassCurrent, QuiescentConverged, Quiescent
<1>5. CASE KcmStatus
  <2>1. JudgedStep("kcm") /\ pc' = "KsStatus" /\ pc = "KcmStatus"
    BY <1>5, StatusJudges DEF KcmStatus
  <2>2. Judged("etcd")' /\ Judged("kas")'
    BY <1>2, <2>1 DEF PassCurrent, Child
  <2> QED
    BY <1>1, <2>1, <2>2 DEF JudgedStep, WakeupInv, PassCurrent, QuiescentConverged, Quiescent
<1>6. CASE KsStatus
  <2>1. /\ pc' = "ApplyEtcd" /\ mem'.image = mem.image
        /\ \A o \in Child : mem'.conds[o] = mem.conds[o]
        /\ KsCurrent.conds = mem'.conds
        /\ mem'.conds["ks"] = KubeServiceAvailable(mem'.conds)
    BY <1>6, KsStatusWrites
  <2>2. Judged("etcd") /\ Judged("kas") /\ Judged("kcm")
    BY <1>6 DEF KsStatus, PassCurrent
  <2>3. Judged("etcd")' /\ Judged("kas")' /\ Judged("kcm")'
    BY <1>1, <2>1, <2>2 DEF Judged, IsUp, Child
  <2>4. KubeServiceAvailable(mem.conds)' = KubeServiceAvailable(mem'.conds)
    BY DEF KubeServiceAvailable
  <2> QED
    BY <1>1, <2>1, <2>3, <2>4 DEF WakeupInv, PassCurrent, QuiescentConverged, Quiescent
<1> QED
  BY <1>3, <1>4, <1>5, <1>6

(* Where a pass in calm ends, the service is settled. *)
LEMMA ApplyWakes ==
    ASSUME TypeOK, Calm', Still, PassCurrent, GatesPassed,
           ApplyEtcd \/ ReleaseImage \/ ApplyKas \/ ApplyKcm
    PROVE  WakeupInv'
<1>1. /\ Calm
      /\ KsCurrent' = KsCurrent /\ KsLive' = KsLive
      /\ \A o \in Child : ChildCurrent(o)' = ChildCurrent(o)
  BY StillCalm
<1>2. /\ KsLive /\ mem.image = KsCurrent.image
      /\ KsCurrent.conds = mem.conds /\ mem.conds["ks"] = KubeServiceAvailable(mem.conds)
      /\ Judged("etcd") /\ Judged("kas") /\ Judged("kcm")
  BY DEF PassCurrent, ApplyEtcd, ReleaseImage, ApplyKas, ApplyKcm
<1>3. ASSUME UNCHANGED mem, pc' \in {"ReleaseImage", "ApplyKas", "ApplyKcm"},
             ChildCurrent("etcd").exists,
             pc' = "ApplyKcm" => /\ ChildCurrent("kas").exists
                                 /\ ChildCurrent("kas").image = mem.image
      PROVE  WakeupInv'
  <2>1. Judged("etcd")' /\ Judged("kas")' /\ Judged("kcm")'
    BY <1>1, <1>2, <1>3 DEF Judged, IsUp, Child
  <2> QED
    BY <1>1, <1>2, <1>3, <2>1 DEF WakeupInv, PassCurrent, QuiescentConverged, Quiescent,
       KubeServiceAvailable, Child
<1>4. KsCurrent.conds["ks"] = "True" <=> \A o \in Child : mem.conds[o] = "True"
  BY <1>2 DEF KubeServiceAvailable
<1>5. ASSUME pc' = "idle",
             (KsCurrent.conds["ks"] = "True") <=> \A o \in Child : IsUp(o, ChildCurrent(o)),
             IsUp("etcd", ChildCurrent("etcd")),
             ChildCurrent("kas").exists /\ ChildCurrent("kas").image = mem.image,
             IsUp("kas", ChildCurrent("kas")) =>
                 ChildCurrent("kcm").exists /\ ChildCurrent("kcm").image = mem.image
      PROVE  WakeupInv'
  BY <1>1, <1>2, <1>5 DEF WakeupInv, QuiescentConverged, IsUp, Child
<1>6. CASE ApplyEtcd
  <2>1. PICK r \in Response : ApplyChild("etcd", EtcdPlan, r) /\ Applied("etcd", r) /\ EtcdGate
    BY <1>6 DEF ApplyEtcd, Requeue, Calm
  <2>2. ChildCurrent("etcd").exists
    BY <2>1, AppliedExists DEF Child
  <2>3. UNCHANGED mem /\ pc' = "ReleaseImage"
    BY <2>1 DEF EtcdGate, Goto, Requeue, Calm
  <2> QED
    BY <1>3, <2>2, <2>3
<1>7. CASE ReleaseImage
  <2>1. UNCHANGED mem /\ pc' = "ApplyKas" /\ ChildCurrent("etcd").exists
    BY <1>7 DEF ReleaseImage, Goto, Requeue, Calm, PassCurrent
  <2> QED
    BY <1>3, <2>1
<1>8. CASE ApplyKas
  <2>1. PICK r \in Response : ApplyChild("kas", KasPlan, r) /\ Applied("kas", r) /\ KasGate
    BY <1>8 DEF ApplyKas, Requeue, Calm
  <2>2. ChildCurrent("kas").exists /\ ChildCurrent("kas").image = mem.image
    BY <2>1, AppliedExists DEF Child
  <2>3. ChildCurrent("etcd").exists /\ mem.conds["etcd"] = "True"
    BY <1>8 DEF ApplyKas, PassCurrent, GatesPassed
  <2>4. CASE mem.conds["kas"] = "True"
    <3>1. UNCHANGED mem /\ pc' = "ApplyKcm"
      BY <2>1, <2>4 DEF KasGate, Goto
    <3> QED
      BY <1>3, <2>2, <2>3, <3>1
  <2>5. CASE mem.conds["kas"] # "True"
    <3>1. pc' = "idle"
      BY <2>1, <2>5 DEF KasGate, Done
    <3>2. ~IsUp("kas", ChildCurrent("kas")) /\ IsUp("etcd", ChildCurrent("etcd"))
      BY <1>2, <2>2, <2>3, <2>5 DEF Judged
    <3>3. "kas" \in Child
      BY DEF Child
    <3> QED
      BY <1>4, <1>5, <2>2, <2>5, <3>1, <3>2, <3>3
  <2> QED
    BY <2>4, <2>5
<1>9. CASE ApplyKcm
  <2>1. PICK r \in Response : ApplyChild("kcm", KcmPlan, r) /\ Applied("kcm", r)
    BY <1>9 DEF ApplyKcm, Requeue, Calm
  <2>2. ChildCurrent("kcm").exists /\ ChildCurrent("kcm").image = mem.image
    BY <2>1, AppliedExists DEF Child
  <2>3. /\ ChildCurrent("etcd").exists /\ mem.conds["etcd"] = "True"
        /\ ChildCurrent("kas").exists /\ ChildCurrent("kas").image = mem.image
    BY <1>9 DEF ApplyKcm, PassCurrent, GatesPassed
  <2>4. pc' = "idle"
    BY <1>9 DEF ApplyKcm, Done, Requeue
  <2>5. \A o \in Child : mem.conds[o] = "True" <=> IsUp(o, ChildCurrent(o))
    BY <1>2, <2>2, <2>3 DEF Judged, Child
  <2>6. IsUp("etcd", ChildCurrent("etcd"))
    BY <2>3, <2>5 DEF Child
  <2> QED
    BY <1>4, <1>5, <2>2, <2>3, <2>4, <2>5, <2>6
<1> QED
  BY <1>6, <1>7, <1>8, <1>9

LEMMA WakeupStep ==
    ASSUME TypeOK, GatesPassed, WakeupInv, [Next]_vars
    PROVE  WakeupInv'
<1>1. CASE ~Calm'
  BY <1>1 DEF WakeupInv, QuiescentConverged, Quiescent
<1>2. CASE Calm' /\ Start
  BY <1>2, StartReads
<1>3. CASE Calm' /\ (EtcdStatus \/ KasStatus \/ KcmStatus \/ KsStatus)
  <2>1. Still /\ Calm
    BY <1>3, CalmStatus, StillCalm
  <2>2. PassCurrent
    BY <1>3, <2>1 DEF WakeupInv, EtcdStatus, KasStatus, KcmStatus, KsStatus
  <2> QED
    BY <1>3, <2>1, <2>2, StatusWakes
<1>4. CASE Calm' /\ (ApplyEtcd \/ ReleaseImage \/ ApplyKas \/ ApplyKcm)
  <2>1. Still
    <3>1. CASE ReleaseImage
      BY <1>4, <3>1 DEF ReleaseImage, Goto, Requeue, Calm, Still, world
    <3> QED
      BY <1>4, <3>1, CalmApply
  <2>2. PassCurrent
    BY <1>4, <2>1, StillCalm DEF WakeupInv, ApplyEtcd, ReleaseImage, ApplyKas, ApplyKcm
  <2> QED
    BY <1>4, <2>1, <2>2, ApplyWakes
<1>5. CASE EtcdDelete \/ Restart \/ DeliverKs \/ DelayExpires \/ Resync
  BY <1>1, <1>5 DEF EtcdDelete, Restart, DeliverKs, DelayExpires, Resync, Requeue, Calm
<1>6. ASSUME NEW o \in Child, DeliverChild(o) PROVE WakeupInv'
  <2>1. Queues(o)
    BY DEF Queues, Owned, Child
  <2> QED
    BY <1>1, <1>6, <2>1 DEF DeliverChild, Calm
<1>7. ASSUME NEW o \in Child, Calm',
             \/ UserDeletesChild(o) \/ UserEditsDeployment(o) \/ StatusChanges(o)
             \/ BecomesUp(o) \/ Finalized(o) \/ Collected(o)
      PROVE  WakeupInv'
  BY <1>7, CalmWorld, WakeupKept
<1>8. CASE Calm' /\ (UserEditsSpec \/ UserDeletesKs \/ KsFinalized)
  BY <1>8, CalmService, WakeupKept
<1>9. CASE Calm' /\ (BootstrapTimeout \/ PodTerminates \/ PodsReplaced \/ UNCHANGED vars)
  <2>1. Still /\ UNCHANGED <<pc, mem>>
    BY <1>9 DEF BootstrapTimeout, PodTerminates, PodsReplaced, PodsRemoved, queue, vars,
       Calm, Still
  <2> QED
    BY <1>9, <2>1, WakeupKept
<1> QED
  BY <1>1, <1>2, <1>3, <1>4, <1>5, <1>6, <1>7, <1>8, <1>9
     DEF Next, Controller, Reconcile, Disruption, Cluster

(* Nothing due, nothing on its way, no pass running: then what the service says of
   its workloads is true, and they are what the user asked for as far as they may
   be.  Whatever else could happen raises an event or a retry. *)
THEOREM NoLostWakeup == SafetySpec => []QuiescentConverged
<1>1. Init => WakeupInv
  BY DEF Init, WakeupInv, QuiescentConverged, Quiescent, Calm
<1>2. TypeOK /\ RolloutInv /\ WakeupInv /\ [Next]_vars => WakeupInv'
  BY WakeupStep DEF RolloutInv
<1>3. WakeupInv => QuiescentConverged
  BY DEF WakeupInv
<1> QED
  BY <1>1, <1>2, <1>3, TypeCorrect, RolloutInvariant, PTL DEF SafetySpec
=============================================================================
