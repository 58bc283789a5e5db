--------------------------- MODULE RolloutProofs ---------------------------
(* The staged rollout: Reconciler implements Rollout. *)
EXTENDS ReconcilerProofs

-----------------------------------------------------------------------------
(* What every step leaves alone. *)

(* The history only grows. *)
LEMMA HistoryGrows ==
    ASSUME TypeOK, [Next]_vars, NEW o \in Child, WasUp(o)
    PROVE  WasUp(o)'
<1>1. \A v : \A p \in Child : ForeignChildWrite(p, v) => WasUp(o)'
  BY DEF ForeignChildWrite, WasUp, TypeOK
<1>2. CASE UNCHANGED wasUp
  BY <1>2 DEF WasUp
<1>3. CASE Reconcile
  <2>1. UNCHANGED wasUp
    BY <1>3 DEF Reconcile, Start, EtcdStatus, EtcdDelete, KasStatus, KcmStatus, KsStatus,
       ApplyEtcd, ReleaseImage, ApplyKas, ApplyKcm, world
  <2> QED
    BY <1>2, <2>1
<1>4. CASE Controller
  <2>1. CASE ~Reconcile
    BY <1>2, <1>4, <2>1 DEF Controller, DeliverKs, DeliverChild, DelayExpires, world
  <2> QED
    BY <1>3, <2>1
<1>5. CASE \E p \in Child : \/ UserDeletesChild(p) \/ UserEditsDeployment(p)
                            \/ StatusChanges(p) \/ BecomesUp(p)
                            \/ Finalized(p) \/ Collected(p)
  BY <1>1, <1>5 DEF UserDeletesChild, UserEditsDeployment, StatusChanges, BecomesUp,
     Finalized, Collected
<1>6. CASE \/ Restart \/ UserEditsSpec \/ UserDeletesKs \/ KsFinalized
           \/ BootstrapTimeout \/ PodTerminates \/ PodsReplaced \/ Resync
  BY <1>2, <1>6 DEF Restart, UserEditsSpec, UserDeletesKs, KsFinalized, BootstrapTimeout,
     PodTerminates, PodsReplaced, PodsRemoved, Resync, ForeignKsWrite, world
<1> QED
  BY <1>2, <1>4, <1>5, <1>6 DEF Next, Disruption, Cluster, vars

(* A write that keeps the uid and claims nothing new, or creates what is due. *)
LEMMA ChildWriteProven ==
    ASSUME TypeOK, ChildrenProven, NEW o \in Child, NEW v \in ChildVersion, PutChild(o, v),
           \A p \in Child : WasUp(p) => WasUp(p)',
           IsUp(o, v) => WasUp(o)',
           v.exists => v.uid > 0,
           v.uid > 0 => Due(o)'
    PROVE  ChildrenProven'
<1>0. /\ children' = [children EXCEPT ![o] = Store(children[o], v)]
      /\ children \in [Child -> Seq(ChildVersion)]
  BY PutChildFacts DEF TypeOK, ChildrenOK
<1>1. ASSUME NEW p \in Child, p # o
      PROVE  children'[p] = children[p]
  BY <1>0, <1>1
<1>2. children'[o] = Store(children[o], v)
  BY <1>0
<1>3. /\ Current(Store(children[o], v)) = v
      /\ Versions(Store(children[o], v)) \subseteq Versions(children[o]) \cup {v}
  <2>1. \A s \in Seq(ChildVersion) : s # <<>> =>
            /\ Current(Store(s, v)) = v
            /\ Versions(Store(s, v)) \subseteq Versions(s) \cup {v}
    BY StoreFacts
  <2> QED
    BY <2>1, ChildFacts DEF TypeOK
<1>4. \A p \in Child : Due(p) => Due(p)'
  BY DEF Due, Child
<1>5. ASSUME NEW p \in Child, p # o
      PROVE  /\ \A w \in Versions(children[p])' :
                  (IsUp(p, w) => WasUp(p)') /\ (w.exists => w.uid > 0)
             /\ ChildCurrent(p)'.uid > 0 => Due(p)'
  BY <1>1, <1>4, <1>5 DEF ChildrenProven, ChildCurrent
<1>6. /\ \A w \in Versions(children[o])' :
           (IsUp(o, w) => WasUp(o)') /\ (w.exists => w.uid > 0)
      /\ ChildCurrent(o)'.uid > 0 => Due(o)'
  BY <1>2, <1>3 DEF ChildrenProven, ChildCurrent
<1>7. \A w : \A p \in Child : IsUp(p, w)' <=> IsUp(p, w)
  BY DEF IsUp
<1> QED
  BY <1>5, <1>6, <1>7 DEF ChildrenProven

-----------------------------------------------------------------------------
(* Each part of the invariant is kept. *)

(* The current version is among the versions, so it is proven too. *)
LEMMA CurrentProven ==
    ASSUME TypeOK, ChildrenProven, NEW o \in Child
    PROVE  /\ IsUp(o, ChildCurrent(o)) => WasUp(o)
           /\ ChildCurrent(o).exists => ChildCurrent(o).uid > 0
           /\ ChildCurrent(o).uid > 0 => Due(o)
           /\ IsUp(o, ChildCached(o)) => WasUp(o)
<1>1. ChildCurrent(o) \in Versions(children[o]) /\ ChildCached(o) \in Versions(children[o])
  BY ChildFacts, StreamEnds DEF ChildCurrent, ChildCached, TypeOK
<1> QED
  BY <1>1 DEF ChildrenProven

LEMMA ApplyProven ==
    ASSUME TypeOK, TypeOK', RolloutInv, ApplyEtcd \/ ApplyKas \/ ApplyKcm,
           \A p \in Child : WasUp(p) => WasUp(p)'
    PROVE  ChildrenProven'
<1>1. PICK o \in Child, plan \in {EtcdPlan, KasPlan, KcmPlan}, r \in Response :
          ApplyChild(o, plan, r) /\ Due(o)
  <2>1. CASE ApplyEtcd
    BY <2>1 DEF ApplyEtcd, Child, Due
  <2>2. CASE ApplyKas
    BY <2>2 DEF ApplyKas, Child, Due, RolloutInv, GatesPassed, ConditionsHonest, Honest
  <2>3. CASE ApplyKcm
    BY <2>3 DEF ApplyKcm, Child, Due, RolloutInv, GatesPassed, ConditionsHonest, Honest
  <2> QED
    BY <2>1, <2>2, <2>3
<1>2. Due(o)'
  BY <1>1 DEF Due, Child
<1>3. ChildCurrent(o) \in ChildVersion
  BY ChildFacts DEF TypeOK
<1>5. Wanted(o) \in ChildVersion
  BY WantedType
<1>6. /\ IsUp(o, Wanted(o)) => IsUp(o, ChildCurrent(o))
      /\ Wanted(o).exists => ChildCurrent(o).exists \/ Wanted(o).uid > 0
      /\ Wanted(o).uid = ChildCurrent(o).uid \/ Wanted(o).uid > 0
  <2>1. \A image : LET c == Created(ChildCurrent(o), image) IN ~c.available /\ c.uid > 0
    BY <1>3 DEF Created, NeverCreated, ChildVersion
  <2>2. \A image : LET c == [ChildCurrent(o) EXCEPT !.image = image] IN
                    /\ c.uid = ChildCurrent(o).uid /\ c.exists = ChildCurrent(o).exists
                    /\ c.available = ChildCurrent(o).available
                    /\ c.ready = ChildCurrent(o).ready
    BY <1>3 DEF ChildVersion
  <2> QED
    BY <2>1, <2>2 DEF Wanted, IsUp
<1>7. Wanted(o).exists => Wanted(o).uid > 0
  <2>1. \A image : LET c == [ChildCurrent(o) EXCEPT !.image = image] IN
                   /\ c.uid = ChildCurrent(o).uid /\ c.exists = ChildCurrent(o).exists
    BY <1>3 DEF ChildVersion
  <2>2. \A image : Created(ChildCurrent(o), image).uid > 0
    BY <1>3 DEF Created, NeverCreated, ChildVersion
  <2> QED
    BY <2>1, <2>2, CurrentProven DEF Wanted, RolloutInv
<1>8. CASE PutChild(o, Wanted(o))
  <2>1. IsUp(o, Wanted(o)) => WasUp(o)'
    BY <1>6, CurrentProven DEF RolloutInv
  <2> QED
    BY <1>2, <1>5, <1>7, <1>8, <2>1, ChildWriteProven DEF RolloutInv
<1>9. CASE UNCHANGED children
  BY <1>9 DEF RolloutInv, ChildrenProven, ChildCurrent, IsUp, Due, Child
<1> QED
  BY <1>1, <1>8, <1>9 DEF ApplyChild

LEMMA ForeignProven ==
    ASSUME TypeOK, ChildrenProven, NEW o \in Child,
           \A p \in Child : WasUp(p) => WasUp(p)',
           \/ UserDeletesChild(o) \/ UserEditsDeployment(o) \/ StatusChanges(o)
           \/ BecomesUp(o) \/ Finalized(o) \/ Collected(o)
    PROVE  ChildrenProven'
<1> DEFINE c == ChildCurrent(o)
<1>1. c \in ChildVersion
  BY ChildFacts DEF TypeOK
<1>2. PICK v \in ChildVersion :
          /\ ForeignChildWrite(o, v)
          /\ v.uid = c.uid
          /\ v.exists => c.exists
  <2> ChildrenOK
    BY DEF TypeOK
  <2>1. /\ Gone(c).uid = c.uid /\ ~Gone(c).exists
        /\ LET w == [c EXCEPT !.deleting = TRUE] IN w.uid = c.uid /\ w.exists = c.exists
        /\ \A image : LET w == [c EXCEPT !.image = image] IN w.uid = c.uid /\ w.exists = c.exists
        /\ \A available, ready :
             LET w == [c EXCEPT !.available = available, !.ready = ready] IN
             w.uid = c.uid /\ w.exists = c.exists
    BY <1>1 DEF ChildVersion, Gone, NeverCreated
  <2>2. Replicas(o) \in Nat /\ \A n \in 0 .. Replicas(o) : n \in Nat
    BY ReplicasAssumption DEF Replicas
  <2>3. CASE UserDeletesChild(o) \/ Finalized(o) \/ Collected(o)
    BY <2>1, <2>3, ChildVersions DEF UserDeletesChild, Finalized, Collected
  <2>4. CASE UserEditsDeployment(o)
    BY <2>1, <2>4, ChildVersions DEF UserEditsDeployment
  <2>5. CASE StatusChanges(o)
    BY <2>1, <2>2, <2>5, ChildVersions DEF StatusChanges
  <2>6. CASE BecomesUp(o)
    BY <2>1, <2>2, <2>6, ChildVersions DEF BecomesUp
  <2> QED
    BY <2>3, <2>4, <2>5, <2>6
<1> HIDE DEF c
<1>3. IsUp(o, v) => WasUp(o)'
  BY <1>2 DEF ForeignChildWrite, WasUp, TypeOK
<1>4. v.exists => v.uid > 0
  BY <1>2, CurrentProven DEF c
<1>5. v.uid > 0 => Due(o)'
  BY <1>2, CurrentProven DEF c, Due, Child
<1> QED
  BY <1>2, <1>3, <1>4, <1>5, ChildWriteProven DEF ForeignChildWrite

(* Steps that leave the children alone, or only show the cache more of them. *)
LEMMA SameChildrenProven ==
    ASSUME TypeOK, ChildrenProven, \A p \in Child : WasUp(p) => WasUp(p)',
           \A p \in Child : /\ Versions(children[p])' \subseteq Versions(children[p])
                            /\ ChildCurrent(p)' = ChildCurrent(p)
    PROVE  ChildrenProven'
  BY DEF ChildrenProven, Due, Child, IsUp

LEMMA DeleteProven ==
    ASSUME TypeOK, ChildrenProven, EtcdDelete, \A p \in Child : WasUp(p) => WasUp(p)'
    PROVE  ChildrenProven'
<1> DEFINE c == ChildCurrent("etcd")
<1> "etcd" \in Child
  BY DEF Child
<1>1. c \in ChildVersion
  BY ChildFacts DEF TypeOK
<1>2. /\ Gone(c) \in ChildVersion /\ ~Gone(c).exists
      /\ [c EXCEPT !.deleting = TRUE] \in ChildVersion
      /\ LET w == [c EXCEPT !.deleting = TRUE] IN
         w.uid = c.uid /\ w.exists = c.exists /\ w.available = c.available
  BY <1>1, ChildVersions DEF TypeOK, ChildVersion, Gone, NeverCreated
<1>3. c.exists => c.uid > 0
  BY CurrentProven
<1>4. IsUp("etcd", c) => WasUp("etcd")
  BY CurrentProven
<1>5. Due("etcd")'
  BY DEF Due
<1>6. CASE PutChild("etcd", Gone(c))
  <2>1. ~IsUp("etcd", Gone(c))
    BY <1>2 DEF IsUp
  <2> QED
    BY <1>2, <1>5, <1>6, <2>1, ChildWriteProven
<1>7. CASE PutChild("etcd", [c EXCEPT !.deleting = TRUE])
  <2> DEFINE w == [c EXCEPT !.deleting = TRUE]
  <2>1. w \in ChildVersion /\ w.uid = c.uid /\ w.exists = c.exists /\ w.available = c.available
    BY <1>2
  <2>2. PutChild("etcd", w)
    BY <1>7
  <2> HIDE DEF w
  <2>3. IsUp("etcd", w) => WasUp("etcd")'
    BY <1>4, <2>1 DEF IsUp
  <2> QED
    BY <1>3, <1>5, <2>1, <2>2, <2>3, ChildWriteProven
<1>8. CASE UNCHANGED children
  BY <1>8, SameChildrenProven DEF ChildCurrent
<1> QED
  BY <1>6, <1>7, <1>8 DEF EtcdDelete

LEMMA ShownProven ==
    ASSUME TypeOK, ChildrenProven, \A p \in Child : WasUp(p) => WasUp(p)',
           Restart \/ \E o \in Child : DeliverChild(o)
    PROVE  ChildrenProven'
<1>1. ASSUME NEW p \in Child
      PROVE  /\ Versions(children[p])' \subseteq Versions(children[p])
             /\ ChildCurrent(p)' = ChildCurrent(p)
  <2>1. \A s \in Seq(ChildVersion) : s # <<>> =>
            /\ Current(Relisted(s)) = Current(s)
            /\ Versions(Relisted(s)) \subseteq Versions(s)
    BY RelistFacts
  <2>2. \A s \in Seq(ChildVersion) : s # <<>> /\ ~Synced(s) =>
            /\ Current(Tail(s)) = Current(s)
            /\ Versions(Tail(s)) \subseteq Versions(s)
    BY DeliverFacts
  <2>3. children[p] \in Seq(ChildVersion) /\ children[p] # <<>>
    BY ChildFacts DEF TypeOK
  <2>4. CASE Restart
    <3>1. children'[p] = Relisted(children[p])
      BY <2>4 DEF Restart
    <3> QED
      BY <2>1, <2>3, <3>1 DEF ChildCurrent
  <2>5. ASSUME NEW o \in Child, DeliverChild(o)
        PROVE  /\ Versions(children[p])' \subseteq Versions(children[p])
               /\ ChildCurrent(p)' = ChildCurrent(p)
    <3>1. CASE p = o
      <4>1. children'[p] = Tail(children[p]) /\ ~Synced(children[p])
        BY <2>5, <3>1 DEF DeliverChild, TypeOK, ChildrenOK
      <4> QED
        BY <2>2, <2>3, <4>1 DEF ChildCurrent
    <3>2. CASE p # o
      <4>1. children'[p] = children[p]
        BY <2>5, <3>2 DEF DeliverChild, TypeOK, ChildrenOK
      <4> QED
        BY <4>1 DEF ChildCurrent
    <3> QED
      BY <3>1, <3>2
  <2> QED
    BY <2>4, <2>5
<1> QED
  BY <1>1, SameChildrenProven

LEMMA ChildrenStep ==
    ASSUME TypeOK, TypeOK', RolloutInv, [Next]_vars
    PROVE  ChildrenProven'
<1>1. \A p \in Child : WasUp(p) => WasUp(p)'
  BY HistoryGrows
<1>2. ChildrenProven
  BY DEF RolloutInv
<1>3. CASE UNCHANGED children
  BY <1>1, <1>2, <1>3, SameChildrenProven DEF ChildCurrent
<1>4. CASE ApplyEtcd \/ ApplyKas \/ ApplyKcm
  BY <1>1, <1>4, ApplyProven
<1>5. CASE EtcdDelete
  BY <1>1, <1>2, <1>5, DeleteProven
<1>6. CASE Restart \/ \E o \in Child : DeliverChild(o)
  BY <1>1, <1>2, <1>6, ShownProven
<1>7. CASE \E o \in Child : \/ UserDeletesChild(o) \/ UserEditsDeployment(o)
                            \/ StatusChanges(o) \/ BecomesUp(o)
                            \/ Finalized(o) \/ Collected(o)
  BY <1>1, <1>2, <1>7, ForeignProven
<1>8. CASE \/ Start \/ EtcdStatus \/ KasStatus \/ KcmStatus \/ KsStatus \/ ReleaseImage
           \/ DeliverKs \/ DelayExpires
  BY <1>3, <1>8 DEF Start, EtcdStatus, KasStatus, KcmStatus, KsStatus, ReleaseImage,
     DeliverKs, DelayExpires, world
<1>9. CASE \/ UserEditsSpec \/ UserDeletesKs \/ KsFinalized
           \/ BootstrapTimeout \/ PodTerminates \/ PodsReplaced \/ Resync
  BY <1>3, <1>9 DEF UserEditsSpec, UserDeletesKs, KsFinalized, BootstrapTimeout,
     PodTerminates, PodsReplaced, PodsRemoved, Resync, ForeignKsWrite, world
<1> QED
  BY <1>3, <1>4, <1>5, <1>6, <1>7, <1>8, <1>9
     DEF Next, Controller, Reconcile, Disruption, Cluster, vars

(* No step writes conditions that claim more than the history does. *)
LEMMA HonestConditions ==
    ASSUME TypeOK, RolloutInv
    PROVE  /\ ChildCached("etcd").exists =>
                  Honest(SetConditionByType(mem.conds, "etcd", EtcdJudged))
           /\ \A o \in {"kas", "kcm"} : ChildCached(o).exists =>
                  Honest(SetConditionByType(mem.conds, o, DeploymentAvailable(ChildCached(o))))
           /\ Honest(SetConditionByType(mem.conds, "ks", KubeServiceAvailable(mem.conds)))
<1>1. mem.conds \in [ConditionType -> ConditionStatus] /\ Honest(mem.conds)
  BY DEF TypeOK, OperatorOK, RolloutInv, ConditionsHonest
<1>2. \A o \in Child : IsUp(o, ChildCached(o)) => WasUp(o)
  BY CurrentProven DEF RolloutInv
<1>3. ChildCached("etcd").exists /\ EtcdJudged = "True" => WasUp("etcd")
  BY <1>2 DEF EtcdJudged, EtcdAvailable, IsUp, Child
<1>4. \A o \in {"kas", "kcm"} :
          ChildCached(o).exists /\ DeploymentAvailable(ChildCached(o)) = "True" => WasUp(o)
  BY <1>2 DEF DeploymentAvailable, IsDeploymentUp, IsUp, Child
<1>5. KubeServiceAvailable(mem.conds) = "True" => \A o \in Child : WasUp(o)
  BY <1>1 DEF KubeServiceAvailable, Honest
<1>6. ASSUME NEW t \in ConditionType, NEW x,
             t \in Child => (x = "True" => WasUp(t)),
             t = "ks" => (x = "True" => \A o \in Child : WasUp(o))
      PROVE  Honest(SetConditionByType(mem.conds, t, x))
  <2>1. \A p \in ConditionType :
            SetConditionByType(mem.conds, t, x)[p] = IF p = t THEN x ELSE mem.conds[p]
    BY <1>1 DEF SetConditionByType
  <2>2. Child \subseteq ConditionType /\ "ks" \in ConditionType /\ "ks" \notin Child
    BY DEF ConditionType, Child
  <2> QED
    BY <1>1, <1>6, <2>1, <2>2 DEF Honest
<1> QED
  BY <1>3, <1>4, <1>5, <1>6 DEF ConditionType, Child

LEMMA KsVersionsHonest ==
    ASSUME TypeOK, ConditionsHonest
    PROVE  /\ Honest(KsCurrent.conds) /\ Honest(Cached(kubeService).conds)
           /\ Honest(NoConditions)
<1>1. KsCurrent \in Versions(kubeService) /\ Cached(kubeService) \in Versions(kubeService)
  BY StreamEnds DEF TypeOK, KubeServiceOK, KsCurrent
<1>2. Honest(NoConditions)
  BY DEF Honest, NoConditions, ConditionType, Child
<1> QED
  BY <1>1, <1>2 DEF ConditionsHonest

(* A write whose conditions are honest keeps every version honest. *)
LEMMA KsWriteHonest ==
    ASSUME TypeOK, ConditionsHonest, NEW v \in KsVersion, Honest(v.conds),
           kubeService' = Store(kubeService, v)
    PROVE  \A w \in Versions(kubeService)' : Honest(w.conds)
<1>1. Versions(kubeService') \subseteq Versions(kubeService) \cup {v}
  BY StoreFacts DEF TypeOK, KubeServiceOK
<1> QED
  BY <1>1 DEF ConditionsHonest

(* Every way a step can change the service and the conditions of the pass. *)
StatusWrite ==
    \E conds \in [ConditionType -> ConditionStatus], r \in Response :
        /\ Honest(conds)
        /\ StatusUpdate(conds, r)
        /\ mem' = AfterUpdate(conds, r) \/ mem' = NoPass

LEMMA StatusStepShape ==
    ASSUME TypeOK, RolloutInv, EtcdStatus \/ KasStatus \/ KcmStatus \/ KsStatus
    PROVE  \/ StatusWrite
           \/ UNCHANGED kubeService /\ (mem' = mem \/ mem' = NoPass)
<1>1. mem.conds \in [ConditionType -> ConditionStatus]
  BY DEF TypeOK, OperatorOK
<1>2. \A next : \A o \in Child : WaitForDeletion(o) \/ SkipMissing(o, next) =>
          UNCHANGED kubeService /\ (mem' = mem \/ mem' = NoPass)
  BY DEF WaitForDeletion, SkipMissing, Requeue
<1>3. CASE UpdateEtcdCondition
  <2> DEFINE conds == SetConditionByType(mem.conds, "etcd", EtcdJudged)
  <2>1. conds \in [ConditionType -> ConditionStatus] /\ Honest(conds)
    BY <1>1, <1>3, ConditionTypes, HonestConditions
       DEF UpdateEtcdCondition, ConditionType, Child, ConditionStatus
  <2>2. \E r \in Response : StatusUpdate(conds, r)
                             /\ (mem' = AfterUpdate(conds, r) \/ mem' = NoPass)
    BY <1>3 DEF UpdateEtcdCondition, Requeue
  <2> QED
    BY <2>1, <2>2 DEF StatusWrite
<1>4. CASE UpdateKasCondition
  <2> DEFINE conds == SetConditionByType(mem.conds, "kas",
                                        DeploymentAvailable(ChildCached("kas")))
  <2>1. conds \in [ConditionType -> ConditionStatus] /\ Honest(conds)
    BY <1>1, <1>4, ConditionTypes, HonestConditions
       DEF UpdateKasCondition, ConditionType, Child, ConditionStatus
  <2>2. \E r \in Response : StatusUpdate(conds, r)
                             /\ (mem' = AfterUpdate(conds, r) \/ mem' = NoPass)
    BY <1>4 DEF UpdateKasCondition, Requeue
  <2> QED
    BY <2>1, <2>2 DEF StatusWrite
<1>5. CASE UpdateKcmCondition
  <2> DEFINE conds == SetConditionByType(mem.conds, "kcm",
                                        DeploymentAvailable(ChildCached("kcm")))
  <2>1. conds \in [ConditionType -> ConditionStatus] /\ Honest(conds)
    BY <1>1, <1>5, ConditionTypes, HonestConditions
       DEF UpdateKcmCondition, ConditionType, Child, ConditionStatus
  <2>2. \E r \in Response : StatusUpdate(conds, r)
                             /\ (mem' = AfterUpdate(conds, r) \/ mem' = NoPass)
    BY <1>5 DEF UpdateKcmCondition, Requeue
  <2> QED
    BY <2>1, <2>2 DEF StatusWrite
<1>6. CASE KsStatus
  <2> DEFINE conds == SetConditionByType(mem.conds, "ks", KubeServiceAvailable(mem.conds))
  <2>1. conds \in [ConditionType -> ConditionStatus] /\ Honest(conds)
    BY <1>1, ConditionTypes, HonestConditions DEF ConditionType, ConditionStatus
  <2>2. \E r \in Response : StatusUpdate(conds, r)
                             /\ (mem' = AfterUpdate(conds, r) \/ mem' = NoPass)
    BY <1>6 DEF KsStatus, Requeue
  <2> QED
    BY <2>1, <2>2 DEF StatusWrite
<1> QED
  BY <1>2, <1>3, <1>4, <1>5, <1>6 DEF EtcdStatus, KasStatus, KcmStatus, Child

LEMMA StatusWriteHonest ==
    ASSUME TypeOK, ConditionsHonest, StatusWrite, \A p \in Child : WasUp(p) = WasUp(p)'
    PROVE  ConditionsHonest'
<1>1. PICK conds \in [ConditionType -> ConditionStatus], r \in Response :
          /\ Honest(conds)
          /\ StatusUpdate(conds, r)
          /\ mem' = AfterUpdate(conds, r) \/ mem' = NoPass
  BY DEF StatusWrite
<1>2. /\ [KsCurrent EXCEPT !.conds = conds] \in KsVersion
      /\ [KsCurrent EXCEPT !.conds = conds].conds = conds
  BY KsFacts DEF TypeOK, KsVersion
<1>3. \A w \in Versions(kubeService)' : Honest(w.conds)
  BY <1>1, <1>2, KsWriteHonest DEF StatusUpdate, ConditionsHonest
<1>4. Honest(mem'.conds)
  BY <1>1, AfterUpdateType, KsVersionsHonest DEF NoPass
<1>5. \A c : Honest(c) => Honest(c)'
  BY DEF Honest
<1> QED
  BY <1>3, <1>4, <1>5 DEF ConditionsHonest

LEMMA ConditionsStep ==
    ASSUME TypeOK, RolloutInv, [Next]_vars
    PROVE  ConditionsHonest'
<1>1. \A c : Honest(c) => Honest(c)'
  BY HistoryGrows DEF Honest
<1>2. ConditionsHonest
  BY DEF RolloutInv
<1>3. Honest(KsCurrent.conds) /\ Honest(Cached(kubeService).conds) /\ Honest(NoConditions)
  BY <1>2, KsVersionsHonest
<1>4. CASE EtcdStatus \/ KasStatus \/ KcmStatus \/ KsStatus
  <2>1. \A p \in Child : WasUp(p) = WasUp(p)'
    BY <1>4 DEF EtcdStatus, KasStatus, KcmStatus, KsStatus, WasUp
  <2>2. CASE StatusWrite
    BY <1>2, <2>1, <2>2, StatusWriteHonest
  <2>3. CASE UNCHANGED kubeService /\ (mem' = mem \/ mem' = NoPass)
    BY <1>1, <1>2, <1>3, <2>3 DEF ConditionsHonest, NoPass
  <2> QED
    BY <1>4, <2>2, <2>3, StatusStepShape
<1>5. ASSUME NEW v \in KsVersion, v.conds = KsCurrent.conds, ForeignKsWrite(v)
      PROVE  ConditionsHonest'
  <2>1. \A w \in Versions(kubeService)' : Honest(w.conds)
    BY <1>2, <1>3, <1>5, KsWriteHonest DEF ForeignKsWrite
  <2>2. mem'.conds = mem.conds
    BY <1>5 DEF ForeignKsWrite, TypeOK, OperatorOK
  <2> QED
    BY <1>1, <1>2, <2>1, <2>2 DEF ConditionsHonest
<1>6. CASE UserEditsSpec \/ UserDeletesKs \/ KsFinalized
  <2>1. KsCurrent \in KsVersion
    BY KsFacts DEF TypeOK
  <2>2. /\ \A image \in Images : LET w == [KsCurrent EXCEPT !.image = image] IN
                                 w \in KsVersion /\ w.conds = KsCurrent.conds
        /\ LET w == [KsCurrent EXCEPT !.deleting = TRUE] IN
           w \in KsVersion /\ w.conds = KsCurrent.conds
        /\ LET w == [KsCurrent EXCEPT !.exists = FALSE] IN
           w \in KsVersion /\ w.conds = KsCurrent.conds
    BY <2>1 DEF KsVersion
  <2> QED
    BY <1>5, <1>6, <2>2 DEF UserEditsSpec, UserDeletesKs, KsFinalized
<1>7. CASE DeliverKs \/ Restart
  <2>1. Versions(kubeService)' \subseteq Versions(kubeService)
    BY <1>7, DeliverFacts, RelistFacts DEF DeliverKs, Restart, TypeOK, KubeServiceOK
  <2>2. mem' = mem \/ mem' = NoPass
    BY <1>7 DEF DeliverKs, Restart
  <2> QED
    BY <1>1, <1>2, <1>3, <2>1, <2>2 DEF ConditionsHonest, NoPass
<1>8. CASE UNCHANGED kubeService /\ mem'.conds \in {mem.conds, NoConditions,
                                                     Cached(kubeService).conds}
  BY <1>1, <1>2, <1>3, <1>8 DEF ConditionsHonest
<1>9. CASE Start \/ EtcdDelete \/ ReleaseImage \/ DelayExpires
  BY <1>8, <1>9 DEF Start, EtcdDelete, ReleaseImage, DelayExpires, Goto, Requeue, Done,
     NoPass, world
<1>10. CASE ApplyEtcd \/ ApplyKas \/ ApplyKcm
  BY <1>8, <1>10 DEF ApplyEtcd, ApplyKas, ApplyKcm, EtcdGate, KasGate, Requeue, Done, NoPass
<1>11. CASE \/ \E o \in Child : \/ DeliverChild(o) \/ UserDeletesChild(o)
                                \/ UserEditsDeployment(o) \/ StatusChanges(o)
                               \/ BecomesUp(o) \/ Finalized(o) \/ Collected(o)
            \/ BootstrapTimeout \/ PodTerminates \/ PodsReplaced \/ Resync
            \/ UNCHANGED vars
  BY <1>8, <1>11 DEF DeliverChild, UserDeletesChild, UserEditsDeployment, StatusChanges,
     BecomesUp, Finalized, Collected, ForeignChildWrite, BootstrapTimeout, PodTerminates,
     PodsReplaced, PodsRemoved, Resync, world, vars
<1> QED
  BY <1>4, <1>6, <1>7, <1>9, <1>10, <1>11
     DEF Next, Controller, Reconcile, Disruption, Cluster

LEMMA GatesStep ==
    ASSUME TypeOK, RolloutInv, [Next]_vars
    PROVE  GatesPassed'
<1> DEFINE Stages == {"ReleaseImage", "ApplyKas", "ApplyKcm"}
<1>1. CASE pc' \notin Stages
  BY <1>1 DEF GatesPassed
<1>2. CASE pc' = pc /\ mem'.conds = mem.conds
  BY <1>2 DEF RolloutInv, GatesPassed
<1>3. CASE ApplyEtcd
  BY <1>1, <1>3 DEF ApplyEtcd, EtcdGate, Goto, Requeue, GatesPassed
<1>4. CASE ReleaseImage
  BY <1>1, <1>4 DEF ReleaseImage, Goto, Requeue, GatesPassed, RolloutInv
<1>5. CASE ApplyKas
  BY <1>1, <1>5 DEF ApplyKas, KasGate, Goto, Requeue, Done, GatesPassed, RolloutInv
<1>6. CASE ApplyKcm \/ EtcdDelete \/ Restart \/ Start
  BY <1>1, <1>6 DEF ApplyKcm, EtcdDelete, Restart, Start, Goto, Requeue, Done
<1>7. CASE EtcdStatus \/ KasStatus \/ KcmStatus \/ KsStatus
  <2>1. \A next : \A o \in Child : WaitForDeletion(o) \/ SkipMissing(o, next) =>
            pc' \in {"idle", next}
    BY DEF WaitForDeletion, SkipMissing, Goto, Requeue
  <2>2. pc' \notin Stages
    BY <1>7, <2>1 DEF EtcdStatus, KasStatus, KcmStatus, KsStatus, WaitForDeletion, SkipMissing,
       UpdateEtcdCondition, UpdateKasCondition, UpdateKcmCondition, Goto, Requeue, Child
  <2> QED
    BY <1>1, <2>2
<1>8. CASE UserEditsSpec \/ UserDeletesKs \/ KsFinalized
  <2>1. mem \in [image : Images \cup {NoImage}, conds : [ConditionType -> ConditionStatus],
                 fresh : BOOLEAN]
    BY DEF TypeOK, OperatorOK
  <2> QED
    BY <1>2, <1>8, <2>1 DEF UserEditsSpec, UserDeletesKs, KsFinalized, ForeignKsWrite
<1>9. CASE \/ \E o \in Child : \/ DeliverChild(o) \/ UserDeletesChild(o)
                               \/ UserEditsDeployment(o) \/ StatusChanges(o)
                              \/ BecomesUp(o) \/ Finalized(o) \/ Collected(o)
           \/ BootstrapTimeout \/ PodTerminates \/ PodsReplaced \/ Resync
           \/ DeliverKs \/ DelayExpires \/ UNCHANGED vars
  BY <1>2, <1>9 DEF DeliverChild, UserDeletesChild, UserEditsDeployment, StatusChanges,
     BecomesUp, Finalized, Collected, ForeignChildWrite, BootstrapTimeout, PodTerminates,
     PodsReplaced, PodsRemoved, Resync, DeliverKs, DelayExpires, world, vars
<1> QED
  BY <1>3, <1>4, <1>5, <1>6, <1>7, <1>8, <1>9
     DEF Next, Controller, Reconcile, Disruption, Cluster

LEMMA RolloutInit == Init => RolloutInv
<1> SUFFICES ASSUME Init PROVE RolloutInv
  OBVIOUS
<1>1. PICK image \in Images :
          kubeService = <<[exists |-> TRUE, deleting |-> FALSE, image |-> image,
                           conds |-> NoConditions]>>
  BY DEF Init
<1>2. Honest(NoConditions)
  BY DEF Honest, NoConditions, ConditionType, Child
<1>3. ConditionsHonest
  BY <1>1, <1>2 DEF Init, ConditionsHonest, Versions, NoPass
<1>4. ChildrenProven
  <2>1. \A o \in Child : children[o] = <<NeverCreated>>
    BY DEF Init
  <2>2. Versions(<<NeverCreated>>) = {NeverCreated} /\ Current(<<NeverCreated>>) = NeverCreated
    BY DEF Versions, Current
  <2>3. ~NeverCreated.exists /\ NeverCreated.uid = 0
    BY DEF NeverCreated
  <2> QED
    BY <2>1, <2>2, <2>3 DEF ChildrenProven, ChildCurrent, IsUp
<1>5. GatesPassed
  BY DEF Init, GatesPassed
<1> QED
  BY <1>3, <1>4, <1>5 DEF RolloutInv

(* What any cached object, any version on its way and the conditions any pass
   carries say was true at some time, and the gates are passed only on it. *)
THEOREM RolloutInvariant == SafetySpec => []RolloutInv
<1>1. TypeOK /\ TypeOK' /\ RolloutInv /\ [Next]_vars => RolloutInv'
  BY ChildrenStep, ConditionsStep, GatesStep DEF RolloutInv
<1> QED
  BY <1>1, RolloutInit, TypeCorrect, PTL DEF SafetySpec

(* Etcd, then the API server, then the controller manager; Available only after
   all three were up. *)
THEOREM RolloutIsStaged == SafetySpec => []StagedRollout
<1>1. TypeOK /\ RolloutInv => StagedRollout
  <2> SUFFICES ASSUME TypeOK, RolloutInv PROVE StagedRollout
    OBVIOUS
  <2>1. Honest(KsCurrent.conds)
    BY KsVersionsHonest DEF RolloutInv
  <2> QED
    BY <2>1 DEF RolloutInv, ChildrenProven, Due, WasUp, Honest, StagedRollout, Child
<1> QED
  BY <1>1, RolloutInvariant, TypeCorrect, PTL

-----------------------------------------------------------------------------
(* Refinement. *)

(* The uid of a child changes only when the pass creates it. *)
LEMMA ForeignKeepsUid ==
    ASSUME TypeOK, ChildrenProven, NEW o \in Child,
           \/ UserDeletesChild(o) \/ UserEditsDeployment(o) \/ StatusChanges(o)
           \/ BecomesUp(o) \/ Finalized(o) \/ Collected(o)
    PROVE  /\ Launched' = Launched
           /\ Proven' \in {Proven, Proven \cup {o}}
           /\ o \in Launched
           /\ UNCHANGED kubeService
<1> DEFINE c == ChildCurrent(o)
<1>1. c \in ChildVersion
  BY ChildFacts DEF TypeOK
<1>2. PICK v \in ChildVersion : ForeignChildWrite(o, v) /\ v.uid = c.uid /\ c.exists
  <2> ChildrenOK
    BY DEF TypeOK
  <2>1. /\ Gone(c).uid = c.uid
        /\ [c EXCEPT !.deleting = TRUE].uid = c.uid
        /\ \A image : [c EXCEPT !.image = image].uid = c.uid
        /\ \A available, ready : [c EXCEPT !.available = available, !.ready = ready].uid = c.uid
    BY <1>1 DEF ChildVersion, Gone, NeverCreated
  <2>2. Replicas(o) \in Nat /\ \A n \in 0 .. Replicas(o) : n \in Nat
    BY ReplicasAssumption DEF Replicas
  <2>3. CASE UserDeletesChild(o) \/ Finalized(o) \/ Collected(o)
    BY <2>1, <2>3, ChildVersions DEF UserDeletesChild, Finalized, Collected
  <2>4. CASE UserEditsDeployment(o)
    BY <2>1, <2>4, ChildVersions DEF UserEditsDeployment
  <2>5. CASE StatusChanges(o)
    BY <2>1, <2>2, <2>5, ChildVersions DEF StatusChanges
  <2>6. CASE BecomesUp(o)
    BY <2>1, <2>2, <2>6, ChildVersions DEF BecomesUp
  <2> QED
    BY <2>3, <2>4, <2>5, <2>6
<1>3. \A p \in Child : ChildCurrent(p)'.uid = ChildCurrent(p).uid
  <2>1. children' = [children EXCEPT ![o] = Store(children[o], v)]
    BY <1>2, PutChildFacts DEF ForeignChildWrite, TypeOK
  <2>2. Current(Store(children[o], v)) = v
    <3>1. \A s \in Seq(ChildVersion) : s # <<>> => Current(Store(s, v)) = v
      BY StoreFacts
    <3> QED
      BY <3>1, ChildFacts DEF TypeOK
  <2> QED
    BY <1>2, <2>1, <2>2 DEF ChildCurrent, TypeOK, ChildrenOK
<1>4. Launched' = Launched
  BY <1>3 DEF Launched
<1>5. Proven' \in {Proven, Proven \cup {o}}
  BY <1>2 DEF ForeignChildWrite, Proven, TypeOK
<1>6. o \in Launched
  BY <1>2, CurrentProven DEF Launched
<1> QED
  BY <1>2, <1>4, <1>5, <1>6 DEF ForeignChildWrite

(* Applying a child creates it at most, and only when it is due. *)
LEMMA ApplyLaunches ==
    ASSUME TypeOK, RolloutInv, ApplyEtcd \/ ApplyKas \/ ApplyKcm
    PROVE  \E o \in Child :
               /\ Due(o)
               /\ Launched' \in {Launched, Launched \cup {o}}
               /\ UNCHANGED <<wasUp, kubeService>>
<1>1. PICK o \in Child, plan \in {EtcdPlan, KasPlan, KcmPlan}, r \in Response :
          ApplyChild(o, plan, r) /\ Due(o) /\ UNCHANGED <<wasUp, kubeService>>
  <2>1. CASE ApplyEtcd
    BY <2>1 DEF ApplyEtcd, Child, Due
  <2>2. CASE ApplyKas
    BY <2>2 DEF ApplyKas, Child, Due, RolloutInv, GatesPassed, ConditionsHonest, Honest
  <2>3. CASE ApplyKcm
    BY <2>3 DEF ApplyKcm, Child, Due, RolloutInv, GatesPassed, ConditionsHonest, Honest
  <2> QED
    BY <2>1, <2>2, <2>3
<1>2. CASE UNCHANGED children
  BY <1>1, <1>2 DEF Launched, ChildCurrent
<1>3. CASE PutChild(o, Wanted(o))
  <2>1. ChildCurrent(o) \in ChildVersion
    BY ChildFacts DEF TypeOK
  <2>3. Wanted(o) \in ChildVersion
    BY WantedType
  <2>4. children' = [children EXCEPT ![o] = Store(children[o], Wanted(o))]
    BY <1>3, <2>3, PutChildFacts DEF TypeOK
  <2>5. \A p \in Child : p # o => ChildCurrent(p)' = ChildCurrent(p)
    BY <2>4 DEF ChildCurrent, TypeOK, ChildrenOK
  <2>6. ChildCurrent(o)' = Wanted(o)
    <3>1. \A s \in Seq(ChildVersion) : s # <<>> => Current(Store(s, Wanted(o))) = Wanted(o)
      BY <2>3, StoreFacts
    <3> QED
      BY <2>4, <3>1, ChildFacts DEF ChildCurrent, TypeOK, ChildrenOK
  <2>7. Wanted(o).uid = ChildCurrent(o).uid \/ Wanted(o).uid > 0
    <3>1. \A image : /\ [ChildCurrent(o) EXCEPT !.image = image].uid = ChildCurrent(o).uid
                     /\ Created(ChildCurrent(o), image).uid > 0
      BY <2>1 DEF ChildVersion, Created, NeverCreated
    <3> QED
      BY <3>1 DEF Wanted
  <2>8. Launched' \in {Launched, Launched \cup {o}}
    <3>1. Launched' \ {o} = Launched \ {o}
      BY <2>5 DEF Launched
    <3>2. o \in Launched => o \in Launched'
      BY <2>6, <2>7 DEF Launched
    <3> QED
      BY <3>1, <3>2
  <2> QED
    BY <1>1, <2>8
<1> QED
  BY <1>1, <1>2, <1>3 DEF ApplyChild

(* All other steps of the controller keep the children's uids and the history. *)
LEMMA OthersKeep ==
    ASSUME TypeOK,
           \/ EtcdDelete \/ Restart \/ \E o \in Child : DeliverChild(o)
    PROVE  /\ Launched' = Launched /\ UNCHANGED wasUp
           /\ KsCurrent' = KsCurrent
<1>1. UNCHANGED wasUp
  BY DEF EtcdDelete, Restart, DeliverChild
<1>2. KsCurrent' = KsCurrent
  <2>1. CASE Restart
    BY <2>1, RelistFacts DEF Restart, KsCurrent, TypeOK, KubeServiceOK
  <2>2. CASE UNCHANGED kubeService
    BY <2>2 DEF KsCurrent
  <2> QED
    BY <2>1, <2>2 DEF EtcdDelete, DeliverChild
<1>3. \A p \in Child : ChildCurrent(p)'.uid = ChildCurrent(p).uid
  <2>1. CASE EtcdDelete
    <3> DEFINE c == ChildCurrent("etcd")
    <3> "etcd" \in Child
      BY DEF Child
    <3>1. c \in ChildVersion
      BY ChildFacts DEF TypeOK
    <3>2. /\ Gone(c) \in ChildVersion /\ Gone(c).uid = c.uid
          /\ [c EXCEPT !.deleting = TRUE] \in ChildVersion
          /\ [c EXCEPT !.deleting = TRUE].uid = c.uid
      <4>1. ChildrenOK
        BY DEF TypeOK
      <4>2. Gone(c) \in ChildVersion /\ [c EXCEPT !.deleting = TRUE] \in ChildVersion
        BY <4>1, ChildVersions
      <4> HIDE DEF c
      <4>3. Gone(c).uid = c.uid
        BY DEF Gone, NeverCreated
      <4>4. [c EXCEPT !.deleting = TRUE].uid = c.uid
        BY <3>1 DEF ChildVersion
      <4> QED
        BY <4>2, <4>3, <4>4
    <3>3. CASE UNCHANGED children
      BY <3>3 DEF ChildCurrent
    <3>4. ASSUME NEW v \in ChildVersion, v.uid = c.uid, PutChild("etcd", v)
          PROVE  \A p \in Child : ChildCurrent(p)'.uid = ChildCurrent(p).uid
      <4>1. children' = [children EXCEPT !["etcd"] = Store(children["etcd"], v)]
        BY <3>4, PutChildFacts DEF TypeOK
      <4>2. \A s \in Seq(ChildVersion) : s # <<>> => Current(Store(s, v)) = v
        BY StoreFacts
      <4> QED
        BY <3>4, <4>1, <4>2, ChildFacts DEF ChildCurrent, TypeOK, ChildrenOK
    <3> QED
      BY <2>1, <3>2, <3>3, <3>4 DEF EtcdDelete
  <2>2. CASE Restart
    <3>1. \A s \in Seq(ChildVersion) : s # <<>> => Current(Relisted(s)) = Current(s)
      BY RelistFacts
    <3> QED
      BY <2>2, <3>1, ChildFacts DEF Restart, ChildCurrent, TypeOK
  <2>3. CASE \E o \in Child : DeliverChild(o)
    <3>1. \A s \in Seq(ChildVersion) :
              s # <<>> /\ ~Synced(s) => Current(Tail(s)) = Current(s)
      BY DeliverFacts
    <3> QED
      BY <2>3, <3>1, ChildFacts DEF DeliverChild, ChildCurrent, TypeOK, ChildrenOK
  <2> QED
    BY <2>1, <2>2, <2>3
<1> QED
  BY <1>1, <1>2, <1>3 DEF Launched

LEMMA AbstractInit == Init => Abstract!Init
<1> SUFFICES ASSUME Init PROVE Abstract!Init
  OBVIOUS
<1>1. Launched = {}
  BY DEF Init, Launched, ChildCurrent, Current, NeverCreated
<1>2. Proven = {}
  BY DEF Init, Proven
<1>3. ~Announced
  BY DEF Init, Announced, KsCurrent, Current, NoConditions, ConditionType, Child
<1> QED
  BY <1>1, <1>2, <1>3 DEF Abstract!Init, Announced

(* Every step of the operator and its world is a step of the rollout or none. *)
LEMMA AbstractStep ==
    ASSUME TypeOK, RolloutInv, StagedRollout', [Next]_vars
    PROVE  [Abstract!Next]_(Abstract!vars)
<1> USE DEF Abstract!vars
<1>1. CASE Launched' = Launched /\ UNCHANGED wasUp /\ KsCurrent' = KsCurrent
  BY <1>1 DEF Proven, Announced
<1>2. CASE ApplyEtcd \/ ApplyKas \/ ApplyKcm
  <2>1. PICK o \in Child : /\ Due(o)
                           /\ Launched' \in {Launched, Launched \cup {o}}
                          /\ UNCHANGED <<wasUp, kubeService>>
    BY <1>2, ApplyLaunches
  <2>2. Proven' = Proven /\ Announced' = Announced
    BY <2>1 DEF Proven, Announced, KsCurrent
  <2>3. Abstract!Prerequisites(o) \subseteq Proven
    BY <2>1 DEF Abstract!Prerequisites, Due, WasUp, Proven, Child
  <2>4. CASE Launched' # Launched
    <3>1. Abstract!Launch(o)
      BY <2>1, <2>2, <2>3, <2>4 DEF Abstract!Launch
    <3> QED
      BY <3>1 DEF Abstract!Next, Abstract!Part, Child
  <2> QED
    BY <2>2, <2>4
<1>3. ASSUME NEW o \in Child,
             \/ UserDeletesChild(o) \/ UserEditsDeployment(o) \/ StatusChanges(o)
             \/ BecomesUp(o) \/ Finalized(o) \/ Collected(o)
      PROVE  [Abstract!Next]_(Abstract!vars)
  <2>1. /\ Launched' = Launched
        /\ Proven' \in {Proven, Proven \cup {o}}
        /\ o \in Launched
        /\ UNCHANGED kubeService
    BY <1>3, ForeignKeepsUid DEF RolloutInv
  <2>2. Announced' = Announced
    BY <2>1 DEF Announced, KsCurrent
  <2>3. CASE Proven' # Proven
    <3>1. Abstract!Prove(o)
      BY <2>1, <2>2, <2>3 DEF Abstract!Prove
    <3> QED
      BY <3>1 DEF Abstract!Next, Abstract!Part, Child
  <2> QED
    BY <2>1, <2>2, <2>3
<1>4. CASE EtcdStatus \/ KasStatus \/ KcmStatus \/ KsStatus
  <2>1. UNCHANGED <<children, wasUp>>
    BY <1>4 DEF EtcdStatus, KasStatus, KcmStatus, KsStatus
  <2>2. Launched' = Launched /\ Proven' = Proven
    BY <2>1 DEF Launched, ChildCurrent, Proven
  <2>3. Announced' => Proven' = Abstract!Part
    BY DEF StagedRollout, Announced, Proven, Abstract!Part, Child
  <2>4. CASE Announced' # Announced
    <3>1. Announced \in BOOLEAN /\ Announced' \in BOOLEAN
      BY DEF Announced
    <3>2. Abstract!Announce \/ Abstract!Retract
      BY <2>2, <2>3, <2>4, <3>1 DEF Abstract!Announce, Abstract!Retract
    <3> QED
      BY <3>2 DEF Abstract!Next
  <2> QED
    BY <2>2, <2>4
<1>5. CASE EtcdDelete \/ Restart \/ \E o \in Child : DeliverChild(o)
  BY <1>1, <1>5, OthersKeep
<1>6. CASE UserEditsSpec \/ UserDeletesKs \/ KsFinalized
  <2>1. Launched' = Launched /\ Proven' = Proven
    BY <1>6 DEF UserEditsSpec, UserDeletesKs, KsFinalized, ForeignKsWrite, Launched,
       ChildCurrent, Proven
  <2>2. KsCurrent \in KsVersion
    BY KsFacts DEF TypeOK
  <2>3. \E v \in KsVersion : v.conds = KsCurrent.conds /\ kubeService' = Store(kubeService, v)
    <3>1. /\ \A image \in Images : LET w == [KsCurrent EXCEPT !.image = image] IN
                                   w \in KsVersion /\ w.conds = KsCurrent.conds
          /\ LET w == [KsCurrent EXCEPT !.deleting = TRUE] IN
             w \in KsVersion /\ w.conds = KsCurrent.conds
          /\ LET w == [KsCurrent EXCEPT !.exists = FALSE] IN
             w \in KsVersion /\ w.conds = KsCurrent.conds
      BY <2>2 DEF KsVersion
    <3> QED
      BY <1>6, <3>1 DEF UserEditsSpec, UserDeletesKs, KsFinalized, ForeignKsWrite
  <2>4. Announced' = Announced
    <3>1. PICK v \in KsVersion : v.conds = KsCurrent.conds /\ kubeService' = Store(kubeService, v)
      BY <2>3
    <3>2. Current(Store(kubeService, v)) = v
      BY StoreFacts DEF TypeOK, KubeServiceOK
    <3> QED
      BY <3>1, <3>2 DEF Announced, KsCurrent
  <2> QED
    BY <2>1, <2>4
<1>7. CASE DeliverKs
  <2>1. KsCurrent' = KsCurrent
    BY <1>7, DeliverFacts DEF DeliverKs, KsCurrent, TypeOK, KubeServiceOK
  <2> QED
    BY <1>1, <1>7, <2>1 DEF DeliverKs, Launched, ChildCurrent
<1>8. CASE \/ Start \/ ReleaseImage \/ DelayExpires
           \/ BootstrapTimeout \/ PodTerminates \/ PodsReplaced \/ Resync
           \/ UNCHANGED vars
  <2>1. UNCHANGED <<kubeService, children, wasUp>>
    BY <1>8 DEF Start, ReleaseImage, DelayExpires, BootstrapTimeout, PodTerminates,
       PodsReplaced, PodsRemoved, Resync, world, vars
  <2> QED
    BY <1>1, <2>1 DEF Launched, ChildCurrent, KsCurrent
<1> QED
  BY <1>2, <1>3, <1>4, <1>5, <1>6, <1>7, <1>8
     DEF Next, Controller, Reconcile, Disruption, Cluster

(* The operator implements the staged rollout, whatever fails, restarts, is
   edited or is deleted, and however far the cache lags behind. *)
THEOREM RolloutImplemented == SafetySpec => ImplementsRollout
<1>1. Init => Abstract!Init
  BY AbstractInit
<1>2. TypeOK /\ RolloutInv /\ StagedRollout' /\ [Next]_vars
          => [Abstract!Next]_(Abstract!vars)
  BY AbstractStep
<1> QED
  BY <1>1, <1>2, TypeCorrect, RolloutInvariant, RolloutIsStaged, PTL
     DEF SafetySpec, ImplementsRollout, Abstract!Spec
=============================================================================
